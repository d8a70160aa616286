------------------------------ MODULE Lockstep ------------------------------
(***************************************************************************)
(* The lockstep network game of karte_t: one server and its clients run   *)
(* the same deterministic simulation; every change of the world is a      *)
(* network_world_command_t stamped with the sync step at which each        *)
(* machine executes it (simworld.cc, network/network_cmd_ingame.cc).       *)
(*                                                                         *)
(* A world is abstracted by the history of what was done to it, a          *)
(* checklist (random seed and handle counters) by the world it was taken   *)
(* from.  A client owns one connection and one slot of the socket list.    *)
(***************************************************************************)
EXTENDS Integers, Sequences, FiniteSets

CONSTANTS
    Client,          \* the client machines
    Tool,            \* the tool calls (nwc_tool_t) that may be issued, each once
    MaxStep,         \* bound: the server's last sync step
    MaxTries,        \* bound: how many joins, forced syncs and quits there are
    MaxGlitches,     \* bound: how many simulations may diverge by themselves
    ChecklistCount,  \* LAST_CHECKLISTS_COUNT
    MaxMapCounters,  \* MAX_MAP_COUNTERS of nwc_ready_t
    PauseNoClients,  \* env_t::pause_server_no_clients
    NoClient         \* client_id -1 of a forced sync, and "nobody joins"

ASSUME BoundsAssumption ==
    /\ MaxStep \in Nat /\ MaxTries \in Nat /\ MaxGlitches \in Nat
    /\ ChecklistCount \in Nat /\ ChecklistCount > 1
    /\ MaxMapCounters \in Nat /\ MaxMapCounters > 0
    /\ PauseNoClients \in BOOLEAN
    /\ NoClient \notin Client

VARIABLES
    \* the server
    sStep,      \* sync_steps
    sMap,       \* map_counter
    sQueue,     \* command_queue
    sWorld,     \* the simulated world
    sChk,       \* last_checklists
    sPaused,    \* PAUSE_FLAG of step_mode
    loop,       \* the pass of karte_t::interactive: "receive" or "execute"
    allMaps,    \* nwc_ready_t::all_map_counters, newest first
    nextMap,    \* the next value of generate_new_map_counter, always fresh
    pending,    \* nwc_join_t::pending_join_client
    slot,       \* slot[c]: socket_info_t::state of the connection of c
    sendq,      \* sendq[c]: socket_info_t::send_queue
    \* the wires: reliable, first in first out
    toClient, toServer,
    \* the clients
    client,     \* client[c]: the record Machine below
    \* what happened so far
    issued,     \* tools already issued
    tries,      \* joins, forced syncs and quits so far
    glitches,   \* clients whose simulation diverged by itself
    lost,       \* clients that dropped a command of the world they entered
    why         \* why[c]: what ended the last game of c, "ok" if nothing bad

serverVars == <<sStep, sMap, sQueue, sWorld, sChk, sPaused, loop, allMaps, nextMap,
                pending, slot>>
wireVars   == <<sendq, toClient, toServer>>
ghostVars  == <<issued, tries, glitches, lost, why>>
vars == <<serverVars, wireVars, client, ghostVars>>

-----------------------------------------------------------------------------
(* Worlds, checklists and packets. *)

Reload == "reload"    \* the world was saved and loaded again by NWC_SYNC
Glitch == "glitch"    \* the simulation of one machine went its own way
Entry  == [step : Nat, what : Tool \cup {Reload, Glitch}]
World  == Seq(Entry)
Done(s, w) == [step |-> s, what |-> w]

\* The ring of LAST_CHECKLISTS_COUNT checklists, LCHKLST of simworld.h.
Blank == <<Done(0, Glitch)>>          \* checklist_t(): that of no real world
NoChecklists == [i \in 0 .. ChecklistCount - 1 |-> Blank]
LCHKLST(ring, s) == ring[s % ChecklistCount]
SetChecklist(ring, s, w) == [ring EXCEPT ![s % ChecklistCount] = w]
IsChecklistAvailable_OffByOne(s, now) == s + ChecklistCount >= now
IsChecklistAvailable(s, now) == s + ChecklistCount > now

\* A command is checked against a checklist that is still in the ring.
Mismatch(ring, now, s, chk) == IsChecklistAvailable(s, now) /\ LCHKLST(ring, s) # chk

ToolPacket(s, m, t, ls, chk) ==
    [kind |-> "tool", step |-> s, map |-> m, tool |-> t, lastStep |-> ls, lastChk |-> chk]

ToolCmd  == [kind : {"tool"}, step : Nat, map : Nat, tool : Tool, lastStep : Nat, lastChk : World]
SyncCmd  == [kind : {"sync"}, step : Nat, map : Nat, client : Client \cup {NoClient}, newMap : Nat]
CheckCmd == [kind : {"check"}, step : Nat, map : Nat, srvStep : Nat, chk : World]
WorldCmd == ToolCmd \cup SyncCmd \cup CheckCmd
Ready    == [kind : {"ready"}, step : Nat, map : Nat, chk : World]
ServerPacket == WorldCmd \cup Ready \cup [kind : {"step"}, step : Nat, map : Nat]
             \cup [kind : {"join"}, answer : BOOLEAN] \cup [kind : {"game"}, world : World]
             \cup [kind : {"eof"}]
ClientPacket == ToolCmd \cup Ready \cup [kind : {"join"}] \cup [kind : {"eof"}]

EOF == [kind |-> "eof"]
ReadyPacket_NoChecklist(s, m, w) == [kind |-> "ready", step |-> s, map |-> m]
ReadyPacket(s, m, w) == [kind |-> "ready", step |-> s, map |-> m, chk |-> w]

\* The state of a client, the one it has outside of a game, and the one it
\* starts a game with.
Machine == [state : {"offline", "waitJoin", "waitSync", "waitGame", "ingame"},
            step : Nat, barrier : Nat, map : Nat, queue : Seq(WorldCmd),
            world : World, chk : [0 .. ChecklistCount - 1 -> World], paused : BOOLEAN]
Reset(st, m, w, p) == [state |-> st, step |-> 0, barrier |-> 0, map |-> m, queue |-> <<>>,
                       world |-> w, chk |-> NoChecklists, paused |-> p]
Outside(st, m) == Reset(st, m, <<>>, FALSE)
Loaded(m, w)   == Reset("ingame", m, w, TRUE)

\* What may end a game: a command in the past, a checklist that differs (seen by
\* the client or by the server), a map counter (likewise), or nothing bad.
Ending == {"ok", "late", "desync", "kicked", "map", "forgotten"}

InGame(c) == client[c].state = "ingame"
IsClean(c) == c \notin glitches /\ c \notin lost

-----------------------------------------------------------------------------
(* Queues. *)

\* karte_t::command_queue_append: behind every command of the ordered queue
\* that is not later than cmd.
CommandQueueAppend(q, cmd) ==
    LET NotLater(i) == q[i].step <= cmd.step
    IN  [i \in 1 .. Len(q) + 1 |-> IF i <= Len(q) /\ NotLater(i) THEN q[i]
                                   ELSE IF i = 1 \/ NotLater(i - 1) THEN cmd ELSE q[i - 1]]

\* karte_t::get_next_command_step() <= sync_steps.
Due_StepLater(q, s) == q # <<>> /\ Head(q).step < s
Due(q, s) == q # <<>> /\ Head(q).step <= s

\* network_world_command_t::ignore_old_events.
IgnoreOldEvents(cmd) == cmd.kind = "check"

\* socket_list_t::send_all: a packet for every connection, playing or joining.
SendAll(p) == [c \in Client |-> IF slot[c] = "inactive" THEN sendq[c] ELSE Append(sendq[c], p)]

GetPlayingClients == {c \in Client : slot[c] = "playing"}

\* karte_t::interactive pauses a server without clients, unless one is joining.
ShouldPause_JoinForgotten == PauseNoClients /\ GetPlayingClients = {}
ShouldPause == PauseNoClients /\ GetPlayingClients = {} /\ pending = NoClient

-----------------------------------------------------------------------------
(* Initial state: the server runs a map, nobody is connected. *)

Init ==
    /\ sStep = 0 /\ sMap = 1 /\ sQueue = <<>> /\ sWorld = <<>>
    /\ sChk = NoChecklists /\ sPaused = PauseNoClients /\ loop = "receive"
    /\ allMaps = <<1>> /\ nextMap = 2 /\ pending = NoClient
    /\ slot = [c \in Client |-> "inactive"]
    /\ sendq = [c \in Client |-> <<>>]
    /\ toClient = [c \in Client |-> <<>>]
    /\ toServer = [c \in Client |-> <<>>]
    /\ client = [c \in Client |-> Outside("offline", 0)]
    /\ issued = {} /\ tries = 0 /\ glitches = {} /\ lost = {}
    /\ why = [c \in Client |-> "ok"]

-----------------------------------------------------------------------------
(* The server, receiving: network_check_activity and execute(). *)

\* A command for everybody, the server included, at the next sync step.
Broadcast(cmd) == sendq' = SendAll(cmd) /\ sQueue' = CommandQueueAppend(sQueue, cmd)

TakePacket(c) == toServer' = [toServer EXCEPT ![c] = Tail(@)]

\* The first packet from c, once network_check_activity reads its socket.
Received(c, kind) == /\ loop = "receive" /\ slot[c] # "inactive"
                     /\ toServer[c] # <<>> /\ Head(toServer[c]).kind = kind

\* socket_list_t::remove_client and network_close_socket.
RemoveClient(c) ==
    /\ slot' = [slot EXCEPT ![c] = "inactive"]
    /\ sendq' = [sendq EXCEPT ![c] = <<>>]
    /\ toClient' = [toClient EXCEPT ![c] = Append(@, EOF)]
    /\ toServer' = [toServer EXCEPT ![c] = <<>>]
    /\ pending' = IF pending = c THEN NoClient ELSE pending
    /\ UNCHANGED <<sStep, sMap, sQueue, sWorld, sChk, sPaused, loop, allMaps, nextMap,
                   client, issued, tries, glitches, lost>>

\* The server disconnects c, for a checklist or for a map counter.
Kick(c, reason) == RemoveClient(c) /\ why' = [why EXCEPT ![c] = reason]

SyncPacket(c) == [kind |-> "sync", step |-> sStep + 1, map |-> sMap, client |-> c,
                  newMap |-> nextMap]

\* The join of c is accepted: everybody synchronises, the server is resumed.
AcceptJoin_StillPaused(c) ==
    /\ Broadcast(SyncPacket(c))
    /\ nextMap' = nextMap + 1 /\ pending' = c /\ UNCHANGED sPaused
AcceptJoin(c) ==
    /\ Broadcast(SyncPacket(c))
    /\ nextMap' = nextMap + 1 /\ pending' = c /\ sPaused' = FALSE

\* nwc_join_t::execute.  The answer and the NWC_SYNC for the joining client go
\* straight to its socket, past the send queue.
SrvReceiveJoin(c) ==
    /\ Received(c, "join")
    /\ TakePacket(c)
    /\ LET ok == pending = NoClient
           answer == <<[kind |-> "join", answer |-> ok]>>
       IN  IF ok
           THEN /\ toClient' = [toClient EXCEPT ![c] = @ \o answer \o <<SyncPacket(c)>>]
                /\ AcceptJoin(c)
           ELSE /\ toClient' = [toClient EXCEPT ![c] = @ \o answer]
                /\ UNCHANGED <<sendq, sQueue, nextMap, pending, sPaused>>
    /\ UNCHANGED <<sStep, sMap, sWorld, sChk, loop, allMaps, slot, client, ghostVars>>

\* A tool of client c: process_network_commands compares checklists, then
\* network_broadcast_world_command_t::execute checks the world and sends a
\* clone, stamped anew, to everybody.
SrvReceiveTool(c) ==
    /\ Received(c, "tool")
    /\ LET cmd == Head(toServer[c])
           tooFast == cmd.lastStep > sStep
           outOfSync == ~tooFast /\ Mismatch(sChk, sStep, cmd.lastStep, cmd.lastChk)
       IN  \/ outOfSync /\ Kick(c, "kicked")
           \/ /\ ~outOfSync
              /\ tooFast \/ cmd.map # sMap
              /\ TakePacket(c)
              /\ UNCHANGED <<serverVars, sendq, toClient, client, ghostVars>>
           \/ /\ ~outOfSync /\ ~tooFast /\ cmd.map = sMap
              /\ TakePacket(c)
              /\ Broadcast(ToolPacket(sStep + 1, sMap, cmd.tool, sStep, LCHKLST(sChk, sStep)))
              /\ UNCHANGED <<sStep, sMap, sWorld, sChk, sPaused, loop, allMaps, nextMap, pending,
                             slot, toClient, client, ghostVars>>

\* nwc_ready_t::execute on the server: the echo, sent directly, resumes c.
EchoReady_Never(c, r) == UNCHANGED toClient
EchoReady(c, r) == toClient' = [toClient EXCEPT ![c] = Append(@, r)]

SrvReceiveReady(c) ==
    /\ Received(c, "ready")
    /\ LET r == Head(toServer[c])
           outOfSync == Mismatch(sChk, sStep, r.step, r.chk)
           known == \E i \in DOMAIN allMaps : allMaps[i] = r.map
       IN  IF outOfSync THEN Kick(c, "kicked")
           ELSE IF ~known THEN Kick(c, "forgotten")
           ELSE /\ TakePacket(c)
                /\ EchoReady(c, r)
                /\ UNCHANGED <<serverVars, sendq, client, ghostVars>>

\* packet_t::recv fails: the connection of c is gone.
SrvReceiveEOF(c) == Received(c, "eof") /\ RemoveClient(c) /\ UNCHANGED why

\* A tool of the server's own player or scripts (karte_t::call_work).
SrvTool(t) ==
    /\ loop = "receive" /\ t \notin issued
    /\ issued' = issued \cup {t}
    /\ Broadcast(ToolPacket(sStep + 1, sMap, t, sStep, LCHKLST(sChk, sStep)))
    /\ UNCHANGED <<sStep, sMap, sWorld, sChk, sPaused, loop, allMaps, nextMap, pending, slot,
                   toClient, toServer, client, tries, glitches, lost, why>>

-----------------------------------------------------------------------------
(* The server, executing. *)

\* nwc_ready_t::append_map_counter: in front, and the oldest one is forgotten.
AppendMapCounter_AlwaysPops(m) == SubSeq(<<m>> \o allMaps, 1, Len(allMaps))
AppendMapCounter(m) ==
    SubSeq(<<m>> \o allMaps, 1,
           IF Len(allMaps) = MaxMapCounters THEN MaxMapCounters ELSE Len(allMaps) + 1)

\* nwc_sync_t::do_command on the server: save, send the game to a joining
\* client, load (which empties the command queue), enter a new world.
SrvReload(c, newMap) ==
    /\ sQueue' = <<>>
    /\ sWorld' = Append(sWorld, Done(sStep, Reload))    \* as loaded from the file
    /\ sMap' = newMap
    /\ allMaps' = AppendMapCounter(newMap)
    /\ sPaused' = FALSE /\ pending' = NoClient
    /\ IF c # NoClient /\ slot[c] # "inactive"
       THEN /\ toClient' = [toClient EXCEPT ![c] =
                   @ \o <<[kind |-> "game", world |-> sWorld'],
                          ReadyPacket(sStep, newMap, LCHKLST(sChk, sStep))>>]
            /\ slot' = [slot EXCEPT ![c] = "playing"]
       ELSE UNCHANGED <<toClient, slot>>
    /\ UNCHANGED <<sStep, sChk, loop, sendq, toServer, client, issued, glitches, lost, why>>

\* nwc_service_t::execute, SRVC_FORCE_SYNC.
SrvForceSync ==
    /\ loop = "receive" /\ tries < MaxTries
    /\ tries' = tries + 1 /\ nextMap' = nextMap + 1
    /\ \/ sPaused /\ GetPlayingClients = {} /\ SrvReload(NoClient, nextMap)
       \/ /\ ~sPaused
          /\ Broadcast(SyncPacket(NoClient))
          /\ UNCHANGED <<sStep, sMap, sWorld, sChk, sPaused, loop, allMaps, pending, slot,
                         toClient, toServer, client, issued, glitches, lost, why>>

\* network_process_send_queues, after the packets and before the commands.
SrvFlush ==
    /\ loop = "receive"
    /\ loop' = "execute"
    /\ toClient' = [c \in Client |-> toClient[c] \o sendq[c]]
    /\ sendq' = [c \in Client |-> <<>>]
    /\ UNCHANGED <<sStep, sMap, sQueue, sWorld, sChk, sPaused, allMaps, nextMap, pending, slot,
                   toServer, client, ghostVars>>

\* process_network_commands and do_network_world_command.  That no command of
\* the server lies in the past is the invariant NeverLate.
SrvExecute(kind) == loop = "execute" /\ Due(sQueue, sStep) /\ Head(sQueue).kind = kind

SrvExecuteTool ==
    /\ SrvExecute("tool")
    /\ LET cmd == Head(sQueue)
       IN  sWorld' = IF cmd.map = sMap /\ ~Mismatch(sChk, sStep, cmd.lastStep, cmd.lastChk)
                     THEN Append(sWorld, Done(sStep, cmd.tool))
                     ELSE sWorld
    /\ sQueue' = Tail(sQueue)
    /\ UNCHANGED <<sStep, sMap, sChk, sPaused, loop, allMaps, nextMap, pending, slot, wireVars,
                   client, ghostVars>>

SrvExecuteSync ==
    /\ SrvExecute("sync")
    /\ SrvReload(Head(sQueue).client, Head(sQueue).newMap)
    /\ UNCHANGED <<nextMap, tries>>

\* A frame of karte_t::interactive: the sync step advances, its checklist is
\* taken, and the clients hear of it by NWC_CHECK or NWC_STEP, depending on the
\* step and the lag.  Past MaxStep there are frames only for waiting commands.
SrvFrame ==
    /\ loop = "execute" /\ ~Due(sQueue, sStep) /\ ~sPaused
    /\ sStep < MaxStep \/ sQueue # <<>>
    /\ sStep' = sStep + 1
    /\ sChk' = SetChecklist(sChk, sStep + 1, sWorld)
    /\ \E p \in {[kind |-> "check", step |-> sStep + 2, map |-> sMap, srvStep |-> sStep + 1,
                  chk |-> sWorld],
                 [kind |-> "step", step |-> sStep + 1, map |-> sMap]} : sendq' = SendAll(p)
    /\ sPaused' = ShouldPause
    /\ loop' = "receive"
    /\ UNCHANGED <<sMap, sQueue, sWorld, allMaps, nextMap, pending, slot, toClient, toServer,
                   client, ghostVars>>

\* A pass without a frame: the next one is not due yet, or the game is paused.
SrvIdle ==
    /\ loop = "execute" /\ ~Due(sQueue, sStep)
    /\ loop' = "receive"
    /\ UNCHANGED <<sStep, sMap, sQueue, sWorld, sChk, sPaused, allMaps, nextMap, pending, slot,
                   wireVars, client, ghostVars>>

-----------------------------------------------------------------------------
(* A client. *)

\* The connection ends: packets under way are lost, the server will notice.
\* In a game this is network_disconnect (and its reason), before it the error
\* exit of network_connect.
LeaveNow(c, reason) ==
    /\ client' = [client EXCEPT ![c] = Outside("offline", 0)]
    /\ toClient' = [toClient EXCEPT ![c] = <<>>]
    /\ toServer' = [toServer EXCEPT ![c] = Append(@, EOF)]
    /\ why' = [why EXCEPT ![c] = IF reason = "ok" THEN @ ELSE reason]

Leave(c, reason) ==
    /\ LeaveNow(c, reason)
    /\ UNCHANGED <<serverVars, sendq, issued, tries, glitches, lost>>

\* network_connect opens a connection (the server accepts it, add_client) and
\* sends NWC_JOIN.
Connect(c) ==
    /\ client[c].state = "offline" /\ slot[c] = "inactive" /\ tries < MaxTries
    /\ tries' = tries + 1
    /\ slot' = [slot EXCEPT ![c] = "connected"]
    /\ client' = [client EXCEPT ![c] = Outside("waitJoin", 0)]
    /\ toClient' = [toClient EXCEPT ![c] = <<>>]
    /\ toServer' = [toServer EXCEPT ![c] = <<[kind |-> "join"]>>]
    /\ glitches' = glitches \ {c} /\ lost' = lost \ {c} /\ why' = [why EXCEPT ![c] = "ok"]
    /\ UNCHANGED <<sStep, sMap, sQueue, sWorld, sChk, sPaused, loop, allMaps, nextMap, pending,
                   sendq, issued>>

CliHead(c, kinds) == toClient[c] # <<>> /\ Head(toClient[c]).kind \in kinds
CliTake(c) == toClient' = [toClient EXCEPT ![c] = Tail(@)]
CliBecomes(c, m) == /\ client' = [client EXCEPT ![c] = m]
                    /\ UNCHANGED <<serverVars, sendq, issued, tries, glitches, why>>

\* network_connect: NWC_JOIN, then NWC_SYNC, then NWC_GAME; other packets are
\* thrown away.  The bytes of a game nobody waits for are no packets.
CliJoin(c) ==
    /\ client[c].state = "waitJoin" /\ CliHead(c, {"join"})
    /\ IF Head(toClient[c]).answer
       THEN CliTake(c) /\ CliBecomes(c, Outside("waitSync", 0)) /\ UNCHANGED <<toServer, lost>>
       ELSE Leave(c, "ok")

CliSync(c) ==
    /\ client[c].state = "waitSync" /\ CliHead(c, {"sync"})
    /\ CliTake(c)
    /\ CliBecomes(c, Outside("waitGame", Head(toClient[c]).newMap))
    /\ UNCHANGED <<toServer, lost>>

CliGame(c) ==
    /\ client[c].state = "waitGame" /\ CliHead(c, {"game"})
    /\ CliTake(c)
    /\ CliBecomes(c, Loaded(client[c].map, Head(toClient[c]).world))
    /\ UNCHANGED <<toServer, lost>>

CliDiscard(c) ==
    LET awaited == CASE client[c].state = "waitJoin" -> "join"
                     [] client[c].state = "waitSync" -> "sync"
                     [] OTHER -> "game"
    IN  /\ client[c].state \in {"waitJoin", "waitSync", "waitGame"} /\ toClient[c] # <<>>
        /\ Head(toClient[c]).kind # awaited
        /\ IF Head(toClient[c]).kind \in {"game", "eof"}
           THEN Leave(c, "ok")
           ELSE CliTake(c) /\ UNCHANGED <<serverVars, sendq, toServer, client, ghostVars>>

\* process_network_commands: NWC_STEP and NWC_CHECK move the barrier.
CliStep(c) ==
    /\ InGame(c) /\ CliHead(c, {"step"})
    /\ CliTake(c)
    /\ LET s == Head(toClient[c]).step
       IN  CliBecomes(c, [client[c] EXCEPT !.barrier = IF @ < s THEN s ELSE @])
    /\ UNCHANGED <<toServer, lost>>

\* network_world_command_t::execute: a command in the past ends the game, any
\* other, of this world or not, is put into the queue.
CliCommand(c) ==
    /\ InGame(c) /\ CliHead(c, {"tool", "sync", "check"})
    /\ LET cmd == Head(toClient[c])
           m == IF cmd.kind = "check" /\ client[c].barrier < cmd.srvStep
                THEN [client[c] EXCEPT !.barrier = cmd.srvStep] ELSE client[c]
           past == cmd.step < m.step
       IN  IF past /\ ~IgnoreOldEvents(cmd)
           THEN Leave(c, "late")
           ELSE /\ CliTake(c)
                /\ CliBecomes(c, IF past THEN m
                                 ELSE [m EXCEPT !.queue = CommandQueueAppend(@, cmd)])
                /\ UNCHANGED <<toServer, lost>>

\* nwc_ready_t::execute on a client, network_game_set_pause(false, sync_step).
CliReady(c) ==
    /\ InGame(c) /\ CliHead(c, {"ready"})
    /\ LET r == Head(toClient[c])
       IN  IF r.map = client[c].map
           THEN /\ CliTake(c)
                /\ CliBecomes(c, [client[c] EXCEPT
                       !.step = r.step, !.barrier = r.step, !.paused = FALSE,
                       !.chk = SetChecklist(@, r.step, r.chk)])
                /\ UNCHANGED <<toServer, lost>>
           ELSE Leave(c, "map")

\* network_check_server_connection: the server closed the connection.
CliEOF(c) == InGame(c) /\ CliHead(c, {"eof"}) /\ Leave(c, "ok")

\* process_network_commands: the first due command, do_network_world_command.
CliExecute(c, kind) == /\ InGame(c) /\ Due(client[c].queue, client[c].step)
                       /\ Head(client[c].queue).kind = kind

Executes_KeepsCommand(c, m) == CliBecomes(c, m) /\ UNCHANGED toClient
Executes(c, m) == CliBecomes(c, [m EXCEPT !.queue = Tail(@)]) /\ UNCHANGED toClient

Past(c)         == Head(client[c].queue).step < client[c].step
AnotherWorld_Unchecked(c) == FALSE
AnotherWorld(c) == Head(client[c].queue).map # client[c].map

CliExecuteCheck(c) ==
    /\ CliExecute(c, "check")
    /\ LET cmd == Head(client[c].queue)
       IN  IF ~Past(c) /\ ~AnotherWorld(c) /\ LCHKLST(client[c].chk, cmd.srvStep) # cmd.chk
           THEN Leave(c, "desync")
           ELSE Executes(c, client[c]) /\ UNCHANGED <<toServer, lost>>

CliExecuteTool(c) ==
    /\ CliExecute(c, "tool")
    /\ LET m == client[c]
           cmd == Head(m.queue)
       IN  IF Past(c) THEN Leave(c, "late")
           ELSE IF AnotherWorld(c) THEN Executes(c, m) /\ UNCHANGED <<toServer, lost>>
           ELSE IF Mismatch(m.chk, m.step, cmd.lastStep, cmd.lastChk) THEN Leave(c, "desync")
           ELSE /\ Executes(c, [m EXCEPT !.world = Append(@, Done(m.step, cmd.tool))])
                /\ UNCHANGED <<toServer, lost>>

\* nwc_sync_t::do_command on a client: save, load (which empties the command
\* queue), pause, enter the new world and tell the server.
CliExecuteSync(c) ==
    /\ CliExecute(c, "sync")
    /\ LET m == client[c]
           cmd == Head(m.queue)
           dropped == {i \in 2 .. Len(m.queue) : m.queue[i].map = cmd.newMap
                                                 /\ ~IgnoreOldEvents(m.queue[i])}
       IN  IF Past(c) THEN Leave(c, "late")
           ELSE IF AnotherWorld(c) THEN Executes(c, m) /\ UNCHANGED <<toServer, lost>>
           ELSE /\ CliBecomes(c, [m EXCEPT !.world = Append(@, Done(m.step, Reload)),
                                           !.queue = <<>>, !.paused = TRUE,
                                           !.barrier = m.step, !.map = cmd.newMap])
                /\ toServer' = [toServer EXCEPT ![c] =
                        Append(@, ReadyPacket(m.step, cmd.newMap, LCHKLST(m.chk, m.step)))]
                /\ lost' = IF dropped = {} THEN lost ELSE lost \cup {c}
                /\ UNCHANGED toClient

\* A frame of karte_t::interactive, behind the barrier.
CliFrame_AtBarrier(c) ==
    LET m == client[c]
    IN  /\ InGame(c) /\ ~m.paused /\ m.step <= m.barrier /\ ~Due(m.queue, m.step)
        /\ CliBecomes(c, [m EXCEPT !.step = @ + 1, !.chk = SetChecklist(@, m.step + 1, m.world)])
        /\ UNCHANGED <<toClient, toServer, lost>>

CliFrame(c) ==
    LET m == client[c]
    IN  /\ InGame(c) /\ ~m.paused /\ m.step < m.barrier /\ ~Due(m.queue, m.step)
        /\ CliBecomes(c, [m EXCEPT !.step = @ + 1, !.chk = SetChecklist(@, m.step + 1, m.world)])
        /\ UNCHANGED <<toClient, toServer, lost>>

\* karte_t::call_work: the tool goes to the server, with the client's checklist.
CliTool(c, t) ==
    LET m == client[c]
    IN  /\ InGame(c) /\ t \notin issued
        /\ issued' = issued \cup {t}
        /\ toServer' = [toServer EXCEPT ![c] =
               Append(@, ToolPacket(m.step, m.map, t, m.step, LCHKLST(m.chk, m.step)))]
        /\ UNCHANGED <<serverVars, sendq, toClient, client, tries, glitches, lost, why>>

\* The player quits, or network_connect gives up waiting.
CliQuit(c) ==
    /\ client[c].state # "offline" /\ tries < MaxTries
    /\ tries' = tries + 1
    /\ LeaveNow(c, "ok")
    /\ UNCHANGED <<serverVars, sendq, issued, glitches, lost>>

\* The simulation of c is not the server's any more.
Diverge(c) ==
    /\ InGame(c) /\ ~client[c].paused /\ c \notin glitches /\ Cardinality(glitches) < MaxGlitches
    /\ glitches' = glitches \cup {c}
    /\ client' = [client EXCEPT ![c].world = Append(@, Done(client[c].step, Glitch))]
    /\ UNCHANGED <<serverVars, wireVars, issued, tries, lost, why>>

-----------------------------------------------------------------------------
SrvReceive(c) == \/ SrvReceiveJoin(c) \/ SrvReceiveTool(c)
                 \/ SrvReceiveReady(c) \/ SrvReceiveEOF(c)

SrvStep == SrvFlush \/ SrvExecuteTool \/ SrvExecuteSync \/ SrvFrame \/ SrvIdle

CliReceive(c) == \/ CliJoin(c) \/ CliSync(c) \/ CliGame(c) \/ CliDiscard(c)
                 \/ CliStep(c) \/ CliCommand(c) \/ CliReady(c) \/ CliEOF(c)

CliRun(c) == CliExecuteCheck(c) \/ CliExecuteTool(c) \/ CliExecuteSync(c) \/ CliFrame(c)

Next == \/ SrvStep \/ SrvForceSync
        \/ \E t \in Tool : SrvTool(t)
        \/ \E c \in Client : \/ SrvReceive(c) \/ Connect(c) \/ CliReceive(c) \/ CliRun(c)
                             \/ CliQuit(c) \/ Diverge(c)
                             \/ \E t \in Tool : CliTool(c, t)

Spec == Init /\ [][Next]_vars

\* The server's main loop never stops; its clock makes every frame due and every
\* pass reads one packet of each ready socket, although other passes do
\* without; the operating system delivers; the clients' main loops never stop.
Fairness ==
    /\ WF_vars(SrvFlush) /\ WF_vars(SrvExecuteTool) /\ WF_vars(SrvExecuteSync)
    /\ WF_vars(SrvIdle) /\ SF_vars(SrvFrame)
    /\ \A c \in Client : SF_vars(SrvReceive(c)) /\ WF_vars(CliReceive(c)) /\ WF_vars(CliRun(c))

FairSpec == Spec /\ Fairness

-----------------------------------------------------------------------------
(* Properties. *)

TypeOK ==
    /\ sStep \in Nat /\ sMap \in Nat /\ sQueue \in Seq(WorldCmd) /\ sWorld \in World
    /\ sChk \in [0 .. ChecklistCount - 1 -> World]
    /\ sPaused \in BOOLEAN /\ loop \in {"receive", "execute"}
    /\ allMaps \in Seq(Nat) /\ nextMap \in Nat
    /\ pending \in Client \cup {NoClient}
    /\ slot \in [Client -> {"inactive", "connected", "playing"}]
    /\ sendq \in [Client -> Seq(ServerPacket)]
    /\ toClient \in [Client -> Seq(ServerPacket)]
    /\ toServer \in [Client -> Seq(ClientPacket)]
    /\ client \in [Client -> Machine]
    /\ issued \subseteq Tool /\ tries \in Nat
    /\ glitches \subseteq Client /\ lost \subseteq Client
    /\ why \in [Client -> Ending]

\* No machine is asked to execute a command in the past, the reason for which
\* network_world_command_t::execute and do_network_world_command end a game:
\* stamps of the next step, the barrier and first-in first-out wires suffice.
NeverLate ==
    /\ \A c \in Client : why[c] # "late"
    /\ \A i \in DOMAIN sQueue : sQueue[i].step >= sStep

\* No client runs ahead of the server (the barrier of NWC_STEP and NWC_CHECK),
\* so process_network_commands never drops a tool as "client was too fast".
ClientBehindServer ==
    \A c \in Client : /\ client[c].step <= client[c].barrier
                      /\ client[c].barrier <= sStep

\* A client whose simulation did not diverge, and that lost no command, has
\* done to its world exactly what the server did to its own, at the same steps:
\* they differ at most by what one of them has still to do.
SameWorld ==
    \A c \in Client : InGame(c) /\ IsClean(c) =>
        LET w == client[c].world
            Agree(n) == \A i \in 1 .. n : w[i] = sWorld[i]
        IN  IF Len(w) <= Len(sWorld)
            THEN /\ Agree(Len(w))
                 /\ \A i \in Len(w) + 1 .. Len(sWorld) : sWorld[i].step >= client[c].step
            ELSE /\ Agree(Len(sWorld))
                 /\ \A i \in Len(sWorld) + 1 .. Len(w) : w[i].step = sStep

\* The checklists of NWC_CHECK, NWC_READY and nwc_tool_t accuse nobody falsely:
\* only a client that diverged or lost a command is disconnected for them.
NoFalseDesync ==
    \A c \in Client : why[c] \in {"desync", "kicked"} => ~IsClean(c)

\* A faithful client is disconnected for its map counter only because that is
\* older than all those that nwc_ready_t remembers, when it remembers as many as
\* it can: its NWC_READY never comes before the server's own NWC_SYNC.
ForgottenIsOld ==
    [][\A c \in Client : IsClean(c) /\ why[c] # "forgotten" /\ why'[c] = "forgotten" =>
          /\ Len(allMaps) = MaxMapCounters
          /\ \A i \in DOMAIN allMaps : Head(toServer[c]).map < allMaps[i]]_vars

\* The server is paused for lack of clients only while nobody plays or joins.
PausedOnlyWhenEmpty == sPaused => GetPlayingClients = {} /\ pending = NoClient

\* A client that NWC_SYNC paused is resumed by the echo of its NWC_READY (or
\* leaves): the handshake has no deadlock, whatever the server is doing.
PausedResumes ==
    \A c \in Client : (InGame(c) /\ client[c].paused) ~> ~(InGame(c) /\ client[c].paused)

\* A join ends: pending_join_client, which refuses all other joins meanwhile,
\* is released, even if the game was paused for lack of clients.
JoinEnds == \A c \in Client : pending = c ~> pending # c

\* network_world_command_t::execute keeps commands "from another world" because
\* "we are behind and still have to execute the next sync command": none of
\* them is lost before do_network_world_command can check its map counter.
NoWorldCommandLost == lost = {}

\* pending_join_client: "this clients is in the process of joining".  A client
\* that was told to join, and to which the server has not sent a game yet, is it.
JoiningIsPending ==
    \A c \in Client :
        /\ client[c].state \in {"waitSync", "waitGame"} /\ slot[c] = "connected"
        /\ \A i \in DOMAIN toClient[c] : toClient[c][i].kind # "eof"
        => pending = c

=============================================================================
