--------------------------- MODULE SameWorldProofs ---------------------------
(***************************************************************************)
(* That a client of a network game has done to its world what the server   *)
(* did to its own, at the same steps, and that no checklist accuses it     *)
(* falsely: for every number of clients, tools, steps, syncs and           *)
(* checklists, as long as its simulation does not diverge by itself and it  *)
(* loses no command.                                                       *)
(*                                                                         *)
(* The argument: there is one log of commands (CommandLog).  The server's   *)
(* world is that of a prefix of it, its queue leads along the rest.  The    *)
(* world of a client in a game is that of a prefix, too, and its own queue, *)
(* the wire and the server's send queue together lead along the rest.  An   *)
(* open connection hears of every step; of one that the server has closed   *)
(* only the steps up to its closing are near, and a client goes no further, *)
(* because it never passes its barrier.                                    *)
(*                                                                         *)
(* The log also tells that every step of the game is one of a replicated   *)
(* world, and that a client whose NWC_READY is refused because the server  *)
(* has forgotten its map counter is one for which there was no room.       *)
(***************************************************************************)
EXTENDS CommandLog, LockstepRefinement

-----------------------------------------------------------------------------
(* One connection: tc and sq are on their way to the client m, ts comes from *)
(* it; N are the steps that are near to it, S is the step of the server.    *)

\* A client that loaded the game and has not heard its NWC_READY.
Loading(m) == m.paused /\ m.queue = <<>> /\ m.step = 0 /\ m.chk = NoChecklists

\* At most one NWC_READY is under way, to or from a client that is paused for it,
\* with its step, its map counter and the checklist of that step.
Handshake(L, m, tc, ts) ==
    /\ \A i \in DOMAIN tc : tc[i].kind = "ready" =>
          /\ m.paused /\ tc[i].step = m.step /\ tc[i].map = m.map /\ Chk(L, tc[i].step, tc[i].chk)
          /\ \A j \in DOMAIN tc : tc[j].kind = "ready" => j = i
          /\ \A j \in DOMAIN ts : ts[j].kind # "ready"
    /\ \A i \in DOMAIN ts : ts[i].kind = "ready" =>
          /\ m.paused /\ ts[i].step = m.step /\ ts[i].map = m.map
          /\ \A j \in DOMAIN ts : ts[j].kind = "ready" => j = i

\* The client leads along the log.
Plays(L, N, S, m, tc, sq, ts) ==
    \/ /\ Loading(m) /\ Fresh(L, N, S, m.world, tc \o sq)
       /\ \A j \in DOMAIN ts : ts[j].kind # "ready"
    \/ /\ Settled(L, N, S, m, (m.queue \o tc) \o sq)
       /\ Handshake(L, m, tc, ts)

\* The client will load the game at the position g of the wire, unless something
\* makes it give up before.
Expects(m, tc, g) ==
    /\ tc[g].kind = "game"
    /\ \/ m.state \in {"waitSync", "waitGame"}
       \/ m.state = "waitJoin" /\ \E j \in DOMAIN tc : j < g /\ tc[j].kind = "join"

\* What comes behind the position g of the wire.
After(q, g) == [i \in 1 .. Len(q) - g |-> q[g + i]]

Games(L, N, S, m, tc, sq) ==
    \A g \in DOMAIN tc : Expects(m, tc, g) => Fresh(L, N, S, tc[g].world, After(tc, g) \o sq)

\* One NWC_JOIN goes to the server and one comes back.
JoinInv(m, tc, ts) ==
    /\ m.state \in {"waitSync", "waitGame", "ingame"} =>
          /\ \A i \in DOMAIN tc : tc[i].kind # "join"
          /\ \A i \in DOMAIN ts : ts[i].kind # "join"
    /\ m.state \in {"waitSync", "waitGame"} => ts = <<>>
    /\ m.state = "waitJoin" =>
          \/ ts = <<>> /\ \A i, j \in DOMAIN tc : tc[i].kind = "join" /\ tc[j].kind = "join" => i = j
          \/ ts = <<[kind |-> "join"]>> /\ \A i \in DOMAIN tc : tc[i].kind # "join"

\* The checklists that the client tells the server are right.
Says(L, S, ts) ==
    \A i \in DOMAIN ts :
       /\ ts[i].kind = "tool" => ts[i].lastStep <= S /\ Chk(L, ts[i].lastStep, ts[i].lastChk)
       /\ ts[i].kind = "ready" => ts[i].step <= S /\ Chk(L, ts[i].step, ts[i].chk)

-----------------------------------------------------------------------------
(* Rings and sequences. *)

\* What a remainder is.
LEMMA ModFacts ==
    ASSUME NEW C \in Nat, C > 0, NEW s \in Nat
    PROVE  \E q \in Nat, r \in 0 .. C - 1 : s = C * q + r /\ s % C = r
  OBVIOUS

\* Different multiples are at least one apart.
LEMMA MultipleGap ==
    ASSUME NEW C \in Nat, C > 0, NEW a \in Nat, NEW b \in Nat, C * a < C * b
    PROVE  C * b >= C * a + C
<1>1. a < b
  OBVIOUS
<1>2. b >= a + 1
  BY <1>1
<1>3. PICK d \in Nat : b = a + 1 + d
  BY <1>2
<1>4. C * d \in Nat
  OBVIOUS
<1>5. QED
  BY <1>3, <1>4

\* Steps that are less than a ring apart have different places in it.
LEMMA ModDiffers ==
    ASSUME NEW C \in Nat, C > 0, NEW s \in Nat, NEW t \in Nat, s < t, t < s + C
    PROVE  s % C # t % C
<1> SUFFICES ASSUME s % C = t % C PROVE FALSE
  OBVIOUS
<1>1. PICK a \in Nat, i \in 0 .. C - 1 : s = C * a + i /\ s % C = i
  BY ModFacts
<1>2. PICK b \in Nat, j \in 0 .. C - 1 : t = C * b + j /\ t % C = j
  BY ModFacts
<1>3. C * a \in Int /\ C * b \in Int
  OBVIOUS
<1>4. i = j
  BY <1>1, <1>2
<1>5. C * a < C * b
  BY <1>1, <1>2, <1>3, <1>4
<1>6. C * b >= C * a + C
  BY <1>5, MultipleGap
<1>7. QED
  BY <1>1, <1>2, <1>3, <1>4, <1>6

\* A checklist is taken: it is in the ring, and so are those of the steps before,
\* less than the length of the ring away.
LEMMA RingSet ==
    ASSUME NEW ring \in [0 .. ChecklistCount - 1 -> World], NEW s \in Nat, NEW w
    PROVE  /\ LCHKLST(SetChecklist(ring, s, w), s) = w
           /\ \A t \in Nat : t < s /\ s < t + ChecklistCount =>
                 LCHKLST(SetChecklist(ring, s, w), t) = LCHKLST(ring, t)
<1>1. /\ ChecklistCount \in Nat /\ ChecklistCount > 0
      /\ \A t \in Nat : t % ChecklistCount \in 0 .. ChecklistCount - 1
  BY BoundsAssumption
<1>2. LCHKLST(SetChecklist(ring, s, w), s) = w
  BY <1>1 DEF LCHKLST, SetChecklist
<1>3. ASSUME NEW t \in Nat, t < s, s < t + ChecklistCount
      PROVE  LCHKLST(SetChecklist(ring, s, w), t) = LCHKLST(ring, t)
  <2>1. t % ChecklistCount # s % ChecklistCount
    BY <1>1, <1>3, ModDiffers
  <2>2. QED
    BY <1>1, <2>1 DEF LCHKLST, SetChecklist
<1>4. QED
  BY <1>2, <1>3

\* What comes behind a position of the wire.
LEMMA AfterFacts ==
    ASSUME NEW tc \in Seq(ServerPacket), NEW g \in DOMAIN tc
    PROVE  /\ g \in Nat /\ After(tc, g) \in Seq(ServerPacket) /\ Len(After(tc, g)) = Len(tc) - g
           /\ \A i \in DOMAIN After(tc, g) : g + i \in DOMAIN tc /\ After(tc, g)[i] = tc[g + i]
<1>1. g \in Nat /\ Len(tc) \in Nat /\ g >= 1 /\ g <= Len(tc) /\ DOMAIN tc = 1 .. Len(tc)
  OBVIOUS
<1>2. Len(tc) - g \in Nat
  BY <1>1
<1>3. \A i \in 1 .. Len(tc) - g : g + i \in DOMAIN tc /\ After(tc, g)[i] = tc[g + i]
  BY <1>1 DEF After
<1>4. \A i \in 1 .. Len(tc) - g : After(tc, g)[i] \in ServerPacket
  BY <1>3
<1>5. After(tc, g) \in Seq(ServerPacket) /\ Len(After(tc, g)) = Len(tc) - g
  BY <1>2, <1>4 DEF After
<1>6. QED
  BY <1>1, <1>3, <1>5

\* Packets are added at the end of the wire, or taken from its front.
LEMMA AfterLaws ==
    ASSUME NEW tc \in Seq(ServerPacket), NEW g \in DOMAIN tc, NEW s \in Seq(ServerPacket)
    PROVE  /\ g \in DOMAIN (tc \o s) /\ (tc \o s)[g] = tc[g] /\ After(tc \o s, g) = After(tc, g) \o s
           /\ g = 1 => After(tc, g) = Tail(tc)
           /\ \A h \in Nat : h > 0 /\ g = h + 1 =>
                 h \in DOMAIN Tail(tc) /\ Tail(tc)[h] = tc[g] /\ After(Tail(tc), h) = After(tc, g)
<1>1. /\ g \in Nat /\ Len(tc) \in Nat /\ g >= 1 /\ g <= Len(tc) /\ DOMAIN tc = 1 .. Len(tc)
      /\ Len(s) \in Nat
  OBVIOUS
<1>2. /\ tc \o s \in Seq(ServerPacket) /\ Len(tc \o s) = Len(tc) + Len(s)
      /\ \A i \in 1 .. Len(tc) + Len(s) : (tc \o s)[i] = IF i <= Len(tc) THEN tc[i] ELSE s[i - Len(tc)]
  OBVIOUS
<1>3. g \in DOMAIN (tc \o s) /\ (tc \o s)[g] = tc[g]
  BY <1>1, <1>2
<1>4. After(tc \o s, g) = After(tc, g) \o s
  <2>1. /\ After(tc, g) \in Seq(ServerPacket) /\ Len(After(tc, g)) = Len(tc) - g
        /\ \A i \in DOMAIN After(tc, g) : g + i \in DOMAIN tc /\ After(tc, g)[i] = tc[g + i]
    BY AfterFacts
  <2> DEFINE v == tc \o s
  <2>a. v \in Seq(ServerPacket) /\ g \in DOMAIN v /\ Len(v) = Len(tc) + Len(s)
    BY <1>2, <1>3
  <2> HIDE DEF v
  <2>b. /\ After(v, g) \in Seq(ServerPacket) /\ Len(After(v, g)) = Len(v) - g
        /\ \A i \in DOMAIN After(v, g) : After(v, g)[i] = v[g + i]
    BY <2>a, AfterFacts, Zenon
  <2>2. /\ After(tc \o s, g) \in Seq(ServerPacket) /\ Len(After(tc \o s, g)) = Len(tc) + Len(s) - g
        /\ \A i \in DOMAIN After(tc \o s, g) : After(tc \o s, g)[i] = (tc \o s)[g + i]
    BY <2>a, <2>b DEF v
  <2> DEFINE w == After(tc, g)
             u == After(tc, g) \o s
  <2>c. w \in Seq(ServerPacket) /\ Len(w) = Len(tc) - g /\ u = w \o s
    BY <2>1
  <2> HIDE DEF w, u
  <2>d. /\ u \in Seq(ServerPacket) /\ Len(u) = Len(w) + Len(s)
        /\ \A i \in 1 .. Len(w) + Len(s) : u[i] = IF i <= Len(w) THEN w[i] ELSE s[i - Len(w)]
    BY <2>c
  <2>3. /\ u \in Seq(ServerPacket) /\ Len(u) = Len(tc) - g + Len(s)
        /\ \A i \in 1 .. Len(tc) - g + Len(s) :
              u[i] = IF i <= Len(tc) - g THEN After(tc, g)[i] ELSE s[i - (Len(tc) - g)]
    BY <2>c, <2>d DEF w
  <2>4. ASSUME NEW i \in 1 .. Len(tc) - g + Len(s) PROVE After(tc \o s, g)[i] = u[i]
    <3>a. DOMAIN After(tc \o s, g) = 1 .. Len(tc) + Len(s) - g
      BY <2>2
    <3>b. i \in Nat /\ i >= 1 /\ i <= Len(tc) - g + Len(s) /\ i <= Len(tc) + Len(s) - g
      BY <1>1
    <3>c. i \in DOMAIN After(tc \o s, g)
      BY <1>1, <3>a, <3>b
    <3>d. g + i \in 1 .. Len(tc) + Len(s)
      BY <1>1, <3>b
    <3>1. /\ i \in Nat /\ i \in DOMAIN After(tc \o s, g) /\ g + i \in 1 .. Len(tc) + Len(s)
          /\ After(tc \o s, g)[i] = (tc \o s)[g + i]
      BY <2>2, <3>b, <3>c, <3>d
    <3>2. CASE i <= Len(tc) - g
      <4>1. g + i <= Len(tc)
        BY <1>1, <3>1, <3>2
      <4>2. i \in DOMAIN After(tc, g)
        <5>1. DOMAIN After(tc, g) = 1 .. Len(tc) - g
          BY <2>1
        <5>2. QED
          BY <1>1, <3>b, <3>2, <5>1
      <4>3. (tc \o s)[g + i] = tc[g + i]
        BY <1>2, <3>1, <4>1
      <4>4. u[i] = After(tc, g)[i]
        BY <2>3, <3>2
      <4>5. QED
        BY <2>1, <3>1, <4>2, <4>3, <4>4
    <3>3. CASE ~(i <= Len(tc) - g)
      <4>1. ~(g + i <= Len(tc)) /\ g + i - Len(tc) = i - (Len(tc) - g)
        BY <1>1, <3>1, <3>3
      <4>2. QED
        BY <1>2, <2>3, <3>1, <3>3, <4>1
    <3>4. QED
      BY <3>2, <3>3
  <2>5. Len(After(tc \o s, g)) = Len(u)
    BY <1>1, <2>2, <2>3
  <2>6. After(tc \o s, g) = u
    BY <1>1, <2>2, <2>3, <2>4, <2>5, SeqEqual
  <2>7. QED
    BY <2>6 DEF u
<1>5. /\ Tail(tc) \in Seq(ServerPacket) /\ Len(Tail(tc)) = Len(tc) - 1
      /\ \A i \in 1 .. Len(tc) - 1 : Tail(tc)[i] = tc[i + 1]
  BY <1>1
<1>6. ASSUME g = 1 PROVE After(tc, g) = Tail(tc)
  <2>a. /\ After(tc, g) \in Seq(ServerPacket) /\ Len(After(tc, g)) = Len(tc) - g
        /\ \A i \in DOMAIN After(tc, g) : After(tc, g)[i] = tc[g + i]
    BY AfterFacts
  <2>1. Len(After(tc, g)) = Len(Tail(tc)) /\ DOMAIN After(tc, g) = 1 .. Len(tc) - 1
    <3>1. Len(tc) - g = Len(tc) - 1
      BY <1>6
    <3>2. Len(After(tc, g)) = Len(tc) - 1
      BY <2>a, <3>1, Zenon
    <3>3. Len(After(tc, g)) = Len(Tail(tc))
      BY <1>5, <3>2, Zenon
    <3>4. QED
      BY <2>a, <3>2, <3>3
  <2>2. ASSUME NEW i \in 1 .. Len(tc) - 1 PROVE After(tc, g)[i] = Tail(tc)[i]
    <3>1. g + i = i + 1
      BY <1>6
    <3>2. QED
      BY <1>5, <2>a, <2>1, <3>1
  <2>3. QED
    BY <1>5, <2>a, <2>1, <2>2, SeqEqual
<1>7. ASSUME NEW h \in Nat, h > 0, g = h + 1
      PROVE  h \in DOMAIN Tail(tc) /\ Tail(tc)[h] = tc[g] /\ After(Tail(tc), h) = After(tc, g)
  <2>1. h \in 1 .. Len(tc) - 1 /\ Len(tc) - 1 - h = Len(tc) - g
    BY <1>1, <1>7
  <2>2. h \in DOMAIN Tail(tc) /\ Tail(tc)[h] = tc[g]
    BY <1>5, <1>7, <2>1
  <2>3. ASSUME NEW i \in 1 .. Len(tc) - g PROVE Tail(tc)[h + i] = tc[g + i]
    <3>1. h + i \in 1 .. Len(tc) - 1 /\ h + i + 1 = g + i
      BY <1>1, <1>7
    <3>2. QED
      BY <1>5, <3>1
  <2> DEFINE t == Tail(tc)
  <2>a. t \in Seq(ServerPacket) /\ h \in DOMAIN t /\ Len(t) = Len(tc) - 1
    BY <1>5, <2>2
  <2> HIDE DEF t
  <2>b. /\ After(t, h) \in Seq(ServerPacket) /\ Len(After(t, h)) = Len(t) - h
        /\ \A i \in DOMAIN After(t, h) : After(t, h)[i] = t[h + i]
    BY <2>a, AfterFacts, Zenon
  <2>c. /\ After(tc, g) \in Seq(ServerPacket) /\ Len(After(tc, g)) = Len(tc) - g
        /\ \A i \in DOMAIN After(tc, g) : After(tc, g)[i] = tc[g + i]
    BY AfterFacts
  <2>4. /\ After(Tail(tc), h) \in Seq(ServerPacket) /\ After(tc, g) \in Seq(ServerPacket)
        /\ Len(After(Tail(tc), h)) = Len(tc) - 1 - h /\ Len(After(tc, g)) = Len(tc) - g
        /\ \A i \in DOMAIN After(Tail(tc), h) : After(Tail(tc), h)[i] = Tail(tc)[h + i]
        /\ \A i \in DOMAIN After(tc, g) : After(tc, g)[i] = tc[g + i]
    BY <2>a, <2>b, <2>c DEF t
  <2>5. After(Tail(tc), h) = After(tc, g)
    <3>1. \A i \in 1 .. Len(tc) - g : After(Tail(tc), h)[i] = After(tc, g)[i]
      <4>1. DOMAIN After(Tail(tc), h) = 1 .. Len(tc) - g /\ DOMAIN After(tc, g) = 1 .. Len(tc) - g
        BY <2>1, <2>4
      <4>2. QED
        BY <2>3, <2>4, <4>1
    <3>2. QED
      BY <2>1, <2>4, <3>1, SeqEqual
  <2>6. QED
    BY <2>2, <2>5
<1>8. QED
  BY <1>3, <1>4, <1>6, <1>7

-----------------------------------------------------------------------------
(* A connection while the server goes on. *)

\* The types of what is under way.
LEMMA LinkTypes ==
    ASSUME NEW tc \in Seq(ServerPacket), NEW sq \in Seq(ServerPacket), NEW m \in Machine
    PROVE  /\ m.queue \in Seq(WorldCmd) /\ m.queue \in Seq(ServerPacket) /\ m.step \in Nat /\ m.map \in Nat
           /\ m.world \in World /\ m.paused \in BOOLEAN
           /\ m.chk \in [0 .. ChecklistCount - 1 -> World] /\ m.barrier \in Nat
           /\ m.queue \o tc \in Seq(ServerPacket) /\ (m.queue \o tc) \o sq \in Seq(ServerPacket)
           /\ tc \o sq \in Seq(ServerPacket)
           /\ \A g \in DOMAIN tc : /\ After(tc, g) \in Seq(ServerPacket)
                                   /\ After(tc, g) \o sq \in Seq(ServerPacket)
                                   /\ tc[g] \in ServerPacket
<1>1. /\ m.queue \in Seq(WorldCmd) /\ m.step \in Nat /\ m.map \in Nat /\ m.barrier \in Nat
      /\ m.world \in World /\ m.paused \in BOOLEAN
      /\ m.chk \in [0 .. ChecklistCount - 1 -> World]
  BY DEF Machine
<1>2. m.queue \in Seq(ServerPacket)
  <2>1. WorldCmd \subseteq ServerPacket
    BY DEF ServerPacket
  <2>2. QED
    BY <1>1, <2>1
<1>3. m.queue \o tc \in Seq(ServerPacket) /\ tc \o sq \in Seq(ServerPacket)
  BY <1>2, ConcatFacts
<1>4. (m.queue \o tc) \o sq \in Seq(ServerPacket)
  BY <1>3, ConcatFacts
<1>5. \A g \in DOMAIN tc : After(tc, g) \in Seq(ServerPacket) /\ tc[g] \in ServerPacket
  BY AfterFacts
<1>6. \A g \in DOMAIN tc : After(tc, g) \o sq \in Seq(ServerPacket)
  BY <1>5, ConcatFacts
<1>7. QED
  BY <1>1, <1>2, <1>3, <1>4, <1>5, <1>6

\* The NWC_READY that a game is followed by is on the wire.
LEMMA FreshHead ==
    ASSUME NEW L, NEW N, NEW S, NEW w, NEW a \in Seq(ServerPacket), NEW b \in Seq(ServerPacket),
           Fresh(L, N, S, w, a \o b), \A i \in DOMAIN b : b[i].kind # "ready"
    PROVE  /\ a # <<>> /\ 1 \in DOMAIN a /\ (a \o b)[1] = a[1] /\ a[1].kind = "ready"
           /\ \A i \in DOMAIN a : i # 1 => a[i].kind # "ready"
<1> DEFINE P == a \o b
<1>1. /\ P \in Seq(ServerPacket) /\ Len(a) \in Nat
      /\ \A i \in DOMAIN a : i \in DOMAIN P /\ P[i] = a[i]
      /\ \A i \in DOMAIN P : i \notin DOMAIN a => i - Len(a) \in DOMAIN b /\ P[i] = b[i - Len(a)]
  BY ConcatFacts
<1>2. P # <<>> /\ P[1].kind = "ready" /\ \A i \in DOMAIN P : i # 1 => P[i].kind # "ready"
  BY DEF Fresh
<1> HIDE DEF P
<1>3. 1 \in DOMAIN P
  BY <1>1, <1>2
<1>4. 1 \in DOMAIN a
  BY <1>1, <1>2, <1>3
<1>5. a # <<>> /\ P[1] = a[1]
  BY <1>1, <1>4
<1>6. QED
  BY <1>1, <1>2, <1>4, <1>5 DEF P

\* What a client told stays right.
LEMMA SaysKept ==
    ASSUME NEW L \in Seq(LogCmd), NEW M \in Seq(LogCmd), NEW k, NEW z \in Nat, Revises(M, L, k, z),
           NEW S \in Nat, NEW T \in Nat, S <= z, S <= T, NEW ts \in Seq(ClientPacket), Says(L, S, ts)
    PROVE  Says(M, T, ts)
<1>1. ASSUME NEW s \in Nat, s <= S, NEW w, Chk(L, s, w) PROVE Chk(M, s, w)
  <2>1. s <= z
    BY <1>1
  <2>2. QED
    BY <1>1, <2>1, ChkKept
<1>2. ASSUME NEW i \in DOMAIN ts, ts[i].kind = "tool"
      PROVE  ts[i].lastStep <= T /\ Chk(M, ts[i].lastStep, ts[i].lastChk)
  <2>1. ts[i].lastStep \in Nat /\ ts[i].lastStep <= S /\ Chk(L, ts[i].lastStep, ts[i].lastChk)
    <3>1. ts[i] \in ToolCmd
      BY <1>2, KindFacts
    <3>2. ts[i].lastStep \in Nat
      BY <3>1 DEF ToolCmd
    <3>3. QED
      BY <1>2, <3>2 DEF Says
  <2>2. QED
    BY <1>1, <2>1
<1>3. ASSUME NEW i \in DOMAIN ts, ts[i].kind = "ready"
      PROVE  ts[i].step <= T /\ Chk(M, ts[i].step, ts[i].chk)
  <2>1. ts[i].step \in Nat /\ ts[i].step <= S /\ Chk(L, ts[i].step, ts[i].chk)
    BY <1>3, ClockFacts DEF Says
  <2>2. QED
    BY <1>1, <2>1
<1>4. QED
  BY <1>2, <1>3 DEF Says

\* What happens is far from the client.
LEMMA LinkFar ==
    ASSUME NEW L \in Seq(LogCmd), NEW M \in Seq(LogCmd), NEW k, NEW z \in Nat, Revises(M, L, k, z),
           NEW N, N \subseteq Nat, \A r \in N : r < z, NEW S \in Nat, NEW T \in Nat, S <= z, S <= T,
           NEW tc \in Seq(ServerPacket), NEW sq \in Seq(ServerPacket), NEW ts \in Seq(ClientPacket),
           NEW m \in Machine, m.step \in N, \A i \in DOMAIN tc : Clock(tc[i]) \in N,
           \A i \in DOMAIN sq : sq[i].kind # "ready"
    PROVE  /\ Plays(L, N, S, m, tc, sq, ts) => Plays(M, N, T, m, tc, sq, ts)
           /\ Games(L, N, S, m, tc, sq) => Games(M, N, T, m, tc, sq)
<1>1. ASSUME NEW a \in Seq(ServerPacket), \A i \in DOMAIN a : Clock(a[i]) \in N, NEW w,
             Fresh(L, N, S, w, a \o sq)
      PROVE  Fresh(M, N, T, w, a \o sq)
  <2>1. 1 \in DOMAIN a /\ (a \o sq)[1] = a[1] /\ a[1].kind = "ready"
    BY <1>1, FreshHead
  <2>2. (a \o sq)[1].step \in N /\ a \o sq \in Seq(ServerPacket)
    BY <1>1, <2>1, ConcatFacts DEF Clock
  <2>3. QED
    BY <1>1, <2>2, FreshFar
<1>2. ASSUME NEW s \in Nat, s <= S \/ s \in N, NEW w, Chk(L, s, w) PROVE Chk(M, s, w)
  <2>1. s <= z
    BY <1>2
  <2>2. QED
    BY <1>2, <2>1, ChkKept
<1>3. ASSUME Plays(L, N, S, m, tc, sq, ts) PROVE Plays(M, N, T, m, tc, sq, ts)
  <2>1. CASE Loading(m) /\ Fresh(L, N, S, m.world, tc \o sq)
             /\ \A j \in DOMAIN ts : ts[j].kind # "ready"
    BY <1>1, <2>1 DEF Plays
  <2>2. CASE Settled(L, N, S, m, (m.queue \o tc) \o sq) /\ Handshake(L, m, tc, ts)
    <3>1. Settled(M, N, T, m, (m.queue \o tc) \o sq)
      <4>1. (m.queue \o tc) \o sq \in Seq(ServerPacket)
        BY LinkTypes
      <4> DEFINE P == (m.queue \o tc) \o sq
      <4> HIDE DEF P
      <4>2. P \in Seq(ServerPacket) /\ Settled(L, N, S, m, P)
        BY <2>2, <4>1 DEF P
      <4>3. Settled(M, N, T, m, P)
        BY <4>2, SettledFar
      <4>4. QED
        BY <4>3 DEF P
    <3>2. Handshake(M, m, tc, ts)
      BY <1>2, <2>2, LinkTypes DEF Handshake
    <3>3. QED
      BY <3>1, <3>2 DEF Plays
  <2>3. QED
    BY <1>3, <2>1, <2>2 DEF Plays
<1>4. ASSUME Games(L, N, S, m, tc, sq) PROVE Games(M, N, T, m, tc, sq)
  <2>1. ASSUME NEW g \in DOMAIN tc, Expects(m, tc, g)
        PROVE  Fresh(M, N, T, tc[g].world, After(tc, g) \o sq)
    <3>1. Fresh(L, N, S, tc[g].world, After(tc, g) \o sq)
      BY <1>4, <2>1 DEF Games
    <3>2. After(tc, g) \in Seq(ServerPacket) /\ \A i \in DOMAIN After(tc, g) : Clock(After(tc, g)[i]) \in N
      BY AfterFacts
    <3>3. QED
      BY <1>1, <3>1, <3>2
  <2>2. QED
    BY <2>1 DEF Games
<1>5. QED
  BY <1>3, <1>4

\* The server sends a command to the client.
LEMMA LinkSend ==
    ASSUME NEW L \in Seq(LogCmd), LogOK(L), NEW M, NEW S \in Nat, NEW x \in LogCmd,
           Sent(M, L, x), x.step = S + 1, PacketOK(L, x, S),
           NEW tc \in Seq(ServerPacket), NEW sq \in Seq(ServerPacket), NEW ts \in Seq(ClientPacket),
           NEW m \in Machine, m.step <= S
    PROVE  /\ Plays(L, Nat, S, m, tc, sq, ts) => Plays(M, Nat, S, m, tc, Append(sq, x), ts)
           /\ Games(L, Nat, S, m, tc, sq) => Games(M, Nat, S, m, tc, Append(sq, x))
<1>1. M \in Seq(LogCmd) /\ Revises(M, L, Len(L), S + 1)
  BY SentFacts
<1>2. x \in ServerPacket
  BY DEF LogCmd, ServerPacket, WorldCmd
<1>3. ASSUME NEW s \in Nat, s <= S, NEW w, Chk(L, s, w) PROVE Chk(M, s, w)
  <2>1. S + 1 \in Nat /\ s <= S + 1
    BY <1>3
  <2>2. QED
    BY <1>1, <1>3, <2>1, ChkKept
<1>4. ASSUME NEW a \in Seq(ServerPacket), NEW w, Fresh(L, Nat, S, w, a \o sq)
      PROVE  Fresh(M, Nat, S, w, a \o Append(sq, x))
  <2> DEFINE P == a \o sq
  <2>1. P \in Seq(ServerPacket) /\ a \o Append(sq, x) = Append(P, x)
    BY <1>2, ConcatFacts, ConcatLaws
  <2>2. Fresh(L, Nat, S, w, P)
    BY <1>4
  <2> HIDE DEF P
  <2>3. Fresh(M, Nat, S, w, Append(P, x))
    BY <2>1, <2>2, FreshSend
  <2>4. QED
    BY <2>1, <2>3
<1>5. ASSUME Plays(L, Nat, S, m, tc, sq, ts) PROVE Plays(M, Nat, S, m, tc, Append(sq, x), ts)
  <2>1. CASE Loading(m) /\ Fresh(L, Nat, S, m.world, tc \o sq)
             /\ \A j \in DOMAIN ts : ts[j].kind # "ready"
    BY <1>4, <2>1 DEF Plays
  <2>2. CASE Settled(L, Nat, S, m, (m.queue \o tc) \o sq) /\ Handshake(L, m, tc, ts)
    <3> DEFINE a == m.queue \o tc
               P == a \o sq
    <3>1. a \in Seq(ServerPacket) /\ P \in Seq(ServerPacket) /\ m.step \in Nat
      BY LinkTypes
    <3>2. Settled(L, Nat, S, m, P)
      BY <2>2
    <3> HIDE DEF a, P
    <3>3. a \o Append(sq, x) = Append(P, x)
      BY <1>2, <3>1, ConcatLaws DEF P
    <3>4. Settled(M, Nat, S, m, Append(P, x))
      BY <3>1, <3>2, SettledSend
    <3>5. Settled(M, Nat, S, m, (m.queue \o tc) \o Append(sq, x))
      BY <3>3, <3>4 DEF a
    <3>6. Handshake(M, m, tc, ts)
      BY <1>3, <2>2, <3>1 DEF Handshake
    <3>7. QED
      BY <3>5, <3>6 DEF Plays
  <2>3. QED
    BY <1>5, <2>1, <2>2 DEF Plays
<1>6. ASSUME Games(L, Nat, S, m, tc, sq) PROVE Games(M, Nat, S, m, tc, Append(sq, x))
  BY <1>4, <1>6, LinkTypes DEF Games
<1>7. QED
  BY <1>5, <1>6

\* The server sends something else, while it gets ahead.
LEMMA LinkAppend ==
    ASSUME NEW L \in Seq(LogCmd), NEW N, Downward(N), NEW S \in Nat, NEW T \in Nat, S <= T,
           NEW x \in ServerPacket, ~Stamped(x), x.kind # "ready",
           IsCommand(x) => PacketOK(L, x, T) /\ S < x.step,
           NEW tc \in Seq(ServerPacket), NEW sq \in Seq(ServerPacket), NEW ts \in Seq(ClientPacket),
           NEW m \in Machine, m.step <= S
    PROVE  /\ Plays(L, N, S, m, tc, sq, ts) => Plays(L, N, T, m, tc, Append(sq, x), ts)
           /\ Games(L, N, S, m, tc, sq) => Games(L, N, T, m, tc, Append(sq, x))
<1>4. ASSUME NEW a \in Seq(ServerPacket), NEW w, Fresh(L, N, S, w, a \o sq)
      PROVE  Fresh(L, N, T, w, a \o Append(sq, x))
  <2> DEFINE P == a \o sq
  <2>1. P \in Seq(ServerPacket) /\ a \o Append(sq, x) = Append(P, x)
    BY ConcatFacts, ConcatLaws
  <2>2. Fresh(L, N, S, w, P)
    BY <1>4
  <2> HIDE DEF P
  <2>3. Fresh(L, N, T, w, Append(P, x))
    BY <2>1, <2>2, FreshAppend
  <2>4. QED
    BY <2>1, <2>3
<1>5. ASSUME Plays(L, N, S, m, tc, sq, ts) PROVE Plays(L, N, T, m, tc, Append(sq, x), ts)
  <2>1. CASE Loading(m) /\ Fresh(L, N, S, m.world, tc \o sq)
             /\ \A j \in DOMAIN ts : ts[j].kind # "ready"
    BY <1>4, <2>1 DEF Plays
  <2>2. CASE Settled(L, N, S, m, (m.queue \o tc) \o sq) /\ Handshake(L, m, tc, ts)
    <3> DEFINE a == m.queue \o tc
               P == a \o sq
    <3>1. a \in Seq(ServerPacket) /\ P \in Seq(ServerPacket) /\ m.step \in Nat
      BY LinkTypes
    <3>2. Settled(L, N, S, m, P)
      BY <2>2
    <3> HIDE DEF a, P
    <3>3. a \o Append(sq, x) = Append(P, x)
      BY <3>1, ConcatLaws DEF P
    <3>4. Settled(L, N, T, m, Append(P, x))
      BY <3>1, <3>2, SettledAppend
    <3>5. Settled(L, N, T, m, (m.queue \o tc) \o Append(sq, x))
      BY <3>3, <3>4 DEF a
    <3>6. QED
      BY <2>2, <3>5 DEF Plays
  <2>3. QED
    BY <1>5, <2>1, <2>2 DEF Plays
<1>6. ASSUME Games(L, N, S, m, tc, sq) PROVE Games(L, N, T, m, tc, Append(sq, x))
  BY <1>4, <1>6, LinkTypes DEF Games
<1>7. QED
  BY <1>5, <1>6

\* The send queue is emptied into the wire: it holds no game, and no answer to an
\* NWC_JOIN or NWC_READY.
LEMMA LinkFlush ==
    ASSUME NEW L, NEW N, NEW S,
           NEW tc \in Seq(ServerPacket), NEW sq \in Seq(ServerPacket), NEW ts \in Seq(ClientPacket),
           NEW m \in Machine, \A i \in DOMAIN sq : sq[i].kind \notin {"game", "join", "ready"}
    PROVE  /\ Plays(L, N, S, m, tc, sq, ts) => Plays(L, N, S, m, tc \o sq, <<>>, ts)
           /\ Games(L, N, S, m, tc, sq) => Games(L, N, S, m, tc \o sq, <<>>)
<1> DEFINE u == tc \o sq
<1>1. /\ u \in Seq(ServerPacket) /\ Len(tc) \in Nat
      /\ \A i \in DOMAIN tc : i \in DOMAIN u /\ u[i] = tc[i]
      /\ \A i \in DOMAIN u : i \in DOMAIN tc \/ u[i].kind \notin {"game", "join", "ready"}
  BY ConcatFacts
<1>2. u \o <<>> = u /\ (m.queue \o u) \o <<>> = (m.queue \o tc) \o sq
  <2>1. m.queue \in Seq(ServerPacket)
    BY LinkTypes
  <2>a. \A q \in Seq(ServerPacket) : (q \o tc) \o sq = q \o u
    BY ConcatAssociative
  <2>2. (m.queue \o tc) \o sq = m.queue \o u
    BY <2>1, <2>a
  <2>3. m.queue \o u \in Seq(ServerPacket)
    BY <1>1, <2>1, ConcatFacts
  <2> HIDE DEF u
  <2>4. u \o <<>> = u /\ (m.queue \o u) \o <<>> = m.queue \o u
    BY <1>1, <2>3, ConcatEmptySeq
  <2>5. QED
    BY <2>2, <2>4
<1>3. ASSUME Plays(L, N, S, m, tc, sq, ts) PROVE Plays(L, N, S, m, u, <<>>, ts)
  <2>1. CASE Loading(m) /\ Fresh(L, N, S, m.world, tc \o sq)
             /\ \A j \in DOMAIN ts : ts[j].kind # "ready"
    BY <1>2, <2>1 DEF Plays
  <2>2. CASE Settled(L, N, S, m, (m.queue \o tc) \o sq) /\ Handshake(L, m, tc, ts)
    <3>1. Settled(L, N, S, m, (m.queue \o u) \o <<>>)
      BY <1>2, <2>2
    <3> HIDE DEF u
    <3>2. Handshake(L, m, u, ts)
      <4>1. \A i \in DOMAIN u : u[i].kind = "ready" => i \in DOMAIN tc /\ u[i] = tc[i]
        BY <1>1
      <4>2. QED
        BY <2>2, <4>1 DEF Handshake
    <3>3. QED
      BY <3>1, <3>2 DEF Plays
  <2>3. QED
    BY <1>3, <2>1, <2>2 DEF Plays
<1>4. ASSUME Games(L, N, S, m, tc, sq) PROVE Games(L, N, S, m, u, <<>>)
  <2>1. ASSUME NEW g \in DOMAIN u, Expects(m, u, g) PROVE Fresh(L, N, S, u[g].world, After(u, g) \o <<>>)
    <3>1. g \in DOMAIN tc
      BY <1>1, <2>1 DEF Expects
    <3>2. u[g] = tc[g] /\ After(u, g) = After(tc, g) \o sq
      BY <3>1, AfterLaws
    <3>3. After(u, g) \in Seq(ServerPacket)
      BY <1>1, AfterFacts
    <3> HIDE DEF u
    <3>4. After(u, g) \o <<>> = After(u, g)
      BY <3>3, ConcatEmptySeq
    <3>5. Expects(m, tc, g)
      <4>1. \A j \in DOMAIN u : u[j].kind = "join" => j \in DOMAIN tc /\ tc[j] = u[j]
        BY <1>1
      <4>2. QED
        BY <2>1, <3>2, <4>1 DEF Expects
    <3>6. QED
      BY <1>4, <3>1, <3>2, <3>4, <3>5 DEF Games
  <2>2. QED
    BY <2>1 DEF Games
<1>5. QED
  BY <1>3, <1>4

\* The server closes the connection: the send queue and what comes from the client
\* are lost, and the end of the wire follows.
LEMMA LinkStop ==
    ASSUME NEW L \in Seq(LogCmd), NEW N, NEW O, Downward(O), O \subseteq N, NEW S \in Nat,
           NEW tc \in Seq(ServerPacket), NEW sq \in Seq(ServerPacket), NEW ts,
           NEW m \in Machine, m.step <= S,
           \A i \in DOMAIN sq : sq[i].kind # "ready" /\ (Stamped(sq[i]) => sq[i].step \notin O)
    PROVE  /\ Plays(L, N, S, m, tc, sq, ts) => Plays(L, O, S, m, Append(tc, EOF), <<>>, <<>>)
           /\ Games(L, N, S, m, tc, sq) => Games(L, O, S, m, Append(tc, EOF), <<>>)
<1> DEFINE u == Append(tc, EOF)
<1>1. /\ EOF \in ServerPacket /\ ~Stamped(EOF) /\ ~IsCommand(EOF)
      /\ EOF.kind = "eof"
  BY DEF EOF, ServerPacket, Stamped, IsCommand
<1>2. /\ u \in Seq(ServerPacket) /\ u = tc \o <<EOF>> /\ <<EOF>> \in Seq(ServerPacket)
      /\ \A i \in DOMAIN tc : i \in DOMAIN u /\ u[i] = tc[i]
      /\ \A i \in DOMAIN u : i \in DOMAIN tc \/ u[i] = EOF
  <2>1. /\ u \in Seq(ServerPacket) /\ DOMAIN u = DOMAIN tc \cup {Len(tc) + 1}
        /\ \A i \in DOMAIN tc : u[i] = tc[i] /\ i < Len(tc) + 1
        /\ u[Len(tc) + 1] = EOF
    BY <1>1, AppendFacts
  <2>2. u = tc \o <<EOF>> /\ <<EOF>> \in Seq(ServerPacket)
    BY <1>1, AppendIsConcat
  <2>3. QED
    BY <2>1, <2>2
<1>3. ASSUME NEW a \in Seq(ServerPacket), NEW w, Fresh(L, N, S, w, a \o sq)
      PROVE  Fresh(L, O, S, w, Append(a, EOF))
  <2>1. Fresh(L, O, S, w, a)
    BY <1>3, FreshStop
  <2>2. S \in Nat /\ S <= S /\ EOF.kind # "ready"
    BY <1>1
  <2>3. QED
    BY <1>1, <2>1, <2>2, FreshAppend
<1>4. \A a \in Seq(ServerPacket) : Append(a, EOF) \o <<>> = Append(a, EOF)
  <2>1. \A a \in Seq(ServerPacket) : Append(a, EOF) \in Seq(ServerPacket)
    BY <1>1, AppendFacts
  <2>2. QED
    BY <2>1, ConcatEmptySeq
<1> HIDE DEF u
<1>5. ASSUME Plays(L, N, S, m, tc, sq, ts) PROVE Plays(L, O, S, m, u, <<>>, <<>>)
  <2>1. CASE Loading(m) /\ Fresh(L, N, S, m.world, tc \o sq)
    <3>1. Fresh(L, O, S, m.world, u \o <<>>)
      BY <1>3, <1>4, <2>1 DEF u
    <3>2. QED
      BY <2>1, <3>1 DEF Plays
  <2>2. CASE Settled(L, N, S, m, (m.queue \o tc) \o sq) /\ Handshake(L, m, tc, ts)
    <3> DEFINE a == m.queue \o tc
    <3>1. a \in Seq(ServerPacket) /\ m.step \in Nat /\ m.queue \in Seq(ServerPacket)
      BY LinkTypes
    <3>2. Settled(L, N, S, m, a \o sq)
      BY <2>2
    <3> HIDE DEF a
    <3>3. Settled(L, O, S, m, a)
      BY <3>1, <3>2, SettledStop
    <3>4. S \in Nat /\ S <= S
      OBVIOUS
    <3>5. Settled(L, O, S, m, Append(a, EOF))
      BY <1>1, <3>1, <3>3, <3>4, SettledAppend
    <3>6. Append(a, EOF) = m.queue \o u
      <4>1. \A q \in Seq(ServerPacket) : q \o Append(tc, EOF) = Append(q \o tc, EOF)
        BY <1>1, ConcatLaws
      <4>2. QED
        BY <3>1, <4>1 DEF a, u
    <3>7. Settled(L, O, S, m, (m.queue \o u) \o <<>>)
      <4>1. Append(a, EOF) \o <<>> = Append(a, EOF)
        BY <1>4, <3>1
      <4>2. (m.queue \o u) \o <<>> = Append(a, EOF)
        BY <3>6, <4>1
      <4>3. QED
        BY <3>5, <4>2
    <3>8. Handshake(L, m, u, <<>>)
      <4>1. \A i \in DOMAIN u : u[i].kind = "ready" => i \in DOMAIN tc /\ u[i] = tc[i]
        BY <1>1, <1>2
      <4>2. QED
        BY <2>2, <4>1 DEF Handshake
    <3>9. QED
      BY <3>7, <3>8 DEF Plays
  <2>3. QED
    BY <1>5, <2>1, <2>2 DEF Plays
<1>6. ASSUME Games(L, N, S, m, tc, sq) PROVE Games(L, O, S, m, u, <<>>)
  <2>1. ASSUME NEW g \in DOMAIN u, Expects(m, u, g) PROVE Fresh(L, O, S, u[g].world, After(u, g) \o <<>>)
    <3>1. g \in DOMAIN tc
      BY <1>1, <1>2, <2>1 DEF Expects
    <3>2. u[g] = tc[g] /\ After(u, g) = After(tc, g) \o <<EOF>>
      BY <1>2, <3>1, AfterLaws
    <3>3. After(tc, g) \in Seq(ServerPacket)
      BY <3>1, AfterFacts
    <3>4. After(u, g) = Append(After(tc, g), EOF)
      BY <1>1, <3>2, <3>3, AppendIsConcat
    <3>5. Expects(m, tc, g)
      <4>1. \A j \in DOMAIN u : u[j].kind = "join" => j \in DOMAIN tc /\ tc[j] = u[j]
        BY <1>1, <1>2
      <4>2. QED
        BY <2>1, <3>2, <4>1 DEF Expects
    <3>6. Fresh(L, N, S, tc[g].world, After(tc, g) \o sq)
      BY <1>6, <3>1, <3>5 DEF Games
    <3>7. Fresh(L, O, S, tc[g].world, Append(After(tc, g), EOF))
      BY <1>3, <3>3, <3>6
    <3>8. QED
      BY <1>4, <3>2, <3>3, <3>4, <3>7
  <2>2. QED
    BY <2>1 DEF Games
<1>7. QED
  BY <1>5, <1>6 DEF u

\* The server reads a packet.
LEMMA LinkHeard ==
    ASSUME NEW L, NEW N, NEW S, NEW tc, NEW sq, NEW ts \in Seq(ClientPacket), ts # <<>>, NEW m
    PROVE  /\ Plays(L, N, S, m, tc, sq, ts) => Plays(L, N, S, m, tc, sq, Tail(ts))
           /\ Says(L, S, ts) => Says(L, S, Tail(ts))
           /\ JoinInv(m, tc, ts) /\ ts[1].kind # "join" => JoinInv(m, tc, Tail(ts))
<1>1. \A i \in DOMAIN Tail(ts) : i + 1 \in DOMAIN ts /\ Tail(ts)[i] = ts[i + 1] /\ i \in Nat
  BY TailFacts
<1>2. ASSUME Handshake(L, m, tc, ts) PROVE Handshake(L, m, tc, Tail(ts))
  <2>1. ASSUME NEW i \in DOMAIN tc, tc[i].kind = "ready"
        PROVE  /\ m.paused /\ tc[i].step = m.step /\ tc[i].map = m.map /\ Chk(L, tc[i].step, tc[i].chk)
               /\ \A j \in DOMAIN tc : tc[j].kind = "ready" => j = i
               /\ \A j \in DOMAIN Tail(ts) : Tail(ts)[j].kind # "ready"
    BY <1>1, <1>2, <2>1 DEF Handshake
  <2>2. ASSUME NEW i \in DOMAIN Tail(ts), Tail(ts)[i].kind = "ready"
        PROVE  /\ m.paused /\ Tail(ts)[i].step = m.step /\ Tail(ts)[i].map = m.map
               /\ \A j \in DOMAIN Tail(ts) : Tail(ts)[j].kind = "ready" => j = i
    <3>1. PICK h \in DOMAIN ts : h = i + 1 /\ ts[h] = Tail(ts)[i]
      BY <1>1
    <3>2. m.paused /\ ts[h].step = m.step /\ ts[h].map = m.map /\ \A j \in DOMAIN ts : ts[j].kind = "ready" => j = h
      BY <1>2, <2>2, <3>1 DEF Handshake
    <3>3. ASSUME NEW j \in DOMAIN Tail(ts), Tail(ts)[j].kind = "ready" PROVE j = i
      <4>1. j + 1 = h /\ i \in Nat /\ j \in Nat
        BY <1>1, <3>2, <3>3
      <4>2. QED
        BY <3>1, <4>1
    <3>4. QED
      BY <3>1, <3>2, <3>3
  <2>3. QED
    BY <2>1, <2>2 DEF Handshake
<1>3. ASSUME Plays(L, N, S, m, tc, sq, ts) PROVE Plays(L, N, S, m, tc, sq, Tail(ts))
  BY <1>1, <1>2, <1>3 DEF Plays
<1>4. ASSUME Says(L, S, ts) PROVE Says(L, S, Tail(ts))
  <2>1. ASSUME NEW i \in DOMAIN Tail(ts)
        PROVE  /\ Tail(ts)[i].kind = "tool" =>
                     Tail(ts)[i].lastStep <= S /\ Chk(L, Tail(ts)[i].lastStep, Tail(ts)[i].lastChk)
               /\ Tail(ts)[i].kind = "ready" => Tail(ts)[i].step <= S /\ Chk(L, Tail(ts)[i].step, Tail(ts)[i].chk)
    <3>1. PICK h \in DOMAIN ts : ts[h] = Tail(ts)[i]
      BY <1>1
    <3>2. QED
      BY <1>4, <3>1 DEF Says
  <2>2. QED
    BY <2>1 DEF Says
<1>5. ASSUME JoinInv(m, tc, ts), ts[1].kind # "join" PROVE JoinInv(m, tc, Tail(ts))
  <2>1. m.state \notin {"waitSync", "waitGame", "waitJoin"}
    <3>1. CASE ts = <<>>
      BY <3>1
    <3>2. CASE ts = <<[kind |-> "join"]>>
      BY <1>5, <3>2
    <3>3. QED
      BY <1>5, <3>1, <3>2 DEF JoinInv
  <2>2. \A i \in DOMAIN Tail(ts) : \E h \in DOMAIN ts : Tail(ts)[i] = ts[h]
    BY <1>1
  <2>3. QED
    BY <1>5, <2>1, <2>2 DEF JoinInv
<1>6. QED
  BY <1>3, <1>4, <1>5

\* The server echoes an NWC_READY.
LEMMA LinkEcho ==
    ASSUME NEW L, NEW N, Downward(N), NEW S, L \in Seq(LogCmd),
           NEW tc \in Seq(ServerPacket), NEW sq \in Seq(ServerPacket), NEW ts \in Seq(ClientPacket), ts # <<>>,
           NEW m \in Machine, JoinInv(m, tc, ts), NEW r \in ServerPacket, r = ts[1], r.kind = "ready"
    PROVE  /\ Plays(L, N, S, m, tc, sq, ts) /\ Says(L, S, ts) => Plays(L, N, S, m, Append(tc, r), sq, Tail(ts))
           /\ Games(L, N, S, m, Append(tc, r), sq)
           /\ \A g \in DOMAIN Append(tc, r) : ~Expects(m, Append(tc, r), g)
           /\ JoinInv(m, Append(tc, r), Tail(ts))
<1> DEFINE u == Append(tc, r)
<1>1. /\ u \in Seq(ServerPacket) /\ DOMAIN u = DOMAIN tc \cup {Len(tc) + 1}
      /\ \A i \in DOMAIN tc : u[i] = tc[i] /\ i < Len(tc) + 1
      /\ u[Len(tc) + 1] = r
  BY AppendFacts
<1>2. m.state \notin {"waitSync", "waitGame", "waitJoin"}
  <2>1. CASE ts = <<>>
    BY <2>1
  <2>2. CASE ts = <<[kind |-> "join"]>>
    BY <2>2
  <2>3. QED
    BY <2>1, <2>2 DEF JoinInv
<1>3. 1 \in DOMAIN ts /\ \A i \in DOMAIN Tail(ts) : i + 1 \in DOMAIN ts /\ Tail(ts)[i] = ts[i + 1] /\ i \in Nat /\ i # 0
  BY TailFacts
<1> HIDE DEF u
<1>4. \A g \in DOMAIN u : ~Expects(m, u, g)
  BY <1>2 DEF Expects
<1>5. JoinInv(m, u, Tail(ts))
  <2>1. JoinInv(m, tc, Tail(ts))
    BY LinkHeard
  <2>2. \A i \in DOMAIN u : u[i].kind = "join" => i \in DOMAIN tc /\ tc[i].kind = "join"
    BY <1>1
  <2>3. QED
    BY <1>2, <2>1, <2>2 DEF JoinInv
<1>6. ASSUME Plays(L, N, S, m, tc, sq, ts), Says(L, S, ts) PROVE Plays(L, N, S, m, u, sq, Tail(ts))
  <2>1. Settled(L, N, S, m, (m.queue \o tc) \o sq) /\ Handshake(L, m, tc, ts)
    BY <1>3, <1>6 DEF Plays
  <2>2. Chk(L, r.step, r.chk) /\ m.paused /\ r.step = m.step /\ r.map = m.map
        /\ \A j \in DOMAIN ts : ts[j].kind = "ready" => j = 1
        /\ \A i \in DOMAIN tc : tc[i].kind # "ready"
    BY <1>3, <1>6, <2>1 DEF Says, Handshake
  <2>3. Handshake(L, m, u, Tail(ts))
    <3>1. \A j \in DOMAIN Tail(ts) : Tail(ts)[j].kind # "ready"
      <4>1. ASSUME NEW j \in DOMAIN Tail(ts), Tail(ts)[j].kind = "ready" PROVE FALSE
        <5>1. j + 1 = 1 /\ j \in Nat /\ j # 0
          BY <1>3, <2>2, <4>1
        <5>2. QED
          BY <5>1
      <4>2. QED
        BY <4>1
    <3>2. \A i \in DOMAIN u : u[i].kind = "ready" => i = Len(tc) + 1 /\ u[i] = r
      BY <1>1, <2>2
    <3>3. QED
      BY <2>2, <3>1, <3>2 DEF Handshake
  <2>4. Settled(L, N, S, m, (m.queue \o u) \o sq)
    <3> DEFINE a == m.queue \o tc
    <3>1. a \in Seq(ServerPacket) /\ m.queue \in Seq(ServerPacket) /\ ~IsCommand(r)
      BY LinkTypes DEF IsCommand
    <3>2. Settled(L, N, S, m, a \o sq)
      BY <2>1
    <3>3. \A q \in Seq(ServerPacket) : q \o Append(tc, r) = Append(q \o tc, r)
      BY ConcatLaws
    <3>4. m.queue \o u = Append(a, r)
      BY <3>1, <3>3 DEF u
    <3> HIDE DEF a
    <3>5. Settled(L, N, S, m, Append(a, r) \o sq)
      BY <3>1, <3>2, SettledInsert
    <3>6. QED
      BY <3>4, <3>5
  <2>5. QED
    BY <2>3, <2>4 DEF Plays
<1>7. QED
  BY <1>4, <1>5, <1>6 DEF u, Games

-----------------------------------------------------------------------------
(* The inductive invariant. *)

\* Whether the server holds the connection of c open; the steps that are near to
\* it, all of them if so, else those up to the step r of the closing; whether the
\* client has a game, or gets one that is under way.
Active(c)  == slot[c] # "inactive"
Near(c, r) == IF Active(c) THEN Nat ELSE 0 .. r
Awaits(c)  == InGame(c) \/ \E g \in DOMAIN toClient[c] : Expects(client[c], toClient[c], g)

\* Only who has been sent a game awaits one, and nobody waits for a second one; a
\* closed connection tells nothing later than its closing, which was before the
\* server paused; a command in a send queue is not due yet.
SeatInv(c, r) ==
    /\ r <= sStep
    /\ JoinInv(client[c], toClient[c], toServer[c])
    /\ Awaits(c) =>
          /\ slot[c] # "connected"
          /\ Active(c) => \A i \in DOMAIN sQueue : sQueue[i].kind = "sync" => sQueue[i].client # c
          /\ ~Active(c) /\ sPaused => r < sStep
    /\ ~Active(c) => /\ sendq[c] = <<>> /\ client[c].barrier <= r
                     /\ \A i \in DOMAIN toClient[c] : Clock(toClient[c][i]) <= r
    /\ \A i \in DOMAIN sendq[c] : Stamped(sendq[c][i]) => sendq[c][i].step > sStep

\* A clean client follows the log, and was accused of nothing; so will any client
\* that a game is on its way to.
FollowInv(c, L, r) ==
    /\ IsClean(c) =>
          /\ why[c] \notin {"desync", "kicked"} /\ Says(L, sStep, toServer[c])
          /\ InGame(c) =>
                Plays(L, Near(c, r), sStep, client[c], toClient[c], sendq[c], toServer[c])
    /\ Games(L, Near(c, r), sStep, client[c], toClient[c], sendq[c])

\* The map counters that the server remembers, newest first, after n commands of
\* the log: those of all the worlds it has had, but for ones that are older, when
\* it remembers as many as it can.
Remembers(L, n, maps) ==
    /\ maps \in Seq(Nat) /\ Len(maps) <= MaxMapCounters
    /\ \A i, j \in DOMAIN maps : i < j => maps[j] < maps[i]
    /\ \A i \in DOMAIN maps : maps[i] <= MapAt(L, n)
    /\ \A k \in 0 .. n : \/ \E i \in DOMAIN maps : maps[i] = MapAt(L, k)
                         \/ Len(maps) = MaxMapCounters /\ \A i \in DOMAIN maps : MapAt(L, k) < maps[i]

\* The server has done a prefix of the log, its queue leads along the rest, its
\* ring holds the checklists of the last steps, and it remembers its map counters.
ServerWorldInv(L) ==
    /\ LogOK(L) /\ nextMap > 1
    /\ \A i \in DOMAIN L : NextMap(L[i]) < nextMap
    /\ At(L, Len(sWorld), sWorld, sMap, sStep)
    /\ StreamOK(L, sQueue, Len(sWorld), Nat, sStep)
    /\ \A i \in DOMAIN sQueue : sQueue[i].map = sMap
    /\ \A s \in 0 .. sStep : s + ChecklistCount > sStep => Chk(L, s, LCHKLST(sChk, s))
    /\ Remembers(L, Len(sWorld), allMaps)

\* L is the log, reach tells at what step each connection was closed.
WInv(L, reach) ==
    /\ ServerWorldInv(L)
    /\ \A c \in Client : SeatInv(c, reach[c]) /\ FollowInv(c, L, reach[c])

WorldInv == \E L \in Seq(LogCmd), reach \in [Client -> Nat] : WInv(L, reach)

-----------------------------------------------------------------------------
(* What happens to a connection. *)

\* Types and bounds of a connection.
LEMMA NearFacts ==
    ASSUME TypeOK, LockstepInv, NEW c \in Client, NEW r \in Nat, SeatInv(c, r)
    PROVE  /\ Downward(Near(c, r)) /\ Near(c, r) \subseteq Nat
           /\ client[c].step \in Near(c, r) /\ client[c].barrier \in Near(c, r)
           /\ \A i \in DOMAIN toClient[c] : Clock(toClient[c][i]) \in Near(c, r)
           /\ client[c].step \in Nat /\ client[c].barrier \in Nat /\ sStep \in Nat
           /\ client[c].step <= client[c].barrier /\ client[c].barrier <= sStep
           /\ \A i \in DOMAIN sendq[c] : sendq[c][i].kind \in {"tool", "sync", "check", "step"}
           /\ client[c] \in Machine /\ toClient[c] \in Seq(ServerPacket)
           /\ sendq[c] \in Seq(ServerPacket) /\ toServer[c] \in Seq(ClientPacket)
<1>1. /\ client[c] \in Machine /\ toClient[c] \in Seq(ServerPacket)
      /\ sendq[c] \in Seq(ServerPacket) /\ toServer[c] \in Seq(ClientPacket)
      /\ client[c].step \in Nat /\ client[c].barrier \in Nat /\ sStep \in Nat
  BY ClientTypes
<1>2. /\ client[c].step <= client[c].barrier /\ client[c].barrier <= sStep
      /\ \A i \in DOMAIN sendq[c] : sendq[c][i].kind \in {"tool", "sync", "check", "step"}
  BY DEF LockstepInv, ClientInv, MachineInv, ChannelInv
<1>3. \A i \in DOMAIN toClient[c] : Clock(toClient[c][i]) \in Nat
  <2>1. \A i \in DOMAIN toClient[c] : toClient[c][i] \in ServerPacket
    BY <1>1
  <2>2. QED
    BY <2>1, ClockFacts
<1>4. Downward(Near(c, r)) /\ Near(c, r) \subseteq Nat
  BY DEF Near, Downward
<1>5. CASE Active(c)
  BY <1>1, <1>2, <1>3, <1>4, <1>5 DEF Near
<1>6. CASE ~Active(c)
  <2>1. Near(c, r) = 0 .. r /\ client[c].barrier <= r /\ \A i \in DOMAIN toClient[c] : Clock(toClient[c][i]) <= r
    BY <1>6 DEF Near, SeatInv
  <2>2. client[c].step <= r
    BY <1>1, <1>2, <2>1
  <2>3. QED
    BY <1>1, <1>2, <1>3, <1>4, <2>1, <2>2
<1>7. QED
  BY <1>5, <1>6

\* Nothing happens to the connection of d.
LEMMA Elsewhere ==
    ASSUME NEW d \in Client, NEW r, NEW L, SeatInv(d, r), FollowInv(d, L, r),
           sStep' = sStep, slot'[d] = slot[d], sendq'[d] = sendq[d], toClient'[d] = toClient[d],
           toServer'[d] = toServer[d], client'[d] = client[d], why'[d] = why[d],
           IsClean(d)' => IsClean(d), sPaused' => sPaused,
           \A i \in DOMAIN sQueue' : sQueue'[i].kind = "sync" /\ sQueue'[i].client = d =>
              \E j \in DOMAIN sQueue : sQueue[j].kind = "sync" /\ sQueue[j].client = d
    PROVE  SeatInv(d, r)' /\ FollowInv(d, L, r)'
<1>1. (Active(d)' <=> Active(d)) /\ Near(d, r)' = Near(d, r) /\ (InGame(d)' <=> InGame(d)) /\ (Awaits(d)' <=> Awaits(d))
  BY DEF Active, Near, Awaits, InGame
<1>2. SeatInv(d, r)'
  BY <1>1 DEF SeatInv
<1>3. FollowInv(d, L, r)'
  BY <1>1 DEF FollowInv
<1>4. QED
  BY <1>2, <1>3

\* A command x is sent to everybody that has a connection, perhaps while a packet
\* from c is read.
LEMMA SendClient ==
    ASSUME TypeOK, LockstepInv, NEW L \in Seq(LogCmd), LogOK(L), NEW M, NEW x \in LogCmd, Sent(M, L, x),
           x.step = sStep + 1, PacketOK(L, x, sStep), sendq' = SendAll(x),
           NEW c \in Client, NEW r \in Nat, SeatInv(c, r), FollowInv(c, L, r),
           x.kind = "sync" => x.client # c,
           sStep' = sStep, slot'[c] = slot[c], toClient'[c] = toClient[c],
           client'[c] = client[c], why'[c] = why[c], IsClean(c)' => IsClean(c), sPaused' => sPaused,
           \A i \in DOMAIN sQueue' : sQueue'[i] = x \/ \E j \in DOMAIN sQueue : sQueue'[i] = sQueue[j],
           NEW ts, toServer'[c] = ts, ts = toServer[c] \/ (toServer[c] # <<>> /\ toServer[c][1].kind = "tool"
                                                          /\ ts = Tail(toServer[c]))
    PROVE  SeatInv(c, r)' /\ FollowInv(c, M, r)'
<1> DEFINE N == Near(c, r)
           m == client[c]
           tc == toClient[c]
           sq == sendq[c]
<1>1. (Active(c)' <=> Active(c)) /\ Near(c, r)' = N /\ (InGame(c)' <=> InGame(c)) /\ (Awaits(c)' <=> Awaits(c))
  BY DEF Active, Near, Awaits, InGame
<1>2. /\ Downward(N) /\ N \subseteq Nat /\ m.step \in N /\ sStep \in Nat /\ m.step <= sStep
      /\ \A i \in DOMAIN tc : Clock(tc[i]) \in N
      /\ \A i \in DOMAIN sq : sq[i].kind # "ready"
      /\ m \in Machine /\ tc \in Seq(ServerPacket) /\ sq \in Seq(ServerPacket)
      /\ toServer[c] \in Seq(ClientPacket)
  <2>1. /\ Downward(N) /\ N \subseteq Nat /\ m.step \in N /\ sStep \in Nat
        /\ m.step \in Nat /\ m.barrier \in Nat /\ m.step <= m.barrier /\ m.barrier <= sStep
        /\ \A i \in DOMAIN tc : Clock(tc[i]) \in N
        /\ \A i \in DOMAIN sq : sq[i].kind \in {"tool", "sync", "check", "step"}
        /\ m \in Machine /\ tc \in Seq(ServerPacket) /\ sq \in Seq(ServerPacket)
        /\ toServer[c] \in Seq(ClientPacket)
    BY NearFacts
  <2> HIDE DEF N, m, tc, sq
  <2>2. m.step <= sStep
    BY <2>1
  <2>3. \A i \in DOMAIN sq : sq[i].kind # "ready"
    BY <2>1
  <2>4. QED
    BY <2>1, <2>2, <2>3
<1>3. /\ JoinInv(m, tc, ts) /\ ts \in Seq(ClientPacket)
      /\ Says(L, sStep, toServer[c]) => Says(L, sStep, ts)
      /\ Plays(L, N, sStep, m, tc, sq, toServer[c]) => Plays(L, N, sStep, m, tc, sq, ts)
  <2>1. JoinInv(m, tc, toServer[c])
    BY DEF SeatInv
  <2>2. CASE ts = toServer[c]
    BY <1>2, <2>1, <2>2
  <2>3. CASE toServer[c] # <<>> /\ toServer[c][1].kind = "tool" /\ ts = Tail(toServer[c])
    <3>1. Tail(toServer[c]) \in Seq(ClientPacket)
      BY <1>2, <2>3, TailFacts
    <3>2. QED
      BY <1>2, <2>1, <2>3, <3>1, LinkHeard
  <2>4. QED
    BY <2>2, <2>3
<1>4. sendq'[c] = IF Active(c) THEN Append(sq, x) ELSE sq
  BY DEF SendAll, Active
<1>5. x.step > sStep /\ x \in ServerPacket
  BY <1>2 DEF LogCmd, ServerPacket, WorldCmd
<1>6. SeatInv(c, r)'
  <2>1. /\ r <= sStep' /\ JoinInv(client'[c], toClient'[c], toServer'[c])
    BY <1>3 DEF SeatInv
  <2>2. Awaits(c) =>
          /\ slot'[c] # "connected"
          /\ Active(c) => \A i \in DOMAIN sQueue' : sQueue'[i].kind = "sync" => sQueue'[i].client # c
          /\ ~Active(c) /\ sPaused' => r < sStep'
    BY DEF SeatInv
  <2>3. ~Active(c) => /\ sendq'[c] = <<>> /\ client'[c].barrier <= r
                      /\ \A i \in DOMAIN toClient'[c] : Clock(toClient'[c][i]) <= r
    BY <1>4 DEF SeatInv
  <2>4. \A i \in DOMAIN sendq'[c] : Stamped(sendq'[c][i]) => sendq'[c][i].step > sStep'
    <3>1. \A i \in DOMAIN sq : Stamped(sq[i]) => sq[i].step > sStep
      BY DEF SeatInv
    <3>2. CASE ~Active(c)
      BY <1>4, <3>1, <3>2
    <3>3. CASE Active(c)
      <4>1. \A i \in DOMAIN Append(sq, x) : (i \in DOMAIN sq /\ Append(sq, x)[i] = sq[i]) \/ Append(sq, x)[i] = x
        BY <1>2, <1>5, AppendFacts
      <4>2. QED
        BY <1>4, <1>5, <3>1, <3>3, <4>1
    <3>4. QED
      BY <3>2, <3>3
  <2>5. QED
    BY <1>1, <2>1, <2>2, <2>3, <2>4 DEF SeatInv
<1>7. /\ Plays(L, N, sStep, m, tc, sq, ts) => Plays(M, N, sStep, m, tc, sendq'[c], ts)
      /\ Games(L, N, sStep, m, tc, sq) => Games(M, N, sStep, m, tc, sendq'[c])
      /\ Says(L, sStep, ts) => Says(M, sStep, ts)
  <2>1. M \in Seq(LogCmd) /\ Revises(M, L, Len(L), sStep + 1) /\ sStep + 1 \in Nat
    BY <1>2, SentFacts
  <2>2. Says(L, sStep, ts) => Says(M, sStep, ts)
    <3>1. sStep <= sStep + 1 /\ sStep <= sStep
      BY <1>2
    <3>2. QED
      BY <1>2, <1>3, <2>1, <3>1, SaysKept
  <2>3. CASE Active(c)
    <3>1. N = Nat /\ sendq'[c] = Append(sq, x)
      BY <1>4, <2>3 DEF Near
    <3> HIDE DEF N, m, tc, sq
    <3>2. /\ Plays(L, Nat, sStep, m, tc, sq, ts) => Plays(M, Nat, sStep, m, tc, Append(sq, x), ts)
          /\ Games(L, Nat, sStep, m, tc, sq) => Games(M, Nat, sStep, m, tc, Append(sq, x))
      BY <1>2, <1>3, LinkSend
    <3>3. QED
      BY <2>2, <3>1, <3>2
  <2>4. CASE ~Active(c)
    <3>1. N = 0 .. r /\ sendq'[c] = sq /\ r <= sStep
      BY <1>4, <2>4 DEF Near, SeatInv
    <3> HIDE DEF N, m, tc, sq
    <3>2. ts \in Seq(ClientPacket) /\ sStep <= sStep
      BY <1>2, <1>3
    <3>3. ASSUME NEW k, NEW z \in Nat, Revises(M, L, k, z), \A s \in N : s < z, sStep <= z
          PROVE  /\ Plays(L, N, sStep, m, tc, sq, ts) => Plays(M, N, sStep, m, tc, sq, ts)
                 /\ Games(L, N, sStep, m, tc, sq) => Games(M, N, sStep, m, tc, sq)
      BY ONLY <1>2, <2>1, <3>2, <3>3, L \in Seq(LogCmd), LinkFar
    <3>4. sStep <= sStep + 1 /\ \A s \in N : s < sStep + 1
      BY <1>2, <3>1
    <3>5. /\ Plays(L, N, sStep, m, tc, sq, ts) => Plays(M, N, sStep, m, tc, sq, ts)
          /\ Games(L, N, sStep, m, tc, sq) => Games(M, N, sStep, m, tc, sq)
      BY <2>1, <3>3, <3>4
    <3>6. QED
      BY <2>2, <3>1, <3>5
  <2>5. QED
    BY <2>3, <2>4
<1>8. FollowInv(c, M, r)'
  <2>1. Games(M, N, sStep, m, tc, sendq'[c])
    BY <1>7 DEF FollowInv
  <2>2. ASSUME IsClean(c)
        PROVE  /\ why[c] \notin {"desync", "kicked"} /\ Says(M, sStep, ts)
               /\ InGame(c) => Plays(M, N, sStep, m, tc, sendq'[c], ts)
    BY <1>3, <1>7, <2>2 DEF FollowInv
  <2> HIDE DEF N, m, tc, sq
  <2>3. QED
    BY <1>1, <2>1, <2>2 DEF FollowInv, m, tc, sq
<1>9. QED
  BY <1>6, <1>8

\* A command that is not earlier than any in the queue goes to its end.
LEMMA QueueAppendLast ==
    ASSUME NEW q \in Seq(WorldCmd), NEW cmd \in WorldCmd, \A i \in DOMAIN q : q[i].step <= cmd.step
    PROVE  CommandQueueAppend(q, cmd) = Append(q, cmd)
<1>1. Len(q) \in Nat /\ DOMAIN q = 1 .. Len(q)
  OBVIOUS
<1>2. ASSUME NEW i \in 1 .. Len(q) + 1 PROVE CommandQueueAppend(q, cmd)[i] = Append(q, cmd)[i]
  <2>1. CASE i <= Len(q)
    <3>1. i \in DOMAIN q /\ q[i].step <= cmd.step /\ Append(q, cmd)[i] = q[i]
      BY <1>1, <2>1
    <3>2. QED
      BY <1>1, <2>1, <3>1 DEF CommandQueueAppend
  <2>2. CASE ~(i <= Len(q))
    <3>1. i = Len(q) + 1 /\ Append(q, cmd)[i] = cmd
      BY <1>1, <2>2
    <3>2. i = 1 \/ (i - 1 \in DOMAIN q /\ q[i - 1].step <= cmd.step)
      <4>1. i = 1 \/ i - 1 \in 1 .. Len(q)
        BY <1>1, <3>1
      <4>2. QED
        BY <1>1, <4>1
    <3>3. QED
      BY <1>1, <2>2, <3>1, <3>2 DEF CommandQueueAppend
  <2>3. QED
    BY <2>1, <2>2
<1>3. /\ CommandQueueAppend(q, cmd) \in Seq(WorldCmd) /\ Len(CommandQueueAppend(q, cmd)) = Len(q) + 1
  <2>1. CommandQueueAppend(q, cmd) \in Seq(WorldCmd)
    BY QueueAppendFacts
  <2>2. DOMAIN CommandQueueAppend(q, cmd) = 1 .. Len(q) + 1
    BY DEF CommandQueueAppend
  <2>3. QED
    BY <1>1, <2>1, <2>2
<1>4. Append(q, cmd) \in Seq(WorldCmd) /\ Len(Append(q, cmd)) = Len(q) + 1
  OBVIOUS
<1>5. QED
  BY <1>2, <1>3, <1>4, SeqEqual

\* What the server's invariant says of its position in the log, and of its queue.
LEMMA ServerFacts ==
    ASSUME TypeOK, NEW L \in Seq(LogCmd), ServerWorldInv(L)
    PROVE  /\ sQueue \in Seq(WorldCmd) /\ sQueue \in Seq(ServerPacket) /\ sStep \in Nat /\ nextMap \in Nat
           /\ sMap \in Nat /\ sMap < nextMap /\ Len(sWorld) \in 0 .. Len(L) /\ Len(L) \in Nat
           /\ \A i \in DOMAIN sQueue : IsCommand(sQueue[i]) /\ sQueue[i].step \in Nat
           /\ \A i \in DOMAIN sQueue : sQueue[i].step <= sStep + 1 /\ PacketOK(L, sQueue[i], sStep)
           /\ \A i \in DOMAIN L : i > Len(sWorld) =>
                 /\ \E p \in DOMAIN sQueue : Stamped(sQueue[p]) /\ sQueue[p] = L[i]
                 /\ L[i].map = sMap /\ L[i].step <= sStep + 1
<1>1. /\ sQueue \in Seq(WorldCmd) /\ sStep \in Nat /\ nextMap \in Nat /\ sMap \in Nat
  BY DEF TypeOK
<1>2. WorldCmd \subseteq ServerPacket
  BY DEF ServerPacket
<1>3. sQueue \in Seq(ServerPacket)
  BY <1>1, <1>2
<1>4. /\ Len(sWorld) \in 0 .. Len(L) /\ sMap = MapAt(L, Len(sWorld)) /\ LogOK(L) /\ nextMap > 1
      /\ \A i \in DOMAIN L : NextMap(L[i]) < nextMap
      /\ StreamOK(L, sQueue, Len(sWorld), Nat, sStep)
      /\ \A i \in DOMAIN sQueue : sQueue[i].map = sMap
  BY DEF ServerWorldInv, At
<1>5. Len(L) \in Nat /\ DOMAIN L = 1 .. Len(L) /\ \A i \in DOMAIN L : L[i].step \in Nat
  BY LogFacts
<1>6. sMap < nextMap
  <2>1. CASE Len(sWorld) = 0
    BY <1>1, <1>4, <2>1 DEF MapAt
  <2>2. CASE Len(sWorld) # 0
    <3>1. Len(sWorld) \in DOMAIN L
      BY <1>4, <1>5, <2>2
    <3>2. QED
      BY <1>4, <2>2, <3>1 DEF MapAt
  <2>3. QED
    BY <2>1, <2>2
<1>7. \A i \in DOMAIN sQueue : IsCommand(sQueue[i]) /\ sQueue[i].step \in Nat
  <2>1. \A p \in WorldCmd : IsCommand(p)
    BY DEF WorldCmd, ToolCmd, SyncCmd, CheckCmd, IsCommand
  <2>2. QED
    BY <1>1, <2>1, ClockFacts
<1>8. \A i \in DOMAIN sQueue : PacketOK(L, sQueue[i], sStep) /\ sQueue[i].step <= sStep + 1
  BY <1>4, <1>7 DEF StreamOK, CommandsOK, PacketOK
<1>9. ASSUME NEW i \in DOMAIN L, i > Len(sWorld)
      PROVE  /\ \E p \in DOMAIN sQueue : Stamped(sQueue[p]) /\ sQueue[p] = L[i]
             /\ L[i].map = sMap /\ L[i].step <= sStep + 1
  <2>1. Follow(sQueue, L, Len(sWorld), Nat) /\ L[i].step \in Nat
    BY <1>4, <1>5 DEF StreamOK
  <2>2. \E p \in DOMAIN sQueue : Stamped(sQueue[p]) /\ sQueue[p] = L[i]
    BY <1>3, <1>4, <1>9, <2>1, FollowFound
  <2>3. QED
    BY <1>4, <1>8, <2>2
<1>10. QED
  BY <1>1, <1>3, <1>4, <1>5, <1>6, <1>7, <1>8, <1>9

\* The server goes on in the same world: it remembers what it did.
LEMMA RemembersKept ==
    ASSUME NEW L, NEW M, NEW n \in Nat, NEW z \in Nat, n <= z,
           \A k \in 0 .. n : MapAt(M, k) = MapAt(L, k),
           \A k \in 0 .. z : k > n => MapAt(M, k) = MapAt(L, n),
           NEW maps, Remembers(L, n, maps)
    PROVE  Remembers(M, z, maps)
<1>1. MapAt(M, z) = MapAt(L, n)
  <2>1. z \in 0 .. z /\ n \in 0 .. n /\ (z > n \/ z = n)
    OBVIOUS
  <2>2. QED
    BY <2>1
<1>2. ASSUME NEW k \in 0 .. z PROVE \E i \in 0 .. n : MapAt(M, k) = MapAt(L, i)
  <2>1. k \in 0 .. n \/ k > n
    OBVIOUS
  <2>2. n \in 0 .. n
    OBVIOUS
  <2>3. QED
    BY <2>1, <2>2
<1>3. QED
  BY <1>1, <1>2 DEF Remembers

\* The server enters a new world: its map counter is remembered, and the oldest
\* one is forgotten, if there was no room.
LEMMA RemembersNew ==
    ASSUME NEW L, NEW M, NEW n \in Nat, NEW y \in Nat,
           \A k \in 0 .. n : MapAt(M, k) = MapAt(L, k) /\ MapAt(L, k) \in Nat,
           MapAt(M, n + 1) = y, MapAt(L, n) < y, Remembers(L, n, allMaps)
    PROVE  Remembers(M, n + 1, AppendMapCounter(y))
<1>1. /\ allMaps \in Seq(Nat) /\ Len(allMaps) <= MaxMapCounters /\ Len(allMaps) \in Nat
      /\ DOMAIN allMaps = 1 .. Len(allMaps) /\ \A i \in DOMAIN allMaps : allMaps[i] \in Nat
      /\ \A i, j \in DOMAIN allMaps : i < j => allMaps[j] < allMaps[i]
      /\ \A i \in DOMAIN allMaps : allMaps[i] <= MapAt(L, n)
      /\ \A k \in 0 .. n : \/ \E i \in DOMAIN allMaps : allMaps[i] = MapAt(L, k)
                           \/ Len(allMaps) = MaxMapCounters /\ \A i \in DOMAIN allMaps : MapAt(L, k) < allMaps[i]
  BY DEF Remembers
<1>2. MaxMapCounters \in Nat /\ MaxMapCounters > 0
  BY BoundsAssumption
<1>3. PICK z : z = IF Len(allMaps) = MaxMapCounters THEN MaxMapCounters ELSE Len(allMaps) + 1
  OBVIOUS
<1>4. z \in Nat /\ z >= 1 /\ z <= Len(allMaps) + 1 /\ z <= MaxMapCounters /\ (z = Len(allMaps) + 1 \/ z = MaxMapCounters)
  <2>1. PICK l \in Nat : l = Len(allMaps)
    BY <1>1
  <2>2. l <= MaxMapCounters /\ z = IF l = MaxMapCounters THEN MaxMapCounters ELSE l + 1
    BY <1>1, <1>3, <2>1
  <2>3. z \in Nat /\ z >= 1 /\ z <= l + 1 /\ z <= MaxMapCounters /\ (z = l + 1 \/ z = MaxMapCounters)
    BY ONLY <1>2, <2>2, l \in Nat
  <2>4. QED
    BY <2>1, <2>3
<1>5. PICK r : r = AppendMapCounter(y)
  OBVIOUS
<1>6. /\ r \in Seq(Nat) /\ Len(r) = z /\ DOMAIN r = 1 .. z /\ r[1] = y
      /\ \A i \in 2 .. z : i - 1 \in DOMAIN allMaps /\ r[i] = allMaps[i - 1]
  <2> DEFINE q == <<y>> \o allMaps
  <2>1. /\ q \in Seq(Nat) /\ Len(q) = Len(allMaps) + 1 /\ q[1] = y
        /\ \A i \in 2 .. Len(allMaps) + 1 : q[i] = allMaps[i - 1]
    BY <1>1
  <2>2. r = SubSeq(q, 1, z)
    BY <1>3, <1>5 DEF AppendMapCounter
  <2> HIDE DEF q
  <2>3. /\ r \in Seq(Nat) /\ Len(r) = z /\ DOMAIN r = 1 .. z /\ \A i \in 1 .. z : r[i] = q[i]
    BY <1>1, <1>4, <2>1, <2>2
  <2>4. 1 \in 1 .. z /\ \A i \in 2 .. z : i \in 1 .. z /\ i \in 2 .. Len(allMaps) + 1 /\ i - 1 \in 1 .. Len(allMaps)
    BY <1>1, <1>4
  <2>5. QED
    BY <1>1, <2>1, <2>3, <2>4
<1>7. MapAt(L, n) \in Nat /\ \A i \in 1 .. z : i = 1 \/ i \in 2 .. z
  <2>1. n \in 0 .. n
    OBVIOUS
  <2>2. QED
    BY <1>4, <2>1
<1>8. \A i \in DOMAIN allMaps : allMaps[i] < y
  <2>1. \A a \in Nat : a <= MapAt(L, n) => a < y
    BY <1>7
  <2>2. QED
    BY <1>1, <2>1
<1>9. ASSUME NEW i \in DOMAIN r, NEW j \in DOMAIN r, i < j PROVE r[j] < r[i]
  <2>1. j \in 2 .. z
    BY <1>4, <1>6, <1>9
  <2>2. CASE i = 1
    BY <1>6, <1>8, <2>1, <2>2
  <2>3. CASE i # 1
    <3>1. i \in 2 .. z /\ i - 1 < j - 1
      BY <1>4, <1>6, <1>9, <2>3
    <3>2. QED
      BY <1>1, <1>6, <2>1, <3>1
  <2>4. QED
    BY <2>2, <2>3
<1>10. ASSUME NEW i \in DOMAIN r PROVE r[i] <= y
  <2>1. \A a \in Nat : (a < y => a <= y) /\ y <= y
    OBVIOUS
  <2>2. QED
    BY <1>1, <1>6, <1>7, <1>8, <2>1
<1>11. ASSUME NEW k \in 0 .. n + 1
       PROVE  \/ \E i \in DOMAIN r : r[i] = MapAt(M, k)
              \/ Len(r) = MaxMapCounters /\ \A i \in DOMAIN r : MapAt(M, k) < r[i]
  <2>1. CASE k = n + 1
    <3>1. 1 \in DOMAIN r
      BY <1>4, <1>6
    <3>2. QED
      BY <1>6, <2>1, <3>1
  <2>2. CASE k # n + 1
    <3>1. k \in 0 .. n /\ MapAt(M, k) = MapAt(L, k) /\ MapAt(L, k) \in Nat
      <4>1. k \in 0 .. n
        BY <2>2
      <4>2. QED
        BY <4>1
    <3>2. CASE \E i \in DOMAIN allMaps : i + 1 <= z /\ allMaps[i] = MapAt(L, k)
      <4>1. PICK i \in DOMAIN allMaps : i + 1 <= z /\ allMaps[i] = MapAt(L, k)
        BY <3>2
      <4>a. i \in Nat /\ i >= 1
        BY <1>1
      <4>2. i + 1 \in 2 .. z /\ i + 1 \in 1 .. z /\ (i + 1) - 1 = i
        BY ONLY <1>4, <4>1, <4>a
      <4>3. r[i + 1] = allMaps[i]
        BY <1>6, <4>2
      <4>4. QED
        BY <1>6, <3>1, <4>1, <4>2, <4>3
    <3>3. CASE ~\E i \in DOMAIN allMaps : i + 1 <= z /\ allMaps[i] = MapAt(L, k)
      <4>1. \A i \in DOMAIN allMaps : i + 1 <= z => MapAt(L, k) < allMaps[i]
        <5>1. CASE \E i \in DOMAIN allMaps : allMaps[i] = MapAt(L, k)
          <6>1. PICK i \in DOMAIN allMaps : allMaps[i] = MapAt(L, k)
            BY <5>1
          <6>2. \A j \in DOMAIN allMaps : j + 1 <= z => j < i
            <7>1. ~(i + 1 <= z)
              BY <3>3, <6>1
            <7>2. i \in Nat /\ \A j \in DOMAIN allMaps : j \in Nat
              BY <1>1
            <7>3. QED
              BY <1>4, <7>1, <7>2
          <6>3. QED
            BY <1>1, <6>1, <6>2
        <5>2. CASE ~\E i \in DOMAIN allMaps : allMaps[i] = MapAt(L, k)
          BY <1>1, <3>1, <5>2
        <5>3. QED
          BY <5>1, <5>2
      <4>2. z = MaxMapCounters
        <5>1. CASE \E i \in DOMAIN allMaps : allMaps[i] = MapAt(L, k)
          <6>1. PICK i \in DOMAIN allMaps : allMaps[i] = MapAt(L, k)
            BY <5>1
          <6>2. ~(i + 1 <= z)
            BY <3>3, <6>1
          <6>3. i \in Nat /\ i <= Len(allMaps)
            BY <1>1
          <6>4. QED
            BY <1>1, <1>4, <6>2, <6>3
        <5>2. CASE ~\E i \in DOMAIN allMaps : allMaps[i] = MapAt(L, k)
          <6>1. Len(allMaps) = MaxMapCounters
            BY <1>1, <3>1, <5>2
          <6>2. QED
            BY <1>3, <6>1
        <5>3. QED
          BY <5>1, <5>2
      <4>3. MapAt(L, k) < y
        <5>1. \/ \E i \in DOMAIN allMaps : allMaps[i] = MapAt(L, k)
              \/ Len(allMaps) = MaxMapCounters /\ \A i \in DOMAIN allMaps : MapAt(L, k) < allMaps[i]
          BY <1>1, <3>1
        <5>2. CASE \E i \in DOMAIN allMaps : allMaps[i] = MapAt(L, k)
          BY <1>8, <5>2
        <5>3. CASE Len(allMaps) = MaxMapCounters /\ \A i \in DOMAIN allMaps : MapAt(L, k) < allMaps[i]
          <6>1. 1 \in DOMAIN allMaps
            BY <1>1, <1>2, <5>3
          <6>2. MapAt(L, k) < allMaps[1] /\ allMaps[1] < y /\ allMaps[1] \in Nat
            BY <1>1, <1>8, <5>3, <6>1
          <6>3. QED
            BY <3>1, <6>2
        <5>4. QED
          BY <5>1, <5>2, <5>3
      <4>4. ASSUME NEW i \in DOMAIN r PROVE MapAt(L, k) < r[i]
        <5>1. CASE i = 1
          BY <1>6, <4>3, <5>1
        <5>2. CASE i # 1
          <6>1. i \in 2 .. z
            BY <1>6, <1>7, <5>2
          <6>2. i - 1 \in DOMAIN allMaps /\ (i - 1) + 1 <= z /\ r[i] = allMaps[i - 1]
            BY <1>6, <6>1
          <6>3. QED
            BY <4>1, <6>2
        <5>3. QED
          BY <5>1, <5>2
      <4>5. QED
        BY <1>6, <3>1, <4>2, <4>4
    <3>4. QED
      BY <3>2, <3>3
  <2>3. QED
    BY <2>1, <2>2
<1>12. Remembers(M, n + 1, r)
  BY <1>4, <1>6, <1>9, <1>10, <1>11 DEF Remembers
<1>13. QED
  BY <1>5, <1>12

\* The server sends the command x to everybody, itself included.
LEMMA SendServer ==
    ASSUME TypeOK, NEW L \in Seq(LogCmd), ServerWorldInv(L), NEW x \in LogCmd,
           x.map = sMap, x.step = sStep + 1, PacketOK(L, x, sStep),
           nextMap' \in Nat, nextMap <= nextMap', x.kind = "sync" => x.newMap = nextMap /\ nextMap < nextMap',
           sQueue' = CommandQueueAppend(sQueue, x), sStep' = sStep, sMap' = sMap, sWorld' = sWorld, sChk' = sChk,
           allMaps' = allMaps
    PROVE  \E M \in Seq(LogCmd) : Sent(M, L, x) /\ ServerWorldInv(M)'
<1> DEFINE n == Len(sWorld)
<1>1. /\ sQueue \in Seq(WorldCmd) /\ sQueue \in Seq(ServerPacket) /\ sStep \in Nat /\ nextMap \in Nat
      /\ sMap \in Nat /\ sMap < nextMap /\ n \in 0 .. Len(L) /\ Len(L) \in Nat
      /\ \A i \in DOMAIN sQueue : sQueue[i].step \in Nat /\ sQueue[i].step <= sStep + 1
      /\ \A i \in DOMAIN L : i > n => L[i].map = sMap /\ L[i].step <= sStep + 1
  BY ServerFacts
<1>2. /\ LogOK(L) /\ nextMap > 1 /\ \A i \in DOMAIN L : NextMap(L[i]) < nextMap
      /\ sWorld = WorldOf(L, n) /\ sMap = MapAt(L, n) /\ \A i \in 1 .. n : L[i].step <= sStep
      /\ StreamOK(L, sQueue, n, Nat, sStep)
      /\ \A i \in DOMAIN sQueue : sQueue[i].map = sMap
      /\ \A s \in 0 .. sStep : s + ChecklistCount > sStep => Chk(L, s, LCHKLST(sChk, s))
  BY DEF ServerWorldInv, At
<1>3. DOMAIN L = 1 .. Len(L) /\ \A i \in DOMAIN L : L[i].step \in Nat /\ L[i] \in LogCmd
  BY LogFacts
<1>4. x \in WorldCmd /\ x \in ServerPacket
  BY DEF LogCmd, WorldCmd, ServerPacket
<1>5. sQueue' = Append(sQueue, x)
  BY <1>1, <1>4, QueueAppendLast
<1> HIDE DEF n
<1>6. \A i \in DOMAIN L : L[i].step <= sStep + 1
  <2>1. ASSUME NEW i \in DOMAIN L PROVE L[i].step <= sStep + 1
    <3>1. CASE i > n
      BY <1>1, <3>1
    <3>2. CASE ~(i > n)
      <4>1. i \in 1 .. n
        BY <1>1, <1>3, <3>2
      <4>2. L[i].step \in Nat /\ L[i].step <= sStep
        BY <1>2, <1>3, <4>1
      <4>3. QED
        BY <1>1, <4>2
    <3>3. QED
      BY <3>1, <3>2
  <2>2. QED
    BY <2>1
<1>7. PICK M : Sent(M, L, x)
  <2>1. CASE \E k \in DOMAIN L : k > n /\ L[k].kind = "sync"
    <3>1. Sent(L, L, x)
      BY <1>1, <1>6, <2>1 DEF Sent
    <3>2. QED
      BY <3>1
  <2>2. CASE ~\E k \in DOMAIN L : k > n /\ L[k].kind = "sync"
    <3>1. x.map = MapAt(L, Len(L))
      <4>1. CASE Len(L) = n
        BY <1>2, <4>1
      <4>2. CASE Len(L) # n
        <5>a. Len(L) \in Nat /\ n \in Nat /\ n <= Len(L)
          BY <1>1
        <5>b. Len(L) > n /\ Len(L) # 0 /\ Len(L) >= 1
          BY <4>2, <5>a
        <5>1. Len(L) \in DOMAIN L /\ Len(L) > n /\ Len(L) # 0
          BY <1>3, <5>a, <5>b
        <5>2. L[Len(L)].kind # "sync" /\ L[Len(L)].map = sMap
          BY <1>1, <2>2, <5>1
        <5>3. MapAt(L, Len(L)) = NextMap(L[Len(L)])
          BY <5>1 DEF MapAt
        <5>4. NextMap(L[Len(L)]) = L[Len(L)].map
          BY <5>2 DEF NextMap
        <5>5. QED
          BY <5>2, <5>3, <5>4
      <4>3. QED
        BY <4>1, <4>2
    <3>2. x.kind = "sync" => x.map < x.newMap
      BY <1>1
    <3>3. \A i \in DOMAIN L : L[i].step <= x.step
      BY <1>6
    <3>4. Sent(Append(L, x), L, x)
      BY <3>1, <3>2, <3>3 DEF Sent
    <3>5. QED
      BY <3>4
  <2>3. QED
    BY <2>1, <2>2
<1>8. /\ M \in Seq(LogCmd) /\ LogOK(M) /\ Revises(M, L, Len(L), sStep + 1)
      /\ Len(L) <= Len(M) /\ \A i \in DOMAIN M : i \in DOMAIN L \/ M[i] = x
      /\ \A i \in DOMAIN L : i \in DOMAIN M /\ M[i] = L[i]
      /\ n \in 0 .. Len(M) /\ MapAt(M, n) = MapAt(L, n) /\ WorldOf(M, n) = WorldOf(L, n)
  BY <1>1, <1>2, <1>7, SentFacts
<1>9. NextMap(x) < nextMap'
  BY <1>1 DEF NextMap
<1>10. \A i \in DOMAIN M : NextMap(M[i]) < nextMap'
  <2>1. \A i \in DOMAIN L : NextMap(L[i]) \in Nat
    BY LogFacts
  <2>2. \A i \in DOMAIN L : NextMap(L[i]) < nextMap'
    BY <1>1, <1>2, <2>1
  <2>3. QED
    BY <1>8, <1>9, <2>2
<1>11. At(M, n, sWorld, sMap, sStep)
  <2>1. \A i \in 1 .. n : M[i].step <= sStep
    BY <1>1, <1>2, <1>3, <1>8
  <2>2. QED
    BY <1>2, <1>8, <2>1 DEF At
<1>12. StreamOK(M, Append(sQueue, x), n, Nat, sStep)
  BY <1>1, <1>2, <1>7, StreamSend
<1>13. \A i \in DOMAIN Append(sQueue, x) : Append(sQueue, x)[i].map = sMap
  <2>1. \A i \in DOMAIN Append(sQueue, x) : Append(sQueue, x)[i] = x \/ (i \in DOMAIN sQueue /\ Append(sQueue, x)[i] = sQueue[i])
    BY <1>1, <1>4, AppendFacts
  <2>2. QED
    BY <1>2, <2>1
<1>14. \A s \in 0 .. sStep : s + ChecklistCount > sStep => Chk(M, s, LCHKLST(sChk, s))
  <2>1. ASSUME NEW s \in 0 .. sStep, s + ChecklistCount > sStep PROVE Chk(M, s, LCHKLST(sChk, s))
    <3>1. sStep + 1 \in Nat /\ s \in Nat /\ s <= sStep + 1 /\ Chk(L, s, LCHKLST(sChk, s))
      BY <1>1, <1>2, <2>1
    <3>2. QED
      BY <1>8, <3>1, ChkKept
  <2>2. QED
    BY <2>1
<1>15. ServerWorldInv(M)'
  <2>1. nextMap' > 1
    BY <1>1, <1>2
  <2>2. Remembers(M, n, allMaps)
    <3>1. Remembers(L, n, allMaps)
      BY DEF ServerWorldInv, n
    <3>2. \A k \in 0 .. n : MapAt(M, k) = MapAt(L, k)
      BY <1>1, <1>3, <1>8 DEF MapAt
    <3>3. n \in Nat /\ n <= n /\ \A k \in 0 .. n : ~(k > n)
      BY <1>1
    <3>4. QED
      BY <3>1, <3>2, <3>3, RemembersKept
  <2>3. QED
    BY <1>5, <1>8, <1>10, <1>11, <1>12, <1>13, <1>14, <2>1, <2>2 DEF ServerWorldInv, n
<1>16. QED
  BY <1>7, <1>8, <1>15

-----------------------------------------------------------------------------
(* The steps of a client. *)

\* The invariant, from its parts.
LEMMA WorldFrom ==
    ASSUME NEW M \in Seq(LogCmd), NEW g \in [Client -> Nat], ServerWorldInv(M)',
           \A d \in Client : SeatInv(d, g[d])' /\ FollowInv(d, M, g[d])'
    PROVE  WorldInv'
<1>1. WInv(M, g)'
  BY DEF WInv
<1>2. QED
  BY <1>1 DEF WorldInv

\* A step of the client c: what is near stays near, and it awaits nothing new.
LEMMA Turn ==
    ASSUME TypeOK, NEW L \in Seq(LogCmd), NEW reach \in [Client -> Nat], WInv(L, reach), NEW c \in Client,
           UNCHANGED <<sStep, sMap, sQueue, sWorld, sChk, sPaused, allMaps, nextMap, slot, sendq>>,
           \A d \in Client \ {c} : /\ toClient'[d] = toClient[d] /\ toServer'[d] = toServer[d]
                                   /\ client'[d] = client[d] /\ why'[d] = why[d]
                                   /\ IsClean(d)' => IsClean(d),
           JoinInv(client'[c], toClient'[c], toServer'[c]), Awaits(c)' => Awaits(c),
           client'[c].barrier \in Near(c, reach[c]),
           \A i \in DOMAIN toClient'[c] : Clock(toClient'[c][i]) \in Near(c, reach[c]),
           FollowInv(c, L, reach[c])'
    PROVE  WorldInv'
<1>1. ServerWorldInv(L)'
  BY DEF WInv, ServerWorldInv
<1>2. ASSUME NEW d \in Client, d # c PROVE SeatInv(d, reach[d])' /\ FollowInv(d, L, reach[d])'
  <2>1. SeatInv(d, reach[d]) /\ FollowInv(d, L, reach[d])
    BY DEF WInv
  <2>2. QED
    BY <1>2, <2>1, Elsewhere
<1>3. SeatInv(c, reach[c])'
  <2>1. SeatInv(c, reach[c]) /\ (Active(c)' <=> Active(c))
    BY DEF WInv, Active
  <2>2. ~Active(c) => /\ client'[c].barrier <= reach[c]
                      /\ \A i \in DOMAIN toClient'[c] : Clock(toClient'[c][i]) <= reach[c]
    BY DEF Near
  <2>3. QED
    BY <2>1, <2>2 DEF SeatInv
<1>4. QED
  BY <1>1, <1>2, <1>3, WorldFrom

\* A client outside of a game, or whose simulation is not the server's any more,
\* follows nothing as long as it awaits nothing.
LEMMA FollowsNot ==
    ASSUME NEW L, NEW r, NEW c,
           \A g \in DOMAIN toClient'[c] : ~Expects(client'[c], toClient'[c], g),
           IsClean(c)' => why'[c] \notin {"desync", "kicked"} /\ Says(L, sStep', toServer'[c]) /\ ~InGame(c)'
    PROVE  FollowInv(c, L, r)'
  BY DEF FollowInv, Games

\* In a game no game is awaited.
LEMMA InGameFacts ==
    ASSUME NEW m, m.state = "ingame", NEW tc
    PROVE  /\ \A g \in DOMAIN tc : ~Expects(m, tc, g)
           /\ \A L, N, S, sq : Games(L, N, S, m, tc, sq)
  BY DEF Expects, Games

\* The client takes a packet off the wire.
LEMMA GamesTail ==
    ASSUME NEW L, NEW N, NEW S, NEW m, NEW n, NEW tc \in Seq(ServerPacket), tc # <<>>, NEW sq,
           Games(L, N, S, m, tc, sq),
           \A h \in DOMAIN Tail(tc) : Expects(n, Tail(tc), h) => Expects(m, tc, h + 1)
    PROVE  /\ Games(L, N, S, n, Tail(tc), sq)
           /\ (\E h \in DOMAIN Tail(tc) : Expects(n, Tail(tc), h)) => \E g \in DOMAIN tc : Expects(m, tc, g)
<1>1. \A h \in DOMAIN Tail(tc) : h \in Nat /\ h > 0 /\ h + 1 \in DOMAIN tc /\ Tail(tc)[h] = tc[h + 1]
  BY TailFacts
<1>2. ASSUME NEW h \in DOMAIN Tail(tc), Expects(n, Tail(tc), h)
      PROVE  Fresh(L, N, S, Tail(tc)[h].world, After(Tail(tc), h) \o sq)
  <2>1. Expects(m, tc, h + 1) /\ h + 1 \in DOMAIN tc /\ Tail(tc)[h] = tc[h + 1] /\ h \in Nat /\ h > 0
    BY <1>1, <1>2
  <2>2. After(Tail(tc), h) = After(tc, h + 1)
    <3>1. <<>> \in Seq(ServerPacket)
      OBVIOUS
    <3>2. \A g \in DOMAIN tc : \A k \in Nat : k > 0 /\ g = k + 1 => After(Tail(tc), k) = After(tc, g)
      BY <3>1, AfterLaws
    <3>3. QED
      BY <2>1, <3>2
  <2>3. Fresh(L, N, S, tc[h + 1].world, After(tc, h + 1) \o sq)
    BY <2>1 DEF Games
  <2>4. QED
    BY <2>1, <2>2, <2>3
<1>3. QED
  BY <1>1, <1>2 DEF Games

\* What was said of the NWC_READY under way holds of the rest.
LEMMA HandshakeTail ==
    ASSUME NEW L, NEW m, NEW tc \in Seq(ServerPacket), tc # <<>>, NEW ts, Handshake(L, m, tc, ts),
           NEW n, n.paused = m.paused, n.step = m.step, n.map = m.map
    PROVE  Handshake(L, n, Tail(tc), ts)
<1>1. \A i \in DOMAIN Tail(tc) : i + 1 \in DOMAIN tc /\ Tail(tc)[i] = tc[i + 1] /\ i \in Nat
  BY TailFacts
<1>2. ASSUME NEW i \in DOMAIN Tail(tc), Tail(tc)[i].kind = "ready"
      PROVE  /\ n.paused /\ Tail(tc)[i].step = n.step /\ Tail(tc)[i].map = n.map
             /\ Chk(L, Tail(tc)[i].step, Tail(tc)[i].chk)
             /\ \A j \in DOMAIN Tail(tc) : Tail(tc)[j].kind = "ready" => j = i
             /\ \A j \in DOMAIN ts : ts[j].kind # "ready"
  <2>1. PICK h \in DOMAIN tc : h = i + 1 /\ tc[h] = Tail(tc)[i]
    BY <1>1
  <2>2. /\ m.paused /\ tc[h].step = m.step /\ tc[h].map = m.map /\ Chk(L, tc[h].step, tc[h].chk)
        /\ \A j \in DOMAIN tc : tc[j].kind = "ready" => j = h
        /\ \A j \in DOMAIN ts : ts[j].kind # "ready"
    BY <1>2, <2>1 DEF Handshake
  <2>3. ASSUME NEW j \in DOMAIN Tail(tc), Tail(tc)[j].kind = "ready" PROVE j = i
    <3>1. j + 1 = h /\ i \in Nat /\ j \in Nat
      BY <1>1, <2>2, <2>3
    <3>2. QED
      BY <2>1, <3>1
  <2>4. QED
    BY <2>1, <2>2, <2>3
<1>3. \A i \in DOMAIN ts : ts[i].kind = "ready" =>
          /\ n.paused /\ ts[i].step = n.step /\ ts[i].map = n.map
          /\ \A j \in DOMAIN ts : ts[j].kind = "ready" => j = i
  BY DEF Handshake
<1>4. QED
  BY <1>2, <1>3 DEF Handshake

\* The client says more: an end of the connection, or a checklist that is right.
LEMMA SaysMore ==
    ASSUME NEW L, NEW S, NEW ts \in Seq(ClientPacket), Says(L, S, ts), NEW x \in ClientPacket,
           x.kind = "tool" => x.lastStep <= S /\ Chk(L, x.lastStep, x.lastChk),
           x.kind = "ready" => x.step <= S /\ Chk(L, x.step, x.chk)
    PROVE  Says(L, S, Append(ts, x))
<1> DEFINE u == Append(ts, x)
<1>1. \A i \in DOMAIN u : (i \in DOMAIN ts /\ u[i] = ts[i]) \/ u[i] = x
  BY AppendFacts
<1> HIDE DEF u
<1>2. Says(L, S, u)
  BY <1>1 DEF Says
<1>3. QED
  BY <1>2 DEF u

\* A client leaves, for a desync only if it diverged.
LEMMA LeaveTurn ==
    ASSUME TypeOK, TypeOK', NEW L \in Seq(LogCmd), NEW reach \in [Client -> Nat], WInv(L, reach),
           NEW c \in Client, NEW reason, LeaveNow(c, reason), reason # "kicked",
           reason = "desync" => ~IsClean(c),
           UNCHANGED <<serverVars, sendq, glitches, lost>>
    PROVE  WorldInv'
<1> USE DEF serverVars
<1>1. /\ client'[c] = Outside("offline", 0) /\ toClient'[c] = <<>> /\ toServer'[c] = Append(toServer[c], EOF)
      /\ why'[c] = (IF reason = "ok" THEN why[c] ELSE reason)
      /\ \A d \in Client \ {c} : /\ toClient'[d] = toClient[d] /\ toServer'[d] = toServer[d]
                                 /\ client'[d] = client[d] /\ why'[d] = why[d]
  BY DEF LeaveNow, TypeOK
<1>2. \A d \in Client : IsClean(d)' <=> IsClean(d)
  BY DEF IsClean
<1>3. client'[c].state = "offline" /\ client'[c].barrier = 0
  BY <1>1 DEF Outside, Reset
<1>4. DOMAIN toClient'[c] = {}
  BY <1>1
<1>5. JoinInv(client'[c], toClient'[c], toServer'[c])
  BY <1>3 DEF JoinInv
<1>6. ~Awaits(c)'
  BY <1>3, <1>4 DEF Awaits, InGame
<1>7. client'[c].barrier \in Near(c, reach[c])
  BY <1>3 DEF Near
<1>8. FollowInv(c, L, reach[c])'
  <2>1. ASSUME IsClean(c) PROVE why'[c] \notin {"desync", "kicked"} /\ Says(L, sStep', toServer'[c])
    <3>1. why[c] \notin {"desync", "kicked"} /\ Says(L, sStep, toServer[c])
      BY <2>1 DEF WInv, FollowInv
    <3>2. toServer[c] \in Seq(ClientPacket) /\ EOF \in ClientPacket /\ EOF.kind = "eof"
      BY ClientTypes DEF EOF, ClientPacket
    <3>3. Says(L, sStep, Append(toServer[c], EOF))
      BY <3>1, <3>2, SaysMore
    <3>4. QED
      BY <1>1, <2>1, <3>1, <3>3
  <2>2. QED
    BY <1>2, <1>3, <1>4, <2>1, FollowsNot DEF InGame
<1>9. QED
  BY <1>1, <1>2, <1>4, <1>5, <1>6, <1>7, <1>8, Turn

\* A client opens a connection.
LEMMA ConnectTurn ==
    ASSUME TypeOK, TypeOK', NEW L \in Seq(LogCmd), NEW reach \in [Client -> Nat], WInv(L, reach),
           NEW c \in Client, Connect(c)
    PROVE  WorldInv'
<1>1. /\ client'[c] = Outside("waitJoin", 0) /\ toClient'[c] = <<>> /\ toServer'[c] = <<[kind |-> "join"]>>
      /\ why'[c] = "ok" /\ slot[c] = "inactive" /\ slot'[c] = "connected"
      /\ \A d \in Client \ {c} : /\ toClient'[d] = toClient[d] /\ toServer'[d] = toServer[d]
                                 /\ client'[d] = client[d] /\ why'[d] = why[d] /\ slot'[d] = slot[d]
                                 /\ IsClean(d)' => IsClean(d)
      /\ sendq' = sendq
  BY DEF Connect, TypeOK, IsClean
<1>2. client'[c].state = "waitJoin" /\ client'[c].barrier = 0 /\ DOMAIN toClient'[c] = {}
  BY <1>1 DEF Outside, Reset
<1>3. ServerWorldInv(L)'
  BY DEF Connect, WInv, ServerWorldInv
<1>4. ASSUME NEW d \in Client, d # c PROVE SeatInv(d, reach[d])' /\ FollowInv(d, L, reach[d])'
  <2>1. SeatInv(d, reach[d]) /\ FollowInv(d, L, reach[d])
    BY DEF WInv
  <2>2. sStep' = sStep /\ sPaused' = sPaused /\ sQueue' = sQueue
    BY DEF Connect
  <2>3. QED
    BY <1>1, <1>4, <2>1, <2>2, Elsewhere
<1>5. JoinInv(client'[c], toClient'[c], toServer'[c])
  BY <1>1, <1>2 DEF JoinInv
<1>6. ~Awaits(c)'
  BY <1>2 DEF Awaits, InGame
<1>7. SeatInv(c, reach[c])'
  <2>1. reach[c] <= sStep' /\ Active(c)' /\ sendq'[c] = <<>>
    BY <1>1 DEF WInv, SeatInv, Active, Connect
  <2>2. QED
    BY <1>5, <1>6, <2>1 DEF SeatInv
<1>8. FollowInv(c, L, reach[c])'
  <2>1. Says(L, sStep', toServer'[c])
    BY <1>1 DEF Says
  <2>2. QED
    BY <1>1, <1>2, <2>1, FollowsNot DEF InGame
<1>9. QED
  BY <1>3, <1>4, <1>7, <1>8, WorldFrom

\* A client that is about to load the game hears a packet, and does no more than
\* change its state.
LEMMA WaitTurn ==
    ASSUME TypeOK, TypeOK', LockstepInv, NEW L \in Seq(LogCmd), NEW reach \in [Client -> Nat], WInv(L, reach),
           NEW c \in Client, ~InGame(c), toClient[c] # <<>>, CliTake(c), UNCHANGED toServer,
           UNCHANGED <<serverVars, sendq, glitches, lost, why>>,
           \A d \in Client \ {c} : client'[d] = client[d], ~InGame(c)',
           client'[c].barrier \in {0, client[c].barrier},
           JoinInv(client'[c], Tail(toClient[c]), toServer[c]),
           \A h \in DOMAIN Tail(toClient[c]) :
              Expects(client'[c], Tail(toClient[c]), h) => Expects(client[c], toClient[c], h + 1)
    PROVE  WorldInv'
<1> USE DEF serverVars
<1> DEFINE N == Near(c, reach[c])
           tc == toClient[c]
<1>1. toClient'[c] = Tail(tc) /\ \A d \in Client \ {c} : toClient'[d] = toClient[d]
  BY DEF CliTake, TypeOK
<1>2. SeatInv(c, reach[c]) /\ FollowInv(c, L, reach[c]) /\ reach[c] \in Nat
  BY DEF WInv
<1>3. /\ Downward(N) /\ N \subseteq Nat /\ client[c].barrier \in N /\ \A i \in DOMAIN tc : Clock(tc[i]) \in N
      /\ tc \in Seq(ServerPacket)
  BY <1>2, NearFacts
<1>4. \A d \in Client : IsClean(d)' <=> IsClean(d)
  BY DEF IsClean
<1>5. 0 \in N
  BY DEF Near
<1>6. Games(L, N, sStep, client[c], tc, sendq[c])
  BY <1>2 DEF FollowInv
<1> HIDE DEF N, tc
<1>7. /\ Games(L, N, sStep, client'[c], Tail(tc), sendq[c])
      /\ (\E h \in DOMAIN Tail(tc) : Expects(client'[c], Tail(tc), h)) => \E g \in DOMAIN tc : Expects(client[c], tc, g)
  BY <1>3, <1>6, GamesTail DEF tc
<1>8. Awaits(c)' => Awaits(c)
  BY <1>1, <1>7 DEF Awaits, InGame, tc
<1>9. \A i \in DOMAIN toClient'[c] : Clock(toClient'[c][i]) \in N
  <2>1. \A i \in DOMAIN Tail(tc) : i + 1 \in DOMAIN tc /\ Tail(tc)[i] = tc[i + 1]
    BY <1>3, TailFacts DEF tc
  <2>2. QED
    BY <1>1, <1>3, <2>1
<1>10. FollowInv(c, L, reach[c])'
  <2>1. Near(c, reach[c])' = N
    BY DEF N, Near, Active
  <2>2. IsClean(c)' => why'[c] \notin {"desync", "kicked"} /\ Says(L, sStep', toServer'[c]) /\ ~InGame(c)'
    BY <1>2, <1>4 DEF FollowInv
  <2>3. QED
    BY <1>1, <1>7, <2>1, <2>2 DEF FollowInv
<1>11. client'[c].barrier \in N
  BY <1>3, <1>5
<1>12. QED
  BY <1>1, <1>4, <1>8, <1>9, <1>10, <1>11, Turn DEF N, tc

\* network_connect waits for the answer, for NWC_SYNC or for the game, and throws
\* everything else away.
LEMMA JoinTurn ==
    ASSUME TypeOK, TypeOK', LockstepInv, NEW L \in Seq(LogCmd), NEW reach \in [Client -> Nat], WInv(L, reach),
           NEW c \in Client, CliJoin(c) \/ CliSync(c) \/ CliDiscard(c)
    PROVE  WorldInv'
<1> USE DEF serverVars, ghostVars
<1> DEFINE tc == toClient[c]
           m == client[c]
<1>1. CASE Leave(c, "ok")
  BY <1>1, LeaveTurn DEF Leave
<1>2. JoinInv(m, tc, toServer[c]) /\ tc \in Seq(ServerPacket) /\ m.barrier \in Nat
  BY ClientTypes DEF WInv, SeatInv
<1>3. ASSUME tc # <<>>
      PROVE  \A i \in DOMAIN Tail(tc) : i + 1 \in DOMAIN tc /\ Tail(tc)[i] = tc[i + 1] /\ i \in Nat /\ i > 0
  BY <1>2, <1>3, TailFacts
<1>4. ASSUME CliDiscard(c), ~Leave(c, "ok") PROVE WorldInv'
  <2>1. /\ m.state \in {"waitJoin", "waitSync", "waitGame"} /\ tc # <<>>
        /\ CliTake(c) /\ UNCHANGED <<serverVars, sendq, toServer, client, ghostVars>>
        /\ m.state = "waitJoin" => Head(tc).kind # "join"
    BY <1>4 DEF CliDiscard
  <2>2. ~InGame(c) /\ ~InGame(c)'
    BY <2>1 DEF InGame
  <2>3. JoinInv(m, Tail(tc), toServer[c])
    <3>1. ASSUME \A i, j \in DOMAIN tc : tc[i].kind = "join" /\ tc[j].kind = "join" => i = j
          PROVE  \A i, j \in DOMAIN Tail(tc) : Tail(tc)[i].kind = "join" /\ Tail(tc)[j].kind = "join" => i = j
      <4>1. ASSUME NEW i \in DOMAIN Tail(tc), NEW j \in DOMAIN Tail(tc),
                   Tail(tc)[i].kind = "join", Tail(tc)[j].kind = "join"
            PROVE  i = j
        <5>1. i + 1 = j + 1 /\ i \in Nat /\ j \in Nat
          BY <1>3, <2>1, <3>1, <4>1
        <5>2. QED
          BY <5>1
      <4>2. QED
        BY <4>1
    <3>2. ASSUME \A i \in DOMAIN tc : tc[i].kind # "join"
          PROVE  \A i \in DOMAIN Tail(tc) : Tail(tc)[i].kind # "join"
      BY <1>3, <2>1, <3>2
    <3>3. QED
      BY <1>2, <3>1, <3>2 DEF JoinInv
  <2>4. ASSUME NEW h \in DOMAIN Tail(tc), Expects(m, Tail(tc), h) PROVE Expects(m, tc, h + 1)
    <3>1. h \in Nat /\ tc[h + 1].kind = "game" /\ h + 1 \in DOMAIN tc
      BY <1>3, <2>1, <2>4 DEF Expects
    <3>2. CASE m.state = "waitJoin" /\ \E j \in DOMAIN Tail(tc) : j < h /\ Tail(tc)[j].kind = "join"
      <4>1. PICK j \in DOMAIN Tail(tc) : j < h /\ Tail(tc)[j].kind = "join"
        BY <3>2
      <4>2. j + 1 \in DOMAIN tc /\ tc[j + 1].kind = "join" /\ j + 1 < h + 1
        BY <1>3, <2>1, <3>1, <4>1
      <4>3. QED
        BY <3>1, <3>2, <4>2 DEF Expects
    <3>3. QED
      BY <2>4, <3>1, <3>2 DEF Expects
  <2>5. QED
    BY <2>1, <2>2, <2>3, <2>4, WaitTurn
<1>5. ASSUME CliJoin(c), ~Leave(c, "ok") PROVE WorldInv'
  <2>1. /\ m.state = "waitJoin" /\ tc # <<>> /\ Head(tc).kind = "join" /\ CliTake(c)
        /\ CliBecomes(c, Outside("waitSync", 0)) /\ UNCHANGED <<toServer, lost>>
    BY <1>5 DEF CliJoin, CliHead
  <2>2. /\ client'[c].state = "waitSync" /\ client'[c].barrier = 0
        /\ \A d \in Client \ {c} : client'[d] = client[d]
        /\ UNCHANGED <<serverVars, sendq, glitches, lost, why>>
    BY <2>1 DEF CliBecomes, TypeOK, Outside, Reset
  <2>3. 1 \in DOMAIN tc /\ tc[1].kind = "join"
    BY <1>2, <2>1, TailFacts
  <2>4. JoinInv(client'[c], Tail(tc), toServer[c])
    <3>1. toServer[c] = <<>> /\ \A i, j \in DOMAIN tc : tc[i].kind = "join" /\ tc[j].kind = "join" => i = j
      BY <1>2, <2>1, <2>3 DEF JoinInv
    <3>2. ASSUME NEW i \in DOMAIN Tail(tc) PROVE Tail(tc)[i].kind # "join"
      <4>1. i + 1 # 1 /\ i + 1 \in DOMAIN tc /\ Tail(tc)[i] = tc[i + 1]
        BY <1>3, <2>1
      <4>2. QED
        BY <2>3, <3>1, <4>1
    <3>3. QED
      BY <2>2, <3>1, <3>2 DEF JoinInv
  <2>5. ASSUME NEW h \in DOMAIN Tail(tc), Expects(client'[c], Tail(tc), h) PROVE Expects(m, tc, h + 1)
    <3>1. tc[h + 1].kind = "game" /\ 1 < h + 1
      BY <1>3, <2>1, <2>5 DEF Expects
    <3>2. QED
      BY <2>1, <2>3, <3>1 DEF Expects
  <2>6. ~InGame(c) /\ ~InGame(c)'
    BY <2>1, <2>2 DEF InGame
  <2>7. QED
    BY <2>1, <2>2, <2>4, <2>5, <2>6, WaitTurn
<1>6. ASSUME CliSync(c) PROVE WorldInv'
  <2>1. /\ m.state = "waitSync" /\ tc # <<>> /\ CliTake(c)
        /\ CliBecomes(c, Outside("waitGame", Head(tc).newMap)) /\ UNCHANGED <<toServer, lost>>
    BY <1>6 DEF CliSync, CliHead
  <2>2. /\ client'[c].state = "waitGame" /\ client'[c].barrier = 0
        /\ \A d \in Client \ {c} : client'[d] = client[d]
        /\ UNCHANGED <<serverVars, sendq, glitches, lost, why>>
    BY <2>1 DEF CliBecomes, TypeOK, Outside, Reset
  <2>3. JoinInv(client'[c], Tail(tc), toServer[c])
    BY <1>2, <1>3, <2>1, <2>2 DEF JoinInv
  <2>4. ASSUME NEW h \in DOMAIN Tail(tc), Expects(client'[c], Tail(tc), h) PROVE Expects(m, tc, h + 1)
    BY <1>3, <2>1, <2>4 DEF Expects
  <2>5. ~InGame(c) /\ ~InGame(c)'
    BY <2>1, <2>2 DEF InGame
  <2>6. QED
    BY <2>1, <2>2, <2>3, <2>4, <2>5, WaitTurn
<1>7. QED
  BY <1>1, <1>4, <1>5, <1>6

\* The client loads the game.
LEMMA GameTurn ==
    ASSUME TypeOK, TypeOK', LockstepInv, NEW L \in Seq(LogCmd), NEW reach \in [Client -> Nat], WInv(L, reach),
           NEW c \in Client, CliGame(c)
    PROVE  WorldInv'
<1> USE DEF serverVars, ghostVars
<1> DEFINE tc == toClient[c]
           m == client[c]
           N == Near(c, reach[c])
           n == Loaded(m.map, Head(tc).world)
<1>1. /\ m.state = "waitGame" /\ tc # <<>> /\ Head(tc).kind = "game" /\ CliTake(c)
      /\ CliBecomes(c, n) /\ UNCHANGED <<toServer, lost>>
  BY DEF CliGame, CliHead
<1>2. /\ client'[c] = n /\ toClient'[c] = Tail(tc)
      /\ \A d \in Client \ {c} : client'[d] = client[d] /\ toClient'[d] = toClient[d]
      /\ UNCHANGED <<serverVars, sendq, glitches, lost, why, toServer>>
  BY <1>1 DEF CliBecomes, CliTake, TypeOK
<1>3. /\ n.state = "ingame" /\ n.barrier = 0 /\ Loading(n) /\ n.world = Head(tc).world
  BY DEF Loaded, Reset, Loading
<1>4. SeatInv(c, reach[c]) /\ FollowInv(c, L, reach[c]) /\ reach[c] \in Nat
  BY DEF WInv
<1>5. /\ \A i \in DOMAIN tc : Clock(tc[i]) \in N
      /\ tc \in Seq(ServerPacket)
  BY <1>4, NearFacts
<1>6. /\ 1 \in DOMAIN tc /\ tc[1] = Head(tc)
      /\ \A i \in DOMAIN Tail(tc) : i + 1 \in DOMAIN tc /\ Tail(tc)[i] = tc[i + 1]
  BY <1>1, <1>5, TailFacts
<1>7. Expects(m, tc, 1)
  BY <1>1, <1>6 DEF Expects
<1>8. Awaits(c)
  BY <1>6, <1>7 DEF Awaits
<1>9. JoinInv(m, tc, toServer[c])
  BY <1>4 DEF SeatInv
<1>10. toServer[c] = <<>> /\ JoinInv(n, Tail(tc), toServer[c])
  <2>1. toServer[c] = <<>> /\ \A i \in DOMAIN tc : tc[i].kind # "join"
    BY <1>1, <1>9 DEF JoinInv
  <2> HIDE DEF n
  <2>2. QED
    BY <1>3, <1>6, <2>1 DEF JoinInv
<1>11. Fresh(L, N, sStep, n.world, Tail(tc) \o sendq[c])
  <2>1. <<>> \in Seq(ServerPacket)
    OBVIOUS
  <2>2. \A g \in DOMAIN tc : g = 1 => After(tc, g) = Tail(tc)
    BY <1>5, <2>1, AfterLaws
  <2>3. After(tc, 1) = Tail(tc)
    BY <1>6, <2>2
  <2>4. Fresh(L, N, sStep, tc[1].world, After(tc, 1) \o sendq[c])
    BY <1>4, <1>6, <1>7 DEF FollowInv, Games
  <2>5. QED
    BY <1>3, <1>6, <2>3, <2>4
<1> HIDE DEF n, N
<1>12. FollowInv(c, L, reach[c])'
  <2>1. Near(c, reach[c])' = N /\ (IsClean(c)' <=> IsClean(c)) /\ InGame(c)'
    BY <1>2, <1>3 DEF N, Near, Active, IsClean, InGame
  <2>2. Plays(L, N, sStep, n, Tail(tc), sendq[c], toServer[c])
    BY <1>3, <1>10, <1>11 DEF Plays
  <2>3. Games(L, N, sStep, n, Tail(tc), sendq[c])
    BY <1>3, InGameFacts
  <2>4. IsClean(c) => why[c] \notin {"desync", "kicked"} /\ Says(L, sStep, toServer[c])
    BY <1>4 DEF FollowInv
  <2>5. QED
    BY <1>2, <2>1, <2>2, <2>3, <2>4 DEF FollowInv
<1>13. n.barrier \in N /\ \A i \in DOMAIN Tail(tc) : Clock(Tail(tc)[i]) \in N
  BY <1>3, <1>5, <1>6 DEF N, Near
<1>14. \A d \in Client : IsClean(d)' <=> IsClean(d)
  BY <1>2 DEF IsClean
<1>15. QED
  BY <1>2, <1>8, <1>10, <1>12, <1>13, <1>14, Turn DEF N

\* A client in a game takes a packet, or works on what it has, or says something.
LEMMA PlayTurn ==
    ASSUME TypeOK, TypeOK', LockstepInv, NEW L \in Seq(LogCmd), NEW reach \in [Client -> Nat], WInv(L, reach),
           NEW c \in Client, InGame(c), InGame(c)',
           UNCHANGED <<serverVars, sendq, why>>,
           \A d \in Client \ {c} : /\ toClient'[d] = toClient[d] /\ toServer'[d] = toServer[d]
                                   /\ client'[d] = client[d] /\ (IsClean(d)' => IsClean(d)),
           toClient'[c] = toClient[c] \/ (toClient[c] # <<>> /\ toClient'[c] = Tail(toClient[c])),
           \A i \in DOMAIN toServer'[c] : \/ i \in DOMAIN toServer[c] /\ toServer'[c][i] = toServer[c][i]
                                          \/ toServer'[c][i].kind # "join",
           client'[c].barrier \in Near(c, reach[c]),
           IsClean(c)' => /\ IsClean(c) /\ Says(L, sStep, toServer'[c])
                          /\ Plays(L, Near(c, reach[c]), sStep, client'[c], toClient'[c], sendq[c], toServer'[c])
    PROVE  WorldInv'
<1> USE DEF serverVars
<1> DEFINE tc == toClient[c]
           N == Near(c, reach[c])
<1>1. SeatInv(c, reach[c]) /\ FollowInv(c, L, reach[c]) /\ reach[c] \in Nat
  BY DEF WInv
<1>2. tc \in Seq(ServerPacket) /\ \A i \in DOMAIN tc : Clock(tc[i]) \in N
  BY <1>1, NearFacts
<1>3. \A i \in DOMAIN toClient'[c] : \E j \in DOMAIN tc : toClient'[c][i] = tc[j]
  <2>1. CASE toClient'[c] = tc
    BY <2>1
  <2>2. CASE tc # <<>> /\ toClient'[c] = Tail(tc)
    BY <1>2, <2>2, TailFacts
  <2>3. QED
    BY <2>1, <2>2
<1>4. JoinInv(client[c], tc, toServer[c])
  BY <1>1 DEF SeatInv
<1>5. JoinInv(client'[c], toClient'[c], toServer'[c])
  <2>1. client[c].state = "ingame" /\ client'[c].state = "ingame"
    BY DEF InGame
  <2>2. \A i \in DOMAIN tc : tc[i].kind # "join"
    BY <1>4, <2>1 DEF JoinInv
  <2>3. \A i \in DOMAIN toServer[c] : toServer[c][i].kind # "join"
    BY <1>4, <2>1 DEF JoinInv
  <2>4. \A i \in DOMAIN toClient'[c] : toClient'[c][i].kind # "join"
    BY <1>3, <2>2
  <2>5. \A i \in DOMAIN toServer'[c] : toServer'[c][i].kind # "join"
    BY <2>3
  <2>6. QED
    BY <2>1, <2>4, <2>5 DEF JoinInv
<1>6. Awaits(c)
  BY DEF Awaits
<1>7. FollowInv(c, L, reach[c])'
  <2>1. Near(c, reach[c])' = N
    BY DEF N, Near, Active
  <2>2. Games(L, N, sStep, client'[c], toClient'[c], sendq[c])
    <3>1. client'[c].state = "ingame"
      BY DEF InGame
    <3>2. QED
      BY <3>1, InGameFacts
  <2>3. IsClean(c) => why[c] \notin {"desync", "kicked"}
    BY <1>1 DEF FollowInv
  <2> HIDE DEF N
  <2>4. IsClean(c)' => Plays(L, N, sStep, client'[c], toClient'[c], sendq[c], toServer'[c])
    BY DEF N
  <2>5. QED
    BY <2>1, <2>2, <2>3, <2>4 DEF FollowInv
<1>8. \A i \in DOMAIN toClient'[c] : Clock(toClient'[c][i]) \in N
  BY <1>2, <1>3
<1>9. QED
  BY <1>5, <1>6, <1>7, <1>8, Turn DEF N

\* A packet that is none of the commands of the log, and no NWC_READY, is taken off
\* the wire; the client remembers at most its clock.
LEMMA LinkTake ==
    ASSUME NEW L \in Seq(LogCmd), NEW N, Downward(N), NEW S, NEW tc \in Seq(ServerPacket), tc # <<>>,
           NEW sq \in Seq(ServerPacket), NEW ts, NEW m \in Machine, Plays(L, N, S, m, tc, sq, ts),
           ~Stamped(tc[1]), tc[1].kind # "ready",
           NEW n, n.step = m.step, n.map = m.map, n.queue = m.queue, n.world = m.world, n.chk = m.chk,
           n.paused = m.paused
    PROVE  Plays(L, N, S, n, Tail(tc), sq, ts)
<1> DEFINE q == m.queue
<1>1. q \in Seq(ServerPacket) /\ tc \o sq \in Seq(ServerPacket) /\ Tail(tc) \in Seq(ServerPacket)
  BY LinkTypes, TailFacts
<1>2. /\ tc \o sq # <<>> /\ (tc \o sq)[1] = tc[1] /\ Tail(tc \o sq) = Tail(tc) \o sq
  <2>1. tc[1] \in ServerPacket
    BY TailFacts
  <2>2. QED
    BY <2>1, ConcatLaws
<1>3. ~Fresh(L, N, S, m.world, tc \o sq)
  <2>1. (tc \o sq)[1].kind # "ready"
    BY <1>2
  <2>2. QED
    BY <2>1 DEF Fresh
<1>4. Settled(L, N, S, m, (q \o tc) \o sq) /\ Handshake(L, m, tc, ts)
  BY <1>3 DEF Plays
<1> HIDE DEF q
<1>5. Settled(L, N, S, m, q \o (tc \o sq))
  <2>1. tc[1] \in ServerPacket
    BY TailFacts
  <2>2. (q \o tc) \o sq = q \o (tc \o sq)
    BY <1>1, <2>1, ConcatLaws
  <2>3. QED
    BY <1>4, <2>2
<1>6. Settled(L, N, S, m, q \o Tail(tc \o sq))
  <2> DEFINE b == tc \o sq
  <2>1. b \in Seq(ServerPacket) /\ b # <<>> /\ ~Stamped(b[1]) /\ Settled(L, N, S, m, q \o b)
    BY <1>1, <1>2, <1>5
  <2> HIDE DEF b
  <2>2. Settled(L, N, S, m, q \o Tail(b))
    BY <1>1, <2>1, SettledGap
  <2>3. QED
    BY <2>2 DEF b
<1>7. Settled(L, N, S, m, (q \o Tail(tc)) \o sq)
  <2>1. tc[1] \in ServerPacket
    BY TailFacts
  <2>2. (q \o Tail(tc)) \o sq = q \o (Tail(tc) \o sq)
    BY <1>1, <2>1, ConcatLaws
  <2>3. QED
    BY <1>2, <1>6, <2>2
<1>8. Settled(L, N, S, n, (n.queue \o Tail(tc)) \o sq)
  BY <1>7 DEF Settled, q
<1>9. Handshake(L, n, Tail(tc), ts)
  BY <1>4, HandshakeTail
<1>10. QED
  BY <1>8, <1>9 DEF Plays

\* A command is put into the queue, behind all that the client has got before.
LEMMA LinkQueue ==
    ASSUME NEW L \in Seq(LogCmd), NEW N, Downward(N), NEW S, NEW tc \in Seq(ServerPacket), tc # <<>>,
           NEW sq \in Seq(ServerPacket), NEW ts, NEW m \in Machine, Plays(L, N, S, m, tc, sq, ts),
           IsCommand(tc[1]), Stamped(tc[1]) => tc[1].step > m.step,
           NEW n, n.step = m.step, n.map = m.map, n.world = m.world, n.chk = m.chk,
           n.paused = m.paused, n.queue = CommandQueueAppend(m.queue, tc[1])
    PROVE  Plays(L, N, S, n, Tail(tc), sq, ts)
<1> DEFINE q == m.queue
           x == tc[1]
<1>1. /\ q \in Seq(ServerPacket) /\ q \in Seq(WorldCmd) /\ Tail(tc) \in Seq(ServerPacket) /\ Head(tc) = x
      /\ x \in ServerPacket /\ 1 \in DOMAIN tc /\ q \o tc \in Seq(ServerPacket) /\ x \in WorldCmd
  <2>1. x \in ServerPacket /\ Head(tc) = x /\ 1 \in DOMAIN tc /\ Tail(tc) \in Seq(ServerPacket)
    BY TailFacts
  <2>2. x \in WorldCmd
    BY <2>1, StepFacts
  <2>3. QED
    BY <2>1, <2>2, LinkTypes
<1>2. (tc \o sq)[1] = x
  BY <1>1, ConcatLaws
<1>3. ~Fresh(L, N, S, m.world, tc \o sq)
  <2>1. (tc \o sq)[1].kind # "ready"
    BY <1>2 DEF IsCommand
  <2>2. QED
    BY <2>1 DEF Fresh
<1>4. Settled(L, N, S, m, (q \o tc) \o sq) /\ Handshake(L, m, tc, ts)
  BY <1>3 DEF Plays
<1> DEFINE P == (q \o tc) \o sq
<1>5. CommandsOK(L, P, S)
  BY <1>4 DEF Settled, StreamOK
<1>6. \A i \in DOMAIN q : q[i].step <= x.step
  <2>1. ASSUME NEW i \in DOMAIN q PROVE q[i].step <= x.step
    <3>1. /\ i \in DOMAIN (q \o tc) /\ (q \o tc)[i] = q[i] /\ i \in Nat /\ i <= Len(q)
          /\ 1 + Len(q) \in DOMAIN (q \o tc) /\ (q \o tc)[1 + Len(q)] = x
          /\ Len(q) \in Nat
      <4>1. Len(q) \in Nat /\ DOMAIN q = 1 .. Len(q)
        BY <1>1
      <4> HIDE DEF q, x
      <4>2. i \in DOMAIN (q \o tc) /\ (q \o tc)[i] = q[i]
        BY <1>1, ConcatFacts
      <4>3. 1 + Len(q) \in DOMAIN (q \o tc) /\ (q \o tc)[1 + Len(q)] = tc[1]
        BY <1>1, ConcatFacts
      <4>4. QED
        BY <4>1, <4>2, <4>3 DEF x
    <3>2. /\ DOMAIN (q \o tc) \subseteq DOMAIN P
          /\ \A j \in DOMAIN (q \o tc) : P[j] = (q \o tc)[j]
      <4>1. q \o tc \in Seq(ServerPacket)
        BY <1>1
      <4> DEFINE a == q \o tc
      <4>2. a \in Seq(ServerPacket)
        BY <4>1
      <4> HIDE DEF a
      <4>3. DOMAIN a \subseteq DOMAIN (a \o sq) /\ \A j \in DOMAIN a : (a \o sq)[j] = a[j]
        BY ONLY <4>2, sq \in Seq(ServerPacket), ConcatFacts
      <4>4. QED
        BY <4>3 DEF a
    <3>3. i \in DOMAIN P /\ P[i] = q[i] /\ 1 + Len(q) \in DOMAIN P /\ P[1 + Len(q)] = x
      BY <3>1, <3>2
    <3>4. i < 1 + Len(q)
      BY <3>1
    <3>5. IsCommand(q[i])
      <4>1. q[i] \in WorldCmd
        BY <1>1
      <4>2. QED
        BY <4>1 DEF WorldCmd, ToolCmd, SyncCmd, CheckCmd, IsCommand
    <3> HIDE DEF P, x, q
    <3>6. IsCommand(x)
      BY DEF x
    <3>7. P[i].step <= P[1 + Len(q)].step
      BY <1>5, <3>3, <3>4, <3>5, <3>6 DEF CommandsOK
    <3>8. QED
      BY <3>3, <3>7
  <2>2. QED
    BY <2>1
<1>7. n.queue = Append(q, x)
  BY <1>1, <1>6, QueueAppendLast
<1> HIDE DEF q, x, P
<1>8. n.queue \o Tail(tc) = q \o tc
  <2>1. Append(q, Head(tc)) \o Tail(tc) = q \o tc
    BY <1>1, ConcatLaws
  <2>2. QED
    BY <1>1, <1>7, <2>1
<1>9. Settled(L, N, S, n, P)
  <2>1. \A p \in DOMAIN n.queue : (p \in DOMAIN q /\ n.queue[p] = q[p]) \/ n.queue[p] = x
    BY <1>1, <1>7, AppendFacts
  <2>2. m.paused => \A p \in DOMAIN q : Stamped(q[p]) => q[p].step > m.step
    BY <1>4 DEF Settled, q
  <2>3. Stamped(x) => x.step > m.step
    BY DEF x
  <2>4. n.paused => \A p \in DOMAIN n.queue : Stamped(n.queue[p]) => n.queue[p].step > n.step
    <3>1. ASSUME n.paused, NEW p \in DOMAIN n.queue, Stamped(n.queue[p]) PROVE n.queue[p].step > n.step
      <4>1. CASE p \in DOMAIN q /\ n.queue[p] = q[p]
        BY <2>2, <3>1, <4>1
      <4>2. CASE n.queue[p] = x
        BY <2>3, <3>1, <4>2
      <4>3. QED
        BY <2>1, <3>1, <4>1, <4>2
    <3>2. QED
      BY <3>1
  <2>5. Settled(L, N, S, m, P)
    BY <1>4 DEF P
  <2>6. QED
    BY <2>4, <2>5 DEF Settled
<1>10. Settled(L, N, S, n, (n.queue \o Tail(tc)) \o sq)
  BY <1>8, <1>9 DEF P
<1>11. Handshake(L, n, Tail(tc), ts)
  BY <1>4, HandshakeTail
<1>12. QED
  BY <1>10, <1>11 DEF Plays

\* An NWC_READY comes to a client that waits for it.
LEMMA LinkReady ==
    ASSUME NEW L \in Seq(LogCmd), LogOK(L), NEW N, Downward(N), NEW S, NEW tc \in Seq(ServerPacket), tc # <<>>,
           NEW sq \in Seq(ServerPacket), \A i \in DOMAIN sq : sq[i].kind # "ready", NEW ts,
           NEW m \in Machine, Plays(L, N, S, m, tc, sq, ts),
           NEW r, r = tc[1], r.kind = "ready", r.map = m.map,
           NEW n, n.step = r.step, n.map = m.map, n.world = m.world, n.queue = m.queue,
           n.chk = SetChecklist(m.chk, r.step, r.chk), ~n.paused
    PROVE  Plays(L, N, S, n, Tail(tc), sq, ts)
<1> DEFINE q == m.queue
           P == tc \o sq
<1>1. /\ q \in Seq(ServerPacket) /\ Tail(tc) \in Seq(ServerPacket) /\ P \in Seq(ServerPacket)
      /\ r \in ServerPacket /\ m.chk \in [0 .. ChecklistCount - 1 -> World] /\ 1 \in DOMAIN tc /\ m.step \in Nat
  BY LinkTypes, TailFacts
<1>2. P # <<>> /\ P[1] = r /\ Tail(P) = Tail(tc) \o sq /\ (q \o tc) \o sq = q \o P
      /\ (q \o Tail(tc)) \o sq = q \o (Tail(tc) \o sq) /\ <<>> \o (Tail(tc) \o sq) = Tail(tc) \o sq
  <2> HIDE DEF q
  <2>a. P # <<>> /\ P[1] = r /\ Tail(P) = Tail(tc) \o sq
    BY <1>1, ConcatLaws
  <2>b. \A b \in Seq(ServerPacket) : (q \o b) \o sq = q \o (b \o sq)
    BY <1>1, ConcatLaws
  <2>1. P # <<>> /\ P[1] = r /\ Tail(P) = Tail(tc) \o sq /\ (q \o tc) \o sq = q \o P
    BY <2>a, <2>b
  <2>2. (q \o Tail(tc)) \o sq = q \o (Tail(tc) \o sq)
    BY <1>1, <2>b
  <2>3. Tail(tc) \o sq \in Seq(ServerPacket)
    BY <1>1, ConcatFacts
  <2>4. <<>> \o (Tail(tc) \o sq) = Tail(tc) \o sq
    BY <2>3
  <2>5. QED
    BY <2>1, <2>2, <2>4
<1>3. r.step \in Nat /\ ~IsCommand(r) /\ ~Stamped(r)
  BY <1>1, StepFacts DEF IsCommand, Stamped
<1>4. \A i \in DOMAIN Tail(tc) : i + 1 \in DOMAIN tc /\ Tail(tc)[i] = tc[i + 1] /\ i + 1 # 1
  BY TailFacts
<1>5. LCHKLST(n.chk, r.step) = r.chk
      /\ \A t \in Nat : t < r.step /\ r.step < t + ChecklistCount => LCHKLST(n.chk, t) = LCHKLST(m.chk, t)
  <2>1. \A w : /\ LCHKLST(SetChecklist(m.chk, r.step, w), r.step) = w
               /\ \A t \in Nat : t < r.step /\ r.step < t + ChecklistCount =>
                     LCHKLST(SetChecklist(m.chk, r.step, w), t) = LCHKLST(m.chk, t)
    BY <1>1, <1>3, RingSet
  <2>2. QED
    BY <2>1
<1> HIDE DEF q, P
<1>6. ASSUME \A i \in DOMAIN Tail(tc) : Tail(tc)[i].kind # "ready", \A j \in DOMAIN ts : ts[j].kind # "ready"
      PROVE  Handshake(L, n, Tail(tc), ts)
  BY <1>6 DEF Handshake
<1>7. CASE Loading(m) /\ Fresh(L, N, S, m.world, P) /\ \A j \in DOMAIN ts : ts[j].kind # "ready"
  <2>1. /\ Chk(L, r.step, r.chk) /\ Ahead(P, r.step)
    BY <1>2, <1>7 DEF Fresh
  <2>2. PICK k \in 0 .. Len(L) : At(L, k, m.world, r.map, r.step) /\ StreamOK(L, P, k, N, S)
    BY <1>2, <1>7 DEF Fresh
  <2>3. StreamOK(L, Tail(P), k, N, S)
    <3>1. ~Stamped(P[1])
      BY <1>2, <1>3
    <3>2. QED
      BY <1>1, <1>2, <2>2, <3>1, StreamDrop
  <2>4. \A i \in DOMAIN tc : i # 1 => tc[i].kind # "ready"
    BY <1>7, FreshHead DEF P
  <2>5. Handshake(L, n, Tail(tc), ts)
    BY <1>4, <1>6, <1>7, <2>4
  <2>6. Ahead(Tail(P), r.step)
    <3>1. \A i \in DOMAIN Tail(P) : i + 1 \in DOMAIN P /\ Tail(P)[i] = P[i + 1]
      BY <1>1, <1>2, TailFacts
    <3>2. QED
      BY <2>1, <3>1 DEF Ahead
  <2>7. Settled(L, N, S, n, Tail(P))
    BY <1>5, <2>1, <2>2, <2>3, <2>6 DEF Settled
  <2>8. n.queue = <<>>
    BY <1>7 DEF Loading
  <2>9. (n.queue \o Tail(tc)) \o sq = Tail(P)
    BY <1>2, <2>8 DEF q
  <2>10. QED
    BY <2>5, <2>7, <2>9 DEF Plays
<1>8. CASE Settled(L, N, S, m, q \o P) /\ Handshake(L, m, tc, ts)
  <2>1. /\ m.paused /\ r.step = m.step /\ Chk(L, r.step, r.chk)
        /\ \A j \in DOMAIN tc : tc[j].kind = "ready" => j = 1
        /\ \A j \in DOMAIN ts : ts[j].kind # "ready"
    BY <1>1, <1>8 DEF Handshake
  <2>2. Handshake(L, n, Tail(tc), ts)
    BY <1>4, <1>6, <2>1
  <2>3. Settled(L, N, S, m, q \o Tail(P))
    <3>1. ~Stamped(P[1])
      BY <1>2, <1>3
    <3>2. QED
      BY <1>1, <1>2, <1>8, <3>1, SettledGap
  <2>4. Settled(L, N, S, n, q \o Tail(P))
    <3>1. \/ m.step > 0 /\ Chk(L, m.step - 1, LCHKLST(n.chk, m.step - 1))
          \/ Ahead(q \o Tail(P), m.step)
      <4>1. CASE m.step > 0 /\ Chk(L, m.step - 1, LCHKLST(m.chk, m.step - 1))
        <5>1. m.step - 1 \in Nat /\ m.step - 1 < r.step /\ r.step < m.step - 1 + ChecklistCount
          BY <1>1, <2>1, <4>1, BoundsAssumption
        <5>2. LCHKLST(n.chk, m.step - 1) = LCHKLST(m.chk, m.step - 1)
          BY <1>5, <5>1
        <5>3. QED
          BY <4>1, <5>2
      <4>2. QED
        BY <2>3, <4>1 DEF Settled
    <3>2. Chk(L, n.step, LCHKLST(n.chk, n.step))
      BY <1>5, <2>1
    <3>3. n.step = m.step
      BY <2>1
    <3>4. \E k \in 0 .. Len(L) : At(L, k, n.world, n.map, n.step) /\ StreamOK(L, q \o Tail(P), k, N, S)
      BY <2>3, <3>3 DEF Settled
    <3>5. QED
      BY <3>1, <3>2, <3>3, <3>4 DEF Settled
  <2>5. (n.queue \o Tail(tc)) \o sq = q \o Tail(P)
    BY <1>2 DEF q
  <2>6. QED
    BY <2>2, <2>4, <2>5 DEF Plays
<1>9. QED
  BY <1>2, <1>7, <1>8 DEF Plays, q, P

\* What a client's turn needs to know of its connection.
LEMMA TurnFacts ==
    ASSUME TypeOK, LockstepInv, NEW L \in Seq(LogCmd), NEW reach \in [Client -> Nat], WInv(L, reach),
           NEW c \in Client
    PROVE  /\ reach[c] \in Nat /\ SeatInv(c, reach[c]) /\ FollowInv(c, L, reach[c]) /\ LogOK(L)
           /\ Downward(Near(c, reach[c])) /\ Near(c, reach[c]) \subseteq Nat
           /\ client[c].step \in Near(c, reach[c]) /\ client[c].barrier \in Near(c, reach[c])
           /\ \A i \in DOMAIN toClient[c] : Clock(toClient[c][i]) \in Near(c, reach[c])
           /\ client[c].step \in Nat /\ client[c].barrier \in Nat /\ sStep \in Nat
           /\ client[c].step <= sStep /\ client[c].step <= client[c].barrier
           /\ \A i \in DOMAIN sendq[c] : sendq[c][i].kind # "ready"
           /\ client[c] \in Machine /\ toClient[c] \in Seq(ServerPacket)
           /\ sendq[c] \in Seq(ServerPacket) /\ toServer[c] \in Seq(ClientPacket)
           /\ client[c].queue \in Seq(WorldCmd) /\ client[c].queue \in Seq(ServerPacket)
           /\ client[c].world \in World /\ client[c].map \in Nat /\ client[c].chk \in [0 .. ChecklistCount - 1 -> World]
           /\ Sorted(client[c].queue) /\ NotAbove(client[c].step, client[c].queue)
           /\ IsClean(c) /\ InGame(c) => Says(L, sStep, toServer[c]) /\
                 Plays(L, Near(c, reach[c]), sStep, client[c], toClient[c], sendq[c], toServer[c])
<1> DEFINE N == Near(c, reach[c])
           m == client[c]
<1>1. reach[c] \in Nat /\ SeatInv(c, reach[c]) /\ FollowInv(c, L, reach[c]) /\ LogOK(L)
  BY DEF WInv, ServerWorldInv
<1>2. /\ Downward(N) /\ N \subseteq Nat
      /\ m.step \in N /\ m.barrier \in N
      /\ \A i \in DOMAIN toClient[c] : Clock(toClient[c][i]) \in N
      /\ m.step \in Nat /\ m.barrier \in Nat /\ sStep \in Nat
      /\ m.step <= m.barrier /\ m.barrier <= sStep
      /\ \A i \in DOMAIN sendq[c] : sendq[c][i].kind \in {"tool", "sync", "check", "step"}
      /\ m \in Machine /\ toClient[c] \in Seq(ServerPacket)
      /\ sendq[c] \in Seq(ServerPacket) /\ toServer[c] \in Seq(ClientPacket)
  BY <1>1, NearFacts
<1>3. m.queue \in Seq(WorldCmd) /\ m.queue \in Seq(ServerPacket) /\ m.world \in World /\ m.map \in Nat
      /\ m.chk \in [0 .. ChecklistCount - 1 -> World]
  BY <1>2, LinkTypes
<1>4. Sorted(m.queue) /\ NotAbove(m.step, m.queue)
  BY DEF LockstepInv, ClientInv, MachineInv
<1>5. IsClean(c) /\ InGame(c) => Says(L, sStep, toServer[c]) /\
         Plays(L, N, sStep, m, toClient[c], sendq[c], toServer[c])
  BY <1>1 DEF FollowInv
<1> HIDE DEF N, m
<1>6. m.step <= sStep /\ \A i \in DOMAIN sendq[c] : sendq[c][i].kind # "ready"
  <2>1. m.step <= sStep
    BY <1>2
  <2>2. \A i \in DOMAIN sendq[c] : sendq[c][i].kind # "ready"
    BY <1>2
  <2>3. QED
    BY <2>1, <2>2
<1>7. QED
  BY <1>1, <1>2, <1>3, <1>4, <1>5, <1>6 DEF N, m

\* A client in a game takes a packet and says nothing.
LEMMA HearTurn ==
    ASSUME TypeOK, TypeOK', LockstepInv, NEW L \in Seq(LogCmd), NEW reach \in [Client -> Nat], WInv(L, reach),
           NEW c \in Client, InGame(c), toClient[c] # <<>>, CliTake(c), NEW n, n.state = "ingame",
           CliBecomes(c, n), UNCHANGED <<toServer, lost>>,
           n.barrier \in Near(c, reach[c]),
           Plays(L, Near(c, reach[c]), sStep, client[c], toClient[c], sendq[c], toServer[c])
           => Plays(L, Near(c, reach[c]), sStep, n, Tail(toClient[c]), sendq[c], toServer[c])
    PROVE  WorldInv'
<1> USE DEF serverVars
<1>1. /\ client'[c] = n /\ toClient'[c] = Tail(toClient[c])
      /\ \A d \in Client \ {c} : toClient'[d] = toClient[d] /\ toServer'[d] = toServer[d] /\ client'[d] = client[d]
      /\ UNCHANGED <<serverVars, sendq, why>>
  BY DEF CliTake, CliBecomes, TypeOK
<1>2. \A d \in Client : IsClean(d)' <=> IsClean(d)
  BY DEF CliBecomes, IsClean
<1>3. InGame(c)'
  BY <1>1 DEF InGame
<1>4. IsClean(c) => Says(L, sStep, toServer[c]) /\
         Plays(L, Near(c, reach[c]), sStep, client[c], toClient[c], sendq[c], toServer[c])
  BY TurnFacts
<1>5. toServer'[c] = toServer[c] /\ sendq'[c] = sendq[c]
  BY <1>1
<1>6. IsClean(c)' => /\ IsClean(c) /\ Says(L, sStep, toServer'[c])
                     /\ Plays(L, Near(c, reach[c]), sStep, client'[c], toClient'[c], sendq[c], toServer'[c])
  BY <1>1, <1>2, <1>4, <1>5
<1>7. client'[c].barrier \in Near(c, reach[c])
  BY <1>1
<1>8. \A i \in DOMAIN toServer'[c] : i \in DOMAIN toServer[c] /\ toServer'[c][i] = toServer[c][i]
  BY <1>5
<1>9. QED
  BY <1>1, <1>2, <1>3, <1>6, <1>7, <1>8, PlayTurn

\* A client in a game reads a packet.
LEMMA ReceiveTurn ==
    ASSUME TypeOK, TypeOK', LockstepInv, NEW L \in Seq(LogCmd), NEW reach \in [Client -> Nat], WInv(L, reach),
           NEW c \in Client, CliStep(c) \/ CliCommand(c) \/ CliReady(c) \/ CliEOF(c)
    PROVE  WorldInv'
<1> USE DEF serverVars, ghostVars
<1> DEFINE tc == toClient[c]
           sq == sendq[c]
           ts == toServer[c]
           m == client[c]
           N == Near(c, reach[c])
<1>1. /\ LogOK(L) /\ Downward(N) /\ N \subseteq Nat /\ m.step \in N /\ m.barrier \in N
      /\ \A i \in DOMAIN tc : Clock(tc[i]) \in N
      /\ m.step \in Nat /\ m.barrier \in Nat /\ m.step <= m.barrier
      /\ \A i \in DOMAIN sq : sq[i].kind # "ready"
      /\ m \in Machine /\ tc \in Seq(ServerPacket) /\ sq \in Seq(ServerPacket)
  BY TurnFacts
<1>2. tc # <<>> => 1 \in DOMAIN tc /\ Head(tc) = tc[1] /\ tc[1] \in ServerPacket /\ Clock(tc[1]) \in N
  BY <1>1, TailFacts
<1>3. ASSUME NEW reason \in {"ok", "late", "map"}, Leave(c, reason) PROVE WorldInv'
  <2>1. LeaveNow(c, reason) /\ UNCHANGED <<serverVars, sendq, glitches, lost>>
    BY <1>3 DEF Leave
  <2>2. QED
    BY <2>1, LeaveTurn
<1>4. CASE CliStep(c)
  <2> DEFINE s == Head(tc).step
             n == [m EXCEPT !.barrier = IF @ < s THEN s ELSE @]
  <2>1. /\ InGame(c) /\ tc # <<>> /\ Head(tc).kind = "step" /\ CliTake(c) /\ CliBecomes(c, n)
        /\ UNCHANGED <<toServer, lost>>
    BY <1>4 DEF CliStep, CliHead
  <2>2. /\ n.step = m.step /\ n.map = m.map /\ n.queue = m.queue /\ n.world = m.world /\ n.chk = m.chk
        /\ n.paused = m.paused /\ n.state = m.state /\ n.barrier \in {s, m.barrier}
    BY <1>1 DEF Machine
  <2>3. n.barrier \in N
    BY <1>1, <1>2, <2>1, <2>2 DEF Clock
  <2>4. n.state = "ingame"
    BY <2>1, <2>2 DEF InGame
  <2>5. ~Stamped(tc[1]) /\ tc[1].kind # "ready"
    BY <1>2, <2>1 DEF Stamped
  <2> HIDE DEF n, N, m, tc, sq, ts
  <2>6. Plays(L, N, sStep, m, tc, sq, ts) => Plays(L, N, sStep, n, Tail(tc), sq, ts)
    BY <1>1, <2>1, <2>2, <2>5, LinkTake
  <2>7. QED
    BY <2>1, <2>3, <2>4, <2>6, HearTurn DEF N, m, tc, sq, ts
<1>5. CASE CliCommand(c)
  <2> DEFINE cmd == Head(tc)
             b == IF cmd.kind = "check" /\ m.barrier < cmd.srvStep
                  THEN [m EXCEPT !.barrier = cmd.srvStep] ELSE m
             n == [b EXCEPT !.queue = CommandQueueAppend(@, cmd)]
             past == cmd.step < b.step
  <2>1. /\ InGame(c) /\ tc # <<>> /\ cmd.kind \in {"tool", "sync", "check"}
        /\ \/ Leave(c, "late")
           \/ /\ past /\ cmd.kind = "check" /\ CliTake(c) /\ CliBecomes(c, b) /\ UNCHANGED <<toServer, lost>>
           \/ /\ ~past /\ CliTake(c) /\ CliBecomes(c, n) /\ UNCHANGED <<toServer, lost>>
    BY <1>5 DEF CliCommand, CliHead, IgnoreOldEvents
  <2>2. /\ b.step = m.step /\ b.map = m.map /\ b.queue = m.queue /\ b.world = m.world /\ b.chk = m.chk
        /\ b.paused = m.paused /\ b.state = m.state
        /\ b.barrier = m.barrier \/ (cmd.kind = "check" /\ b.barrier = cmd.srvStep)
    BY <1>1 DEF Machine
  <2>3. /\ n.step = m.step /\ n.map = m.map /\ n.queue = CommandQueueAppend(m.queue, cmd) /\ n.world = m.world
        /\ n.chk = m.chk /\ n.paused = m.paused /\ n.state = m.state /\ n.barrier = b.barrier
    <3>1. b \in [state : {"offline", "waitJoin", "waitSync", "waitGame", "ingame"},
                 step : Nat, barrier : {m.barrier, cmd.srvStep}, map : Nat, queue : Seq(WorldCmd),
                 world : World, chk : [0 .. ChecklistCount - 1 -> World], paused : BOOLEAN]
      BY <1>1 DEF Machine
    <3> HIDE DEF b
    <3>2. QED
      BY <2>2, <3>1
  <2>4. b.barrier \in N
    BY <1>1, <1>2, <2>1, <2>2 DEF Clock
  <2>5. b.state = "ingame" /\ n.state = "ingame"
    BY <2>1, <2>2, <2>3 DEF InGame
  <2>6. IsCommand(tc[1]) /\ tc[1].kind # "ready" /\ (cmd.kind = "check" => ~Stamped(tc[1]))
    BY <1>2, <2>1 DEF IsCommand, Stamped
  <2>7. Stamped(tc[1]) => tc[1].step > m.step
    <3>1. StreamInv(tc, m.barrier, sStep)
      BY DEF LockstepInv, ClientInv, ChannelInv
    <3>2. Stamped(tc[1]) => tc[1].step > m.barrier /\ tc[1].step \in Nat
      BY <1>2, <2>1, <3>1, ClockFacts DEF StreamInv
    <3> HIDE DEF m, tc
    <3>3. QED
      BY <1>1, <3>2
  <2>8. CASE Leave(c, "late")
    BY <1>3, <2>8
  <2>9. CASE cmd.kind = "check" /\ CliTake(c) /\ CliBecomes(c, b) /\ UNCHANGED <<toServer, lost>>
    <3> HIDE DEF n, b, N, m, tc, sq, ts
    <3>1. Plays(L, N, sStep, m, tc, sq, ts) => Plays(L, N, sStep, b, Tail(tc), sq, ts)
      BY <1>1, <2>1, <2>2, <2>6, <2>9, LinkTake
    <3>2. QED
      BY <2>1, <2>4, <2>5, <2>9, <3>1, HearTurn DEF N, m, tc, sq, ts
  <2>10. CASE CliTake(c) /\ CliBecomes(c, n) /\ UNCHANGED <<toServer, lost>>
    <3>1. n.queue = CommandQueueAppend(m.queue, tc[1])
      BY <1>2, <2>1, <2>3
    <3> HIDE DEF n, b, N, m, tc, sq, ts
    <3>2. Plays(L, N, sStep, m, tc, sq, ts) => Plays(L, N, sStep, n, Tail(tc), sq, ts)
      BY <1>1, <2>1, <2>3, <2>6, <2>7, <3>1, LinkQueue
    <3>3. n.barrier \in N
      BY <2>3, <2>4
    <3>4. QED
      BY <2>1, <2>5, <2>10, <3>2, <3>3, HearTurn DEF N, m, tc, sq, ts
  <2>11. QED
    BY <2>1, <2>8, <2>9, <2>10
<1>6. CASE CliReady(c)
  <2> DEFINE r == Head(tc)
             n == [m EXCEPT !.step = r.step, !.barrier = r.step, !.paused = FALSE,
                            !.chk = SetChecklist(@, r.step, r.chk)]
  <2>1. /\ InGame(c) /\ tc # <<>> /\ r.kind = "ready"
        /\ \/ Leave(c, "map")
           \/ r.map = m.map /\ CliTake(c) /\ CliBecomes(c, n) /\ UNCHANGED <<toServer, lost>>
    BY <1>6 DEF CliReady, CliHead
  <2>2. /\ n.step = r.step /\ n.map = m.map /\ n.queue = m.queue /\ n.world = m.world
        /\ n.chk = SetChecklist(m.chk, r.step, r.chk) /\ ~n.paused /\ n.state = m.state /\ n.barrier = r.step
    BY <1>1 DEF Machine
  <2>3. n.barrier \in N
    BY <1>2, <2>1, <2>2 DEF Clock
  <2>4. n.state = "ingame"
    BY <2>1, <2>2 DEF InGame
  <2>5. CASE Leave(c, "map")
    BY <1>3, <2>5
  <2>6. CASE r.map = m.map /\ CliTake(c) /\ CliBecomes(c, n) /\ UNCHANGED <<toServer, lost>>
    <3>1. r = tc[1]
      BY <1>2, <2>1
    <3> HIDE DEF n, N, m, tc, sq, ts, r
    <3>2. Plays(L, N, sStep, m, tc, sq, ts) => Plays(L, N, sStep, n, Tail(tc), sq, ts)
      BY <1>1, <2>1, <2>2, <2>6, <3>1, LinkReady
    <3>3. QED
      BY <2>1, <2>3, <2>4, <2>6, <3>2, HearTurn DEF N, m, tc, sq, ts
  <2>7. QED
    BY <2>1, <2>5, <2>6
<1>7. CASE CliEOF(c)
  BY <1>3, <1>7 DEF CliEOF
<1>8. QED
  BY <1>4, <1>5, <1>6, <1>7

\* P is what a client that has something in its queue q has still to do.
Queued(L, N, S, m, q, tc, sq, ts, P) ==
    /\ Settled(L, N, S, m, P) /\ Handshake(L, m, tc, ts)
    /\ P \in Seq(ServerPacket) /\ P # <<>> /\ P[1] = q[1] /\ 1 \in DOMAIN P
    /\ P = (q \o tc) \o sq /\ Tail(P) = (Tail(q) \o tc) \o sq /\ Tail(P) = Tail(q) \o (tc \o sq)
    /\ tc \o sq \in Seq(ServerPacket) /\ Tail(q) \in Seq(ServerPacket)
    /\ q[1] \in WorldCmd /\ IsCommand(q[1]) /\ q[1].step \in Nat
    /\ q[1].map \in Nat /\ Head(q) = q[1] /\ m.step \in Nat
    /\ \A i \in DOMAIN Tail(q) : i + 1 \in DOMAIN q /\ Tail(q)[i] = q[i + 1]

\* A client that has something in its queue follows the log with it.
LEMMA LinkQueued ==
    ASSUME NEW L \in Seq(LogCmd), NEW N, NEW S, NEW tc \in Seq(ServerPacket),
           NEW sq \in Seq(ServerPacket), NEW ts, NEW m \in Machine, Plays(L, N, S, m, tc, sq, ts), m.queue # <<>>
    PROVE  \E P : Queued(L, N, S, m, m.queue, tc, sq, ts, P)
<1> DEFINE q == m.queue
<1>1. q \in Seq(ServerPacket) /\ q \in Seq(WorldCmd) /\ tc \o sq \in Seq(ServerPacket) /\ m.step \in Nat
      /\ (q \o tc) \o sq \in Seq(ServerPacket)
  BY LinkTypes
<1>2. Settled(L, N, S, m, (q \o tc) \o sq) /\ Handshake(L, m, tc, ts)
  BY DEF Plays, Loading
<1>3. q # <<>>
  OBVIOUS
<1> HIDE DEF q
<1>4. /\ Head(q) = q[1] /\ q[1] \in WorldCmd /\ 1 \in DOMAIN q /\ Tail(q) \in Seq(ServerPacket)
      /\ \A i \in DOMAIN Tail(q) : i + 1 \in DOMAIN q /\ Tail(q)[i] = q[i + 1]
  BY <1>1, <1>3, TailFacts
<1>5. IsCommand(q[1]) /\ q[1].step \in Nat /\ q[1].map \in Nat
  BY <1>4 DEF WorldCmd, ToolCmd, SyncCmd, CheckCmd, IsCommand
<1>6. \A b \in Seq(ServerPacket) : /\ (q \o b) \o sq = q \o (b \o sq)
                                   /\ Tail(q \o b) = Tail(q) \o b /\ (q \o b)[1] = q[1] /\ q \o b # <<>>
  <2>1. q[1] \in ServerPacket
    BY <1>4 DEF ServerPacket
  <2>2. q \in Seq(ServerPacket) /\ q # <<>>
    BY <1>1, <1>3
  <2>3. ASSUME NEW b \in Seq(ServerPacket)
        PROVE  (q \o b) \o sq = q \o (b \o sq) /\ Tail(q \o b) = Tail(q) \o b /\ (q \o b)[1] = q[1] /\ q \o b # <<>>
    BY ONLY <2>1, <2>2, b \in Seq(ServerPacket), sq \in Seq(ServerPacket), ConcatLaws
  <2>4. QED
    BY <2>3
<1>7. /\ (q \o tc) \o sq = q \o (tc \o sq) /\ Tail(q \o (tc \o sq)) = Tail(q) \o (tc \o sq)
      /\ (q \o (tc \o sq))[1] = q[1] /\ q \o (tc \o sq) # <<>>
  BY <1>1, <1>6
<1>8. (Tail(q) \o tc) \o sq = Tail(q) \o (tc \o sq)
  <2> DEFINE t == Tail(q)
  <2>1. t \in Seq(ServerPacket) /\ q[1] \in ServerPacket
    BY <1>4 DEF ServerPacket
  <2> HIDE DEF t
  <2>2. (t \o tc) \o sq = t \o (tc \o sq)
    BY <2>1, ConcatLaws
  <2>3. QED
    BY <2>2 DEF t
<1> DEFINE P == (q \o tc) \o sq
<1>9. P \in Seq(ServerPacket) /\ P # <<>> /\ P[1] = q[1] /\ Tail(P) = (Tail(q) \o tc) \o sq
      /\ Tail(P) = Tail(q) \o (tc \o sq)
  BY <1>1, <1>7, <1>8
<1> HIDE DEF P
<1>10. 1 \in DOMAIN P
  BY <1>9
<1>11. Settled(L, N, S, m, P) /\ P = (q \o tc) \o sq
  BY <1>2 DEF P
<1>12. Queued(L, N, S, m, q, tc, sq, ts, P)
  BY <1>1, <1>2, <1>4, <1>5, <1>9, <1>10, <1>11 DEF Queued
<1>13. QED
  BY <1>12 DEF q

\* A checklist that comes up at its step is that of the client.
LEMMA LinkChecks ==
    ASSUME NEW L \in Seq(LogCmd), NEW N, NEW S, NEW tc \in Seq(ServerPacket),
           NEW sq \in Seq(ServerPacket), NEW ts, NEW m \in Machine, Plays(L, N, S, m, tc, sq, ts),
           m.queue # <<>>, NEW x, x = m.queue[1], x.step = m.step
    PROVE  /\ x.kind = "check" => LCHKLST(m.chk, x.srvStep) = x.chk
           /\ x.kind = "tool" => LCHKLST(m.chk, x.lastStep) = x.lastChk
<1>a. PICK P : Queued(L, N, S, m, m.queue, tc, sq, ts, P)
  BY LinkQueued
<1>1. /\ Settled(L, N, S, m, P) /\ P[1] = x /\ 1 \in DOMAIN P /\ IsCommand(x) /\ x \in WorldCmd /\ m.step \in Nat
  BY <1>a DEF Queued
<1>2. PacketOK(L, x, S)
  BY <1>1 DEF Settled, StreamOK, CommandsOK
<1>3. ~Ahead(P, m.step)
  BY <1>1 DEF Ahead
<1>4. m.step - 1 \in Nat /\ Chk(L, m.step - 1, LCHKLST(m.chk, m.step - 1))
  BY <1>1, <1>3 DEF Settled
<1>5. x \in ServerPacket
  BY <1>1 DEF ServerPacket
<1>6. ASSUME x.kind = "check" PROVE LCHKLST(m.chk, x.srvStep) = x.chk
  <2>1. x.srvStep \in Nat /\ m.step = x.srvStep + 1 /\ Chk(L, x.srvStep, x.chk)
    BY <1>2, <1>5, <1>6, StepFacts DEF PacketOK
  <2>2. x.srvStep = m.step - 1
    BY <1>1, <2>1
  <2>3. QED
    BY <1>4, <2>1, <2>2, ChkUnique
<1>7. ASSUME x.kind = "tool" PROVE LCHKLST(m.chk, x.lastStep) = x.lastChk
  <2>1. x.lastStep \in Nat /\ m.step = x.lastStep + 1 /\ Chk(L, x.lastStep, x.lastChk)
    BY <1>2, <1>5, <1>7, StepFacts DEF PacketOK
  <2>2. x.lastStep = m.step - 1
    BY <1>1, <2>1
  <2>3. QED
    BY <1>4, <2>1, <2>2, ChkUnique
<1>8. QED
  BY <1>6, <1>7

\* The client drops the first command of its queue: a checklist, or a command of
\* another world.
LEMMA LinkDrop ==
    ASSUME NEW L \in Seq(LogCmd), LogOK(L), NEW N, Downward(N), NEW S, NEW tc \in Seq(ServerPacket),
           NEW sq \in Seq(ServerPacket), NEW ts, NEW m \in Machine, Plays(L, N, S, m, tc, sq, ts),
           m.queue # <<>>, NEW x, x = m.queue[1], Stamped(x) => x.step \in N /\ x.map # m.map,
           NEW n, n.step = m.step, n.map = m.map, n.world = m.world, n.chk = m.chk,
           n.paused = m.paused, n.queue = Tail(m.queue)
    PROVE  Plays(L, N, S, n, tc, sq, ts)
<1>a. PICK P : Queued(L, N, S, m, m.queue, tc, sq, ts, P)
  BY LinkQueued
<1>1. /\ Settled(L, N, S, m, P) /\ Handshake(L, m, tc, ts) /\ P \in Seq(ServerPacket) /\ P # <<>> /\ P[1] = x
      /\ Tail(P) = (n.queue \o tc) \o sq
      /\ \A i \in DOMAIN n.queue : i + 1 \in DOMAIN m.queue /\ n.queue[i] = m.queue[i + 1]
  BY <1>a DEF Queued
<1>2. PICK k \in 0 .. Len(L) : At(L, k, m.world, m.map, m.step) /\ StreamOK(L, P, k, N, S)
  BY <1>1 DEF Settled
<1>3. StreamOK(L, Tail(P), k, N, S)
  <2>1. m.map = MapAt(L, k)
    BY <1>2 DEF At
  <2>2. QED
    BY <1>1, <1>2, <2>1, StreamDrop
<1>4. Ahead(P, m.step) => Ahead(Tail(P), m.step)
  <2>1. \A i \in DOMAIN Tail(P) : i + 1 \in DOMAIN P /\ Tail(P)[i] = P[i + 1]
    BY <1>1, TailFacts
  <2>2. QED
    BY <2>1 DEF Ahead
<1>5. Settled(L, N, S, n, Tail(P))
  <2>1. n.paused => \A p \in DOMAIN n.queue : Stamped(n.queue[p]) => n.queue[p].step > n.step
    BY <1>1 DEF Settled
  <2>2. Chk(L, n.step, LCHKLST(n.chk, n.step))
    BY <1>1 DEF Settled
  <2>3. (n.step > 0 /\ Chk(L, n.step - 1, LCHKLST(n.chk, n.step - 1))) \/ Ahead(Tail(P), n.step)
    BY <1>1, <1>4 DEF Settled
  <2>4. QED
    BY <1>2, <1>3, <2>1, <2>2, <2>3 DEF Settled
<1>6. Handshake(L, n, tc, ts)
  BY <1>1 DEF Handshake
<1>7. QED
  BY <1>1, <1>5, <1>6 DEF Plays

\* The client executes a tool of its world.
LEMMA LinkTool ==
    ASSUME NEW L \in Seq(LogCmd), LogOK(L), NEW N, Downward(N), NEW S, NEW tc \in Seq(ServerPacket),
           NEW sq \in Seq(ServerPacket), NEW ts, NEW m \in Machine, Plays(L, N, S, m, tc, sq, ts),
           m.queue # <<>>, NEW x, x = m.queue[1], x.kind = "tool", x.step = m.step, x.step \in N, x.map = m.map,
           NEW n, n.step = m.step, n.map = m.map, n.world = Append(m.world, Done(m.step, x.tool)), n.chk = m.chk,
           n.paused = m.paused, n.queue = Tail(m.queue)
    PROVE  Plays(L, N, S, n, tc, sq, ts)
<1>a. PICK P : Queued(L, N, S, m, m.queue, tc, sq, ts, P)
  BY LinkQueued
<1>1. /\ Settled(L, N, S, m, P) /\ Handshake(L, m, tc, ts) /\ P \in Seq(ServerPacket) /\ P # <<>> /\ P[1] = x
      /\ Tail(P) = (n.queue \o tc) \o sq /\ m.step \in Nat
      /\ \A i \in DOMAIN n.queue : i + 1 \in DOMAIN m.queue /\ n.queue[i] = m.queue[i + 1]
  BY <1>a DEF Queued
<1>2. PICK k \in 0 .. Len(L) : At(L, k, m.world, m.map, m.step) /\ StreamOK(L, P, k, N, S)
  BY <1>1 DEF Settled
<1>3. /\ k + 1 \in 0 .. Len(L) /\ k + 1 \in DOMAIN L /\ x = L[k + 1] /\ StreamOK(L, Tail(P), k + 1, N, S)
  <2>1. x.map = MapAt(L, k) /\ Stamped(x)
    BY <1>2 DEF At, Stamped
  <2>2. QED
    BY <1>1, <1>2, <2>1, StreamExecute
<1>4. At(L, k + 1, n.world, n.map, n.step)
  <2>1. k \in Nat /\ Len(L) \in Nat /\ k < Len(L) /\ k + 1 # 0
    <3>1. Len(L) \in Nat
      BY LogFacts
    <3>2. k \in Nat /\ k + 1 <= Len(L)
      BY <1>3, <3>1
    <3>3. QED
      BY <3>1, <3>2
  <2>2. What(x) = x.tool /\ NextMap(x) = x.map
    BY DEF What, NextMap
  <2>3. /\ m.world = WorldOf(L, k) /\ \A i \in 1 .. k : L[i].step <= m.step
    BY <1>2 DEF At
  <2>4. n.world = WorldOf(L, k + 1)
    BY <1>3, <2>1, <2>2, <2>3, WorldOfNext
  <2>5. n.map = MapAt(L, k + 1)
    BY <1>3, <2>1, <2>2 DEF MapAt
  <2>6. \A i \in 1 .. k + 1 : L[i].step <= n.step
    <3>1. \A i \in 1 .. k + 1 : i \in 1 .. k \/ i = k + 1
      BY <2>1
    <3>2. QED
      BY <1>1, <1>3, <2>3, <3>1
  <2>7. QED
    BY <1>3, <2>4, <2>5, <2>6 DEF At
<1>5. Ahead(P, m.step) => Ahead(Tail(P), m.step)
  <2>1. \A i \in DOMAIN Tail(P) : i + 1 \in DOMAIN P /\ Tail(P)[i] = P[i + 1]
    BY <1>1, TailFacts
  <2>2. QED
    BY <2>1 DEF Ahead
<1>6. Settled(L, N, S, n, Tail(P))
  <2>1. n.paused => \A p \in DOMAIN n.queue : Stamped(n.queue[p]) => n.queue[p].step > n.step
    BY <1>1 DEF Settled
  <2>2. Chk(L, n.step, LCHKLST(n.chk, n.step))
    BY <1>1 DEF Settled
  <2>3. (n.step > 0 /\ Chk(L, n.step - 1, LCHKLST(n.chk, n.step - 1))) \/ Ahead(Tail(P), n.step)
    BY <1>1, <1>5 DEF Settled
  <2>4. QED
    BY <1>3, <1>4, <2>1, <2>2, <2>3 DEF Settled
<1>7. Handshake(L, n, tc, ts)
  BY <1>1 DEF Handshake
<1>8. QED
  BY <1>1, <1>6, <1>7 DEF Plays

\* Nothing behind the head of the queue q is of the world w.
Clears(q, w) == \A i \in DOMAIN q : i > 1 /\ Stamped(q[i]) => q[i].map # w

\* The client executes an NWC_SYNC of its world, and throws away what it has
\* queued, nothing of it of the new world: it tells the server that it is ready.
LEMMA LinkSync ==
    ASSUME NEW L \in Seq(LogCmd), LogOK(L), NEW N, Downward(N), NEW S, NEW tc \in Seq(ServerPacket),
           NEW sq \in Seq(ServerPacket), NEW ts \in Seq(ClientPacket),
           NEW m \in Machine, Plays(L, N, S, m, tc, sq, ts),
           m.queue # <<>>, NEW x, x = m.queue[1], x.kind = "sync", x.step = m.step, x.step \in N, x.map = m.map,
           Clears(m.queue, x.newMap),
           NEW n, n.step = m.step, n.map = x.newMap, n.world = Append(m.world, Done(m.step, Reload)), n.chk = m.chk,
           n.paused = TRUE, n.queue = <<>>,
           NEW r \in ClientPacket, r.kind = "ready", r.step = m.step, r.map = x.newMap
    PROVE  Plays(L, N, S, n, tc, sq, Append(ts, r))
<1> DEFINE q == Tail(m.queue)
           t == tc \o sq
<1>a. PICK P : Queued(L, N, S, m, m.queue, tc, sq, ts, P)
  BY LinkQueued
<1>1. /\ Settled(L, N, S, m, P) /\ Handshake(L, m, tc, ts) /\ P \in Seq(ServerPacket) /\ P # <<>> /\ P[1] = x
      /\ Tail(P) = q \o t /\ m.step \in Nat /\ t \in Seq(ServerPacket) /\ q \in Seq(ServerPacket)
      /\ x \in WorldCmd
  BY <1>a DEF Queued
<1>b. \A i \in DOMAIN q : i + 1 \in DOMAIN m.queue /\ q[i] = m.queue[i + 1] /\ i + 1 > 1
  <2>1. \A i \in DOMAIN q : i + 1 \in DOMAIN m.queue /\ q[i] = m.queue[i + 1]
    BY <1>a DEF Queued
  <2>2. \A i \in DOMAIN q : i \in Nat /\ i # 0
    BY <1>1
  <2>3. QED
    BY <2>1, <2>2
<1>c. (n.queue \o tc) \o sq = t
  <2>1. <<>> \o tc = tc
    BY ConcatEmptySeq
  <2>2. QED
    BY <2>1
<1> HIDE DEF q, t
<1>2. PICK k \in 0 .. Len(L) : At(L, k, m.world, m.map, m.step) /\ StreamOK(L, P, k, N, S)
  BY <1>1 DEF Settled
<1>3. /\ k + 1 \in 0 .. Len(L) /\ k + 1 \in DOMAIN L /\ x = L[k + 1] /\ StreamOK(L, Tail(P), k + 1, N, S)
  <2>1. x.map = MapAt(L, k) /\ Stamped(x)
    BY <1>2 DEF At, Stamped
  <2>2. QED
    BY <1>1, <1>2, <2>1, StreamExecute
<1>4. At(L, k + 1, n.world, n.map, n.step)
  <2>1. k \in Nat /\ Len(L) \in Nat /\ k < Len(L) /\ k + 1 # 0
    <3>1. Len(L) \in Nat
      BY LogFacts
    <3>2. k \in Nat /\ k + 1 <= Len(L)
      BY <1>3, <3>1
    <3>3. QED
      BY <3>1, <3>2
  <2>2. What(x) = Reload /\ NextMap(x) = x.newMap
    BY DEF What, NextMap
  <2>3. /\ m.world = WorldOf(L, k) /\ \A i \in 1 .. k : L[i].step <= m.step
    BY <1>2 DEF At
  <2>4. n.world = WorldOf(L, k + 1)
    BY <1>3, <2>1, <2>2, <2>3, WorldOfNext
  <2>5. n.map = MapAt(L, k + 1)
    BY <1>3, <2>1, <2>2 DEF MapAt
  <2>6. \A i \in 1 .. k + 1 : L[i].step <= n.step
    <3>1. \A i \in 1 .. k + 1 : i \in 1 .. k \/ i = k + 1
      BY <2>1
    <3>2. QED
      BY <1>1, <1>3, <2>3, <3>1
  <2>7. QED
    BY <1>3, <2>4, <2>5, <2>6 DEF At
<1>5. StreamOK(L, t, k + 1, N, S)
  <2>1. \A i \in DOMAIN q : Stamped(q[i]) => q[i].map # MapAt(L, k + 1)
    <3>1. MapAt(L, k + 1) = x.newMap
      BY <1>4 DEF At
    <3>2. QED
      BY <1>b, <3>1 DEF Clears
  <2>2. StreamOK(L, q \o t, k + 1, N, S)
    BY <1>1, <1>3
  <2> DEFINE e == k + 1
  <2>3. e \in 0 .. Len(L)
    BY <1>3
  <2> HIDE DEF e
  <2>4. StreamOK(L, t, e, N, S)
    BY <1>1, <2>1, <2>2, <2>3, StreamCut DEF e
  <2>5. QED
    BY <2>4 DEF e
<1>6. Ahead(P, m.step) => Ahead(t, m.step)
  <2>1. \A i \in DOMAIN Tail(P) : i + 1 \in DOMAIN P /\ Tail(P)[i] = P[i + 1]
    BY <1>1, TailFacts
  <2>a. q \in Seq(ServerPacket) /\ t \in Seq(ServerPacket)
    BY <1>1
  <2>2. ASSUME NEW i \in DOMAIN t PROVE Len(q) + i \in DOMAIN (q \o t) /\ (q \o t)[Len(q) + i] = t[i]
    BY ONLY <2>a, <2>2, ConcatFacts
  <2>3. \A i \in DOMAIN t : \E j \in DOMAIN P : t[i] = P[j]
    <3>1. Tail(P) = q \o t
      BY <1>1
    <3>2. ASSUME NEW i \in DOMAIN t PROVE \E j \in DOMAIN P : t[i] = P[j]
      <4>1. Len(q) + i \in DOMAIN Tail(P) /\ Tail(P)[Len(q) + i] = t[i]
        BY <2>2, <3>1, Zenon
      <4>2. Len(q) + i + 1 \in DOMAIN P /\ Tail(P)[Len(q) + i] = P[Len(q) + i + 1]
        BY <2>1, <4>1, Zenon
      <4>3. QED
        BY <4>1, <4>2, Zenon
    <3>3. QED
      BY <3>2
  <2>4. QED
    BY <2>3 DEF Ahead
<1>7. Chk(L, m.step, LCHKLST(m.chk, m.step))
  BY <1>1 DEF Settled
<1>8. Settled(L, N, S, n, t)
  <2>1. (n.step > 0 /\ Chk(L, n.step - 1, LCHKLST(n.chk, n.step - 1))) \/ Ahead(t, n.step)
    BY <1>1, <1>6 DEF Settled
  <2>2. \A p \in DOMAIN n.queue : FALSE
    OBVIOUS
  <2>3. QED
    BY <1>3, <1>4, <1>5, <1>7, <2>1, <2>2 DEF Settled
<1>9. ~m.paused
  <2>1. Stamped(x) /\ 1 \in DOMAIN m.queue /\ m.queue[1].step = m.step
    <3>1. m.queue \in Seq(WorldCmd)
      BY DEF Machine
    <3>2. QED
      BY <3>1, TailFacts DEF Stamped
  <2>2. m.paused => m.queue[1].step > m.step
    BY <1>1, <2>1 DEF Settled
  <2>3. m.step \in Nat
    BY <1>1
  <2>4. QED
    BY <2>1, <2>2, <2>3
<1>10. Handshake(L, n, tc, Append(ts, r))
  <2>1. /\ \A i \in DOMAIN tc : tc[i].kind # "ready"
        /\ \A i \in DOMAIN ts : ts[i].kind # "ready"
    BY <1>1, <1>9 DEF Handshake
  <2>2. \A i \in DOMAIN Append(ts, r) : Append(ts, r)[i].kind = "ready" => i = Len(ts) + 1 /\ Append(ts, r)[i] = r
    BY <2>1, AppendFacts
  <2> DEFINE u == Append(ts, r)
  <2> HIDE DEF u
  <2>3. \A i \in DOMAIN u : u[i].kind = "ready" => i = Len(ts) + 1 /\ u[i] = r
    BY <2>2 DEF u
  <2>4. Handshake(L, n, tc, u)
    BY <2>1, <2>3 DEF Handshake
  <2>5. QED
    BY <2>4 DEF u
<1>11. Settled(L, N, S, n, (n.queue \o tc) \o sq)
  BY <1>8, <1>c
<1>12. QED
  BY <1>7, <1>10, <1>11 DEF Plays

\* Comparisons of steps.
LEMMA StepArith ==
    /\ \A a \in Nat : \A b : b = a + 1 => b \in Nat /\ b > 0 /\ b - 1 = a /\ b > a /\ b >= a + 1
    /\ \A a, b, c \in Nat : a <= b /\ c > b => c > a
    /\ \A a, b, c \in Nat : b <= c /\ ~(b <= a) => c > a
    /\ \A a, b \in Nat : b <= a => b < a \/ b = a
  OBVIOUS

\* A frame of the client, with nothing left to be done at its step: its world is
\* the checklist of the next one.
LEMMA LinkFrame ==
    ASSUME NEW L \in Seq(LogCmd), NEW N, Downward(N), NEW S, NEW tc \in Seq(ServerPacket),
           NEW sq \in Seq(ServerPacket), NEW ts,
           NEW m \in Machine, Plays(L, N, S, m, tc, sq, ts), ~m.paused, m.step \in N,
           Sorted(m.queue), ~Due(m.queue, m.step), m.step <= m.barrier,
           \A i \in DOMAIN tc : Stamped(tc[i]) => tc[i].step > m.barrier,
           \A i \in DOMAIN sq : Stamped(sq[i]) => sq[i].step > m.barrier,
           NEW n, n.step = m.step + 1, n.map = m.map, n.world = m.world, n.queue = m.queue,
           n.chk = SetChecklist(m.chk, m.step + 1, m.world), ~n.paused
    PROVE  Plays(L, N, S, n, tc, sq, ts)
<1> DEFINE q == m.queue
           P == (q \o tc) \o sq
<1>1. Settled(L, N, S, m, P) /\ Handshake(L, m, tc, ts)
  BY DEF Plays, Loading
<1>2. /\ q \in Seq(WorldCmd) /\ q \in Seq(ServerPacket) /\ q \o tc \in Seq(ServerPacket) /\ P \in Seq(ServerPacket)
      /\ m.step \in Nat /\ m.barrier \in Nat /\ m.chk \in [0 .. ChecklistCount - 1 -> World] /\ m.world \in World
  BY LinkTypes
<1>n. m.step \in Nat /\ m.barrier \in Nat
  BY <1>2
<1>b. n.step = m.step + 1 /\ m.step <= m.barrier
  OBVIOUS
<1>z. \A z \in Nat : z > m.barrier => z > m.step
  BY <1>n, <1>b, StepArith, Zenon
<1> HIDE DEF P
<1>3. ASSUME NEW p \in DOMAIN P, Stamped(P[p]) PROVE P[p].step > m.step
  <2>1. P[p] \in ServerPacket
    <3>1. P \in Seq(ServerPacket)
      BY <1>2
    <3>2. QED
      BY <1>3, <3>1
  <2>2. P[p].step \in Nat
    BY <1>3, <2>1, ClockFacts
  <2>3. CASE \E i \in DOMAIN q : P[p] = q[i]
    <3>1. PICK i \in DOMAIN q : P[p] = q[i]
      BY <2>3
    <3>2. q # <<>>
      BY <3>1
    <3>3. Head(q).step \in Nat /\ Head(q).step <= q[i].step
      BY <1>2, <3>2, SortedFacts
    <3>4. ~(Head(q).step <= m.step)
      BY <3>2 DEF Due
    <3>a. q[i].step \in Nat
      BY <2>2, <3>1, Zenon
    <3>b. \A h, z \in Nat : h <= z /\ ~(h <= m.step) => z > m.step
      BY <1>n, StepArith, Zenon
    <3>c. Head(q).step \in Nat /\ q[i].step \in Nat
      BY <3>a, <3>3
    <3>5. q[i].step > m.step
      BY <3>b, <3>c, <3>3, <3>4, Zenon
    <3>6. QED
      BY <3>1, <3>5, Zenon
  <2>4. CASE \E i \in DOMAIN tc : P[p] = tc[i]
    <3>1. P[p].step > m.barrier
      BY <1>3, <2>4
    <3>2. QED
      BY <1>z, <2>2, <3>1, Zenon
  <2>5. CASE \E i \in DOMAIN sq : P[p] = sq[i]
    <3>1. P[p].step > m.barrier
      BY <1>3, <2>5
    <3>2. QED
      BY <1>z, <2>2, <3>1, Zenon
  <2>6. (\E i \in DOMAIN q : P[p] = q[i]) \/ (\E i \in DOMAIN tc : P[p] = tc[i]) \/ (\E i \in DOMAIN sq : P[p] = sq[i])
    <3> DEFINE a == q \o tc
    <3>1. \A i \in DOMAIN a : (i \in DOMAIN q /\ a[i] = q[i]) \/ (\E j \in DOMAIN tc : a[i] = tc[j])
      <4>1. q \in Seq(ServerPacket)
        BY <1>2
      <4>2. \A i \in DOMAIN (q \o tc) : i \notin DOMAIN q => i - Len(q) \in DOMAIN tc /\ (q \o tc)[i] = tc[i - Len(q)]
        BY ONLY <4>1, tc \in Seq(ServerPacket), ConcatFacts
      <4>3. \A i \in DOMAIN q : (q \o tc)[i] = q[i]
        BY ONLY <4>1, tc \in Seq(ServerPacket), ConcatFacts
      <4>4. QED
        BY ONLY <4>2, <4>3 DEF a
    <3>2. a \in Seq(ServerPacket)
      BY <1>2
    <3> HIDE DEF a
    <3>3. \A i \in DOMAIN (a \o sq) : (i \in DOMAIN a /\ (a \o sq)[i] = a[i]) \/ (\E j \in DOMAIN sq : (a \o sq)[i] = sq[j])
      BY <3>2, ConcatFacts
    <3>4. P = a \o sq
      BY DEF a, P
    <3>5. QED
      BY <3>1, <3>3, <3>4
  <2>7. QED
    BY <2>3, <2>4, <2>5, <2>6
<1> HIDE DEF q
<1>4. PICK k \in 0 .. Len(L) : At(L, k, m.world, m.map, m.step) /\ StreamOK(L, P, k, N, S)
  BY <1>1 DEF Settled
<1>5. Len(L) \in Nat /\ k \in Nat /\ DOMAIN L = 1 .. Len(L) /\ \A i \in DOMAIN L : L[i].step \in Nat
  <2>1. Len(L) \in Nat /\ DOMAIN L = 1 .. Len(L) /\ \A i \in DOMAIN L : L[i].step \in Nat
    BY LogFacts
  <2>2. QED
    BY <2>1
<1>6. ASSUME NEW i \in 1 .. k PROVE L[i].step \in Nat /\ L[i].step <= m.step
  <2>1. i \in DOMAIN L
    BY <1>5
  <2>2. QED
    BY <1>4, <1>5, <2>1 DEF At
<1>7. ASSUME NEW i \in k + 1 .. Len(L) PROVE L[i].step >= m.step + 1
  <2>1. i \in DOMAIN L /\ i > k /\ L[i].step \in Nat
    <3>1. i \in DOMAIN L /\ i > k
      BY <1>5
    <3>2. QED
      BY <1>5, <3>1
  <2>2. ASSUME L[i].step <= m.step PROVE FALSE
    <3>1. L[i].step \in N
      BY <2>1, <2>2 DEF Downward
    <3>2. PICK p \in DOMAIN P : Stamped(P[p]) /\ P[p] = L[i]
      BY <1>2, <1>4, <2>1, <3>1, FollowFound DEF StreamOK
    <3>3. P[p].step > m.step
      BY <1>3, <3>2
    <3>4. QED
      BY <1>n, <2>1, <2>2, <3>2, <3>3
  <2>3. QED
    BY <1>n, <2>1, <2>2
<1>8. Chk(L, m.step + 1, m.world)
  <2>1. m.world = WorldOf(L, k) /\ m.step + 1 # 0
    BY <1>n, <1>4 DEF At
  <2>2. \A i \in 1 .. k : L[i].step < m.step + 1
    BY <1>n, <1>6
  <2>3. QED
    BY <1>7, <2>1, <2>2 DEF Chk
<1>9. LCHKLST(n.chk, m.step + 1) = m.world /\ LCHKLST(n.chk, m.step) = LCHKLST(m.chk, m.step)
  <2>1. /\ m.step + 1 \in Nat /\ m.step < m.step + 1 /\ m.step + 1 < m.step + ChecklistCount
    BY <1>n, BoundsAssumption
  <2> DEFINE s == m.step + 1
  <2>2. s \in Nat /\ m.step < s /\ s < m.step + ChecklistCount /\ n.chk = SetChecklist(m.chk, s, m.world)
    BY <2>1
  <2> HIDE DEF s
  <2>3. /\ LCHKLST(SetChecklist(m.chk, s, m.world), s) = m.world
        /\ \A u \in Nat : u < s /\ s < u + ChecklistCount =>
              LCHKLST(SetChecklist(m.chk, s, m.world), u) = LCHKLST(m.chk, u)
    <3>1. m.chk \in [0 .. ChecklistCount - 1 -> World] /\ s \in Nat
      BY <1>2, <2>2
    <3>2. QED
      BY ONLY <3>1, RingSet
  <2>4. LCHKLST(n.chk, s) = m.world /\ LCHKLST(n.chk, m.step) = LCHKLST(m.chk, m.step)
    BY <1>2, <2>2, <2>3
  <2>5. QED
    BY <2>4 DEF s
<1>10. Settled(L, N, S, n, P)
  <2>1. n.step > 0 /\ n.step - 1 = m.step
    BY <1>n, <1>b, StepArith, Zenon
  <2>2. Chk(L, n.step, LCHKLST(n.chk, n.step))
    BY <1>8, <1>9
  <2>3. Chk(L, n.step - 1, LCHKLST(n.chk, n.step - 1))
    BY <1>1, <1>9, <2>1 DEF Settled
  <2>4. At(L, k, n.world, n.map, n.step)
    <3>1. \A i \in 1 .. k : L[i].step <= n.step
      BY <1>n, <1>6
    <3>2. QED
      BY <1>4, <3>1 DEF At
  <2>5. QED
    BY <1>4, <2>1, <2>2, <2>3, <2>4 DEF Settled
<1>11. Handshake(L, n, tc, ts)
  BY <1>1 DEF Handshake
<1>12. (n.queue \o tc) \o sq = P
  BY DEF P, q
<1>13. QED
  BY <1>10, <1>11, <1>12 DEF Plays

\* A client in a game works and says nothing.
LEMMA DoneTurn ==
    ASSUME TypeOK, TypeOK', LockstepInv, NEW L \in Seq(LogCmd), NEW reach \in [Client -> Nat], WInv(L, reach),
           NEW c \in Client, InGame(c), NEW n, n.state = "ingame",
           CliBecomes(c, n), UNCHANGED <<toClient, toServer, lost>>,
           n.barrier \in Near(c, reach[c]),
           Plays(L, Near(c, reach[c]), sStep, client[c], toClient[c], sendq[c], toServer[c])
           => Plays(L, Near(c, reach[c]), sStep, n, toClient[c], sendq[c], toServer[c])
    PROVE  WorldInv'
<1> USE DEF serverVars
<1>1. /\ client'[c] = n /\ \A d \in Client \ {c} : client'[d] = client[d]
      /\ UNCHANGED <<serverVars, sendq, why, toClient, toServer>>
  BY DEF CliBecomes, TypeOK
<1>2. \A d \in Client : IsClean(d)' <=> IsClean(d)
  BY DEF CliBecomes, IsClean
<1>3. InGame(c)'
  BY <1>1 DEF InGame
<1>4. IsClean(c) => Says(L, sStep, toServer[c]) /\
         Plays(L, Near(c, reach[c]), sStep, client[c], toClient[c], sendq[c], toServer[c])
  BY TurnFacts
<1>5. \A d \in Client : toServer'[d] = toServer[d] /\ sendq'[d] = sendq[d] /\ toClient'[d] = toClient[d]
  BY <1>1
<1>6. IsClean(c)' => /\ IsClean(c) /\ Says(L, sStep, toServer'[c])
                     /\ Plays(L, Near(c, reach[c]), sStep, client'[c], toClient'[c], sendq[c], toServer'[c])
  BY <1>1, <1>2, <1>4, <1>5
<1>7. client'[c].barrier \in Near(c, reach[c])
  BY <1>1
<1>8. \A i \in DOMAIN toServer'[c] : i \in DOMAIN toServer[c] /\ toServer'[c][i] = toServer[c][i]
  BY <1>5
<1>9. QED
  BY <1>1, <1>2, <1>3, <1>5, <1>6, <1>7, <1>8, PlayTurn

\* A client in a game executes the first command of its queue, one that is not
\* an NWC_SYNC of its world.
LEMMA ExecuteTurn ==
    ASSUME TypeOK, TypeOK', LockstepInv, NEW L \in Seq(LogCmd), NEW reach \in [Client -> Nat], WInv(L, reach),
           NEW c \in Client, CliExecuteCheck(c) \/ CliExecuteTool(c)
    PROVE  WorldInv'
<1> USE DEF serverVars, ghostVars
<1> DEFINE tc == toClient[c]
           sq == sendq[c]
           ts == toServer[c]
           m == client[c]
           N == Near(c, reach[c])
           x == Head(m.queue)
           d == [m EXCEPT !.queue = Tail(@)]
           e == [m EXCEPT !.world = Append(@, Done(m.step, x.tool))]
           t == [e EXCEPT !.queue = Tail(@)]
<1>1. /\ LogOK(L) /\ Downward(N) /\ N \subseteq Nat /\ m.step \in N /\ m.barrier \in N
      /\ m.step \in Nat /\ m.queue \in Seq(WorldCmd)
      /\ m \in Machine /\ tc \in Seq(ServerPacket) /\ sq \in Seq(ServerPacket)
  BY TurnFacts
<1>2. InGame(c) /\ m.queue # <<>> /\ x.step <= m.step /\ x.kind \in {"check", "tool"}
  BY DEF CliExecuteCheck, CliExecuteTool, CliExecute, Due
<1>3. x = m.queue[1] /\ x \in WorldCmd /\ x.step \in Nat
  BY <1>1, <1>2, TailFacts, ClockFacts
<1>4. Past(c) \/ x.step = m.step
  <2>1. m.step \in Nat /\ x.step \in Nat /\ x.step <= m.step
    BY <1>1, <1>2, <1>3
  <2>2. x.step < m.step \/ x.step = m.step
    BY ONLY <2>1
  <2>3. QED
    BY <2>2 DEF Past
<1>5. IsClean(c) => Plays(L, N, sStep, m, tc, sq, ts)
  BY <1>2, TurnFacts
<1>6. /\ d.step = m.step /\ d.map = m.map /\ d.world = m.world /\ d.chk = m.chk
      /\ d.paused = m.paused /\ d.state = m.state /\ d.barrier = m.barrier /\ d.queue = Tail(m.queue)
  BY <1>1 DEF Machine
<1>7. /\ t.step = m.step /\ t.map = m.map /\ t.world = Append(m.world, Done(m.step, x.tool)) /\ t.chk = m.chk
      /\ t.paused = m.paused /\ t.state = m.state /\ t.barrier = m.barrier /\ t.queue = Tail(m.queue)
  <2> DEFINE f == Append(m.world, Done(m.step, x.tool))
  <2>1. /\ e.step = m.step /\ e.map = m.map /\ e.world = f /\ e.chk = m.chk
        /\ e.paused = m.paused /\ e.state = m.state /\ e.barrier = m.barrier /\ e.queue = m.queue
    <3> HIDE DEF f
    <3>1. f = Append(m.world, Done(m.step, x.tool))
      BY DEF f
    <3>2. QED
      BY <1>1, <3>1 DEF Machine
  <2>2. e \in [state : {"offline", "waitJoin", "waitSync", "waitGame", "ingame"},
               step : Nat, barrier : Nat, map : Nat, queue : Seq(WorldCmd),
               world : {f}, chk : [0 .. ChecklistCount - 1 -> World], paused : BOOLEAN]
    <3> HIDE DEF f
    <3>1. f = Append(m.world, Done(m.step, x.tool))
      BY DEF f
    <3>2. QED
      BY <1>1, <3>1 DEF Machine
  <2> HIDE DEF e, f
  <2>3. /\ t.step = e.step /\ t.map = e.map /\ t.world = e.world /\ t.chk = e.chk
        /\ t.paused = e.paused /\ t.state = e.state /\ t.barrier = e.barrier /\ t.queue = Tail(e.queue)
    BY <2>2
  <2>4. QED
    BY <2>1, <2>3 DEF f
<1>8. m.state = "ingame"
  BY <1>2 DEF InGame
<1>9. \/ Leave(c, "late")
      \/ /\ ~Past(c) /\ x.kind = "check" /\ LCHKLST(m.chk, x.srvStep) # x.chk /\ Leave(c, "desync")
      \/ /\ ~Past(c) /\ x.kind = "tool" /\ LCHKLST(m.chk, x.lastStep) # x.lastChk /\ Leave(c, "desync")
      \/ /\ x.kind = "check" \/ (~Past(c) /\ AnotherWorld(c))
         /\ CliBecomes(c, d) /\ UNCHANGED <<toClient, toServer, lost>>
      \/ /\ ~Past(c) /\ ~AnotherWorld(c) /\ x.kind = "tool"
         /\ CliBecomes(c, t) /\ UNCHANGED <<toClient, toServer, lost>>
  <2>1. CASE CliExecuteCheck(c)
    BY <2>1 DEF CliExecuteCheck, CliExecute, Executes
  <2>2. CASE CliExecuteTool(c)
    BY <2>2 DEF CliExecuteTool, CliExecute, Executes, Mismatch
  <2>3. QED
    BY <2>1, <2>2
<1> HIDE DEF d, t, e, m, N, x, tc, sq, ts
<1>10. ASSUME NEW reason \in {"late", "desync"}, Leave(c, reason), reason = "desync" => ~IsClean(c) PROVE WorldInv'
  <2>1. LeaveNow(c, reason) /\ UNCHANGED <<serverVars, sendq, glitches, lost>>
    BY <1>10 DEF Leave
  <2>2. QED
    BY <1>10, <2>1, LeaveTurn
<1>11. ASSUME ~Past(c), IsClean(c)
       PROVE  /\ x.kind = "check" => LCHKLST(m.chk, x.srvStep) = x.chk
              /\ x.kind = "tool" => LCHKLST(m.chk, x.lastStep) = x.lastChk
  BY <1>1, <1>2, <1>3, <1>4, <1>5, <1>11, LinkChecks
<1>12. ASSUME x.kind = "check" \/ (~Past(c) /\ AnotherWorld(c))
       PROVE  Plays(L, N, sStep, m, tc, sq, ts) => Plays(L, N, sStep, d, tc, sq, ts)
  <2>1. Stamped(x) => x.step \in N /\ x.map # m.map
    BY <1>1, <1>2, <1>4, <1>12 DEF Stamped, AnotherWorld, m, x
  <2>2. QED
    BY <1>1, <1>2, <1>3, <1>6, <2>1, LinkDrop
<1>13. ASSUME ~Past(c), ~AnotherWorld(c), x.kind = "tool"
       PROVE  Plays(L, N, sStep, m, tc, sq, ts) => Plays(L, N, sStep, t, tc, sq, ts)
  <2>1. x.step = m.step /\ x.step \in N /\ x.map = m.map
    BY <1>1, <1>4, <1>13 DEF AnotherWorld, m, x
  <2>2. QED
    BY <1>1, <1>2, <1>3, <1>7, <1>13, <2>1, LinkTool
<1>14. CASE /\ x.kind = "check" \/ (~Past(c) /\ AnotherWorld(c))
            /\ CliBecomes(c, d) /\ UNCHANGED <<toClient, toServer, lost>>
  <2>1. d.state = "ingame" /\ d.barrier \in N
    BY <1>1, <1>6, <1>8
  <2>2. QED
    BY <1>2, <1>12, <1>14, <2>1, DoneTurn DEF N, m, tc, sq, ts
<1>15. CASE /\ ~Past(c) /\ ~AnotherWorld(c) /\ x.kind = "tool"
            /\ CliBecomes(c, t) /\ UNCHANGED <<toClient, toServer, lost>>
  <2>1. t.state = "ingame" /\ t.barrier \in N
    BY <1>1, <1>7, <1>8
  <2>2. QED
    BY <1>2, <1>13, <1>15, <2>1, DoneTurn DEF N, m, tc, sq, ts
<1>16. QED
  BY <1>9, <1>10, <1>11, <1>14, <1>15

\* A client knows the checklist of its step, even if it has never been told it.
LEMMA LinkKnows ==
    ASSUME NEW L, NEW N, NEW S, NEW tc, NEW sq, NEW ts, NEW m, Plays(L, N, S, m, tc, sq, ts)
    PROVE  Chk(L, m.step, LCHKLST(m.chk, m.step))
<1>1. CASE Loading(m)
  <2>1. 0 % ChecklistCount \in 0 .. ChecklistCount - 1
    BY BoundsAssumption
  <2>2. m.chk = NoChecklists /\ m.step = 0
    BY <1>1 DEF Loading
  <2>3. LCHKLST(m.chk, m.step) = Blank
    BY <2>1, <2>2 DEF LCHKLST, NoChecklists
  <2>4. QED
    BY <2>2, <2>3 DEF Chk
<1>2. CASE Settled(L, N, S, m, (m.queue \o tc) \o sq)
  BY <1>2 DEF Settled
<1>3. QED
  BY <1>1, <1>2 DEF Plays

\* A client in a game executes an NWC_SYNC of its world, unless it gives up.
LEMMA SyncTurn ==
    ASSUME TypeOK, TypeOK', LockstepInv, NEW L \in Seq(LogCmd), NEW reach \in [Client -> Nat], WInv(L, reach),
           NEW c \in Client, CliExecuteSync(c)
    PROVE  WorldInv'
<1> USE DEF serverVars, ghostVars
<1> DEFINE tc == toClient[c]
           sq == sendq[c]
           ts == toServer[c]
           m == client[c]
           N == Near(c, reach[c])
           x == Head(m.queue)
           d == [m EXCEPT !.queue = Tail(@)]
           f == Append(m.world, Done(m.step, Reload))
           n == [m EXCEPT !.world = Append(@, Done(m.step, Reload)), !.queue = <<>>, !.paused = TRUE,
                          !.barrier = m.step, !.map = x.newMap]
           r == ReadyPacket(m.step, x.newMap, LCHKLST(m.chk, m.step))
           dropped == {i \in 2 .. Len(m.queue) : m.queue[i].map = x.newMap /\ ~IgnoreOldEvents(m.queue[i])}
<1>1. /\ LogOK(L) /\ Downward(N) /\ N \subseteq Nat /\ m.step \in N /\ m.barrier \in N
      /\ m.step \in Nat /\ m.queue \in Seq(WorldCmd) /\ m.world \in World /\ m.chk \in [0 .. ChecklistCount - 1 -> World]
      /\ m \in Machine /\ tc \in Seq(ServerPacket) /\ sq \in Seq(ServerPacket) /\ ts \in Seq(ClientPacket)
      /\ m.step <= sStep
  BY TurnFacts
<1>2. InGame(c) /\ m.queue # <<>> /\ x.step <= m.step /\ x.kind = "sync"
  BY DEF CliExecuteSync, CliExecute, Due
<1>3. x = m.queue[1] /\ x \in WorldCmd /\ x.step \in Nat
  BY <1>1, <1>2, TailFacts, ClockFacts
<1>4. Past(c) \/ x.step = m.step
  <2>1. m.step \in Nat /\ x.step \in Nat /\ x.step <= m.step
    BY <1>1, <1>2, <1>3
  <2>2. x.step < m.step \/ x.step = m.step
    BY ONLY <2>1
  <2>3. QED
    BY <2>2 DEF Past
<1>5. IsClean(c) => Plays(L, N, sStep, m, tc, sq, ts) /\ Says(L, sStep, ts)
  BY <1>2, TurnFacts
<1>6. /\ d.step = m.step /\ d.map = m.map /\ d.world = m.world /\ d.chk = m.chk
      /\ d.paused = m.paused /\ d.state = m.state /\ d.barrier = m.barrier /\ d.queue = Tail(m.queue)
  BY <1>1 DEF Machine
<1>7. /\ n.step = m.step /\ n.map = x.newMap /\ n.world = f /\ n.chk = m.chk
      /\ n.paused = TRUE /\ n.state = m.state /\ n.barrier = m.step /\ n.queue = <<>>
  BY <1>1 DEF Machine
<1>8. m.state = "ingame"
  BY <1>2 DEF InGame
<1>9. \/ Leave(c, "late")
      \/ /\ ~Past(c) /\ AnotherWorld(c)
         /\ CliBecomes(c, d) /\ UNCHANGED <<toClient, toServer, lost>>
      \/ /\ ~Past(c) /\ ~AnotherWorld(c) /\ CliBecomes(c, n) /\ UNCHANGED toClient
         /\ toServer' = [toServer EXCEPT ![c] = Append(@, r)]
         /\ lost' = IF dropped = {} THEN lost ELSE lost \cup {c}
  BY DEF CliExecuteSync, Executes
<1>10. x.newMap \in Nat /\ r \in ClientPacket /\ r.kind = "ready" /\ r.step = m.step /\ r.map = x.newMap
       /\ r.chk = LCHKLST(m.chk, m.step)
  <2>1. x.newMap \in Nat
    BY <1>2, <1>3 DEF WorldCmd, ToolCmd, SyncCmd, CheckCmd
  <2>2. LCHKLST(m.chk, m.step) \in World
    BY <1>1, RingFacts
  <2>3. r \in ClientPacket
    BY <1>1, <2>1, <2>2, PacketFacts
  <2>4. QED
    BY <2>1, <2>3 DEF ReadyPacket
<1>11. ASSUME dropped = {}, NEW i \in DOMAIN m.queue, i > 1, Stamped(m.queue[i]) PROVE m.queue[i].map # x.newMap
  <2>1. i \in 2 .. Len(m.queue)
    BY <1>1, <1>11
  <2>2. ~IgnoreOldEvents(m.queue[i])
    BY <1>11 DEF IgnoreOldEvents, Stamped
  <2>3. QED
    BY <1>11, <2>1, <2>2
<1> HIDE DEF d, n, m, N, x, tc, sq, ts, r, dropped, f
<1>12. CASE Leave(c, "late")
  <2>1. LeaveNow(c, "late") /\ UNCHANGED <<serverVars, sendq, glitches, lost>>
    BY <1>12 DEF Leave
  <2>2. QED
    BY <2>1, LeaveTurn
<1>13. CASE ~Past(c) /\ AnotherWorld(c) /\ CliBecomes(c, d) /\ UNCHANGED <<toClient, toServer, lost>>
  <2>1. Stamped(x) => x.step \in N /\ x.map # m.map
    BY <1>1, <1>4, <1>13 DEF AnotherWorld, m, x
  <2>2. Plays(L, N, sStep, m, tc, sq, ts) => Plays(L, N, sStep, d, tc, sq, ts)
    BY <1>1, <1>2, <1>3, <1>6, <2>1, LinkDrop
  <2>3. d.state = "ingame" /\ d.barrier \in N
    BY <1>1, <1>6, <1>8
  <2>4. QED
    BY <1>2, <1>13, <2>2, <2>3, DoneTurn DEF N, m, tc, sq, ts
<1>14. CASE /\ ~Past(c) /\ ~AnotherWorld(c) /\ CliBecomes(c, n) /\ UNCHANGED toClient
            /\ toServer' = [toServer EXCEPT ![c] = Append(@, r)]
            /\ lost' = IF dropped = {} THEN lost ELSE lost \cup {c}
  <2>1. x.step = m.step /\ x.step \in N /\ x.map = m.map
    BY <1>1, <1>4, <1>14 DEF AnotherWorld, m, x
  <2>2. ASSUME dropped = {}, Plays(L, N, sStep, m, tc, sq, ts)
        PROVE  Plays(L, N, sStep, n, tc, sq, Append(ts, r)) /\ Chk(L, m.step, LCHKLST(m.chk, m.step))
    <3>1. Clears(m.queue, x.newMap)
      BY <1>11, <2>2 DEF Clears
    <3>2. n.world = Append(m.world, Done(m.step, Reload))
      BY <1>7 DEF f
    <3>3. /\ LogOK(L) /\ Downward(N) /\ tc \in Seq(ServerPacket) /\ sq \in Seq(ServerPacket)
          /\ ts \in Seq(ClientPacket) /\ m \in Machine /\ m.queue # <<>> /\ x = m.queue[1] /\ x.kind = "sync"
          /\ x.step = m.step /\ x.step \in N /\ x.map = m.map
      BY <1>1, <1>2, <1>3, <2>1
    <3>4. /\ n.step = m.step /\ n.map = x.newMap /\ n.chk = m.chk /\ n.paused = TRUE /\ n.queue = <<>>
          /\ r \in ClientPacket /\ r.kind = "ready" /\ r.step = m.step /\ r.map = x.newMap
      BY <1>7, <1>10
    <3>5. Plays(L, N, sStep, n, tc, sq, Append(ts, r))
      BY ONLY <2>2, <3>1, <3>2, <3>3, <3>4, L \in Seq(LogCmd), LinkSync
    <3>6. QED
      BY <2>2, <3>5, LinkKnows
  <2>3. ASSUME Says(L, sStep, ts), Chk(L, m.step, LCHKLST(m.chk, m.step)) PROVE Says(L, sStep, Append(ts, r))
    <3>1. r.kind = "ready" /\ r.step <= sStep /\ Chk(L, r.step, r.chk)
      BY <1>1, <1>10, <2>3
    <3>2. QED
      BY <1>1, <1>10, <2>3, <3>1, SaysMore
  <2>4. /\ client'[c] = n /\ toServer'[c] = Append(ts, r) /\ toClient'[c] = tc /\ sendq'[c] = sq
        /\ \A e \in Client \ {c} : toClient'[e] = toClient[e] /\ toServer'[e] = toServer[e] /\ client'[e] = client[e]
        /\ UNCHANGED <<serverVars, sendq, why>>
    BY <1>14 DEF CliBecomes, TypeOK, tc, ts, sq
  <2>5. /\ IsClean(c)' => dropped = {} /\ IsClean(c)
        /\ \A e \in Client : IsClean(e)' => IsClean(e)
    BY <1>14 DEF CliBecomes, IsClean
  <2>6. IsClean(c)' => /\ IsClean(c) /\ Says(L, sStep, toServer'[c])
                       /\ Plays(L, N, sStep, client'[c], toClient'[c], sendq[c], toServer'[c])
    BY <1>5, <2>2, <2>3, <2>4, <2>5 DEF sq
  <2>7. InGame(c)' /\ client'[c].barrier \in N
    BY <1>1, <1>7, <1>8, <2>4 DEF InGame
  <2>8. \A i \in DOMAIN toServer'[c] : \/ i \in DOMAIN ts /\ toServer'[c][i] = ts[i]
                                       \/ toServer'[c][i].kind # "join"
    <3>1. \A i \in DOMAIN Append(ts, r) : (i \in DOMAIN ts /\ Append(ts, r)[i] = ts[i]) \/ Append(ts, r)[i] = r
      BY <1>1, <1>10, AppendFacts
    <3>2. r.kind # "join"
      BY <1>10
    <3>3. QED
      BY <2>4, <3>1, <3>2
  <2>9. toClient'[c] = toClient[c]
    BY <2>4 DEF tc
  <2>10. QED
    BY <1>2, <2>4, <2>5, <2>6, <2>7, <2>8, <2>9, PlayTurn DEF N, ts
<1>15. QED
  BY <1>9, <1>12, <1>13, <1>14

\* A client in a game tells the server of a tool, with the checklist of its step.
LEMMA LinkSay ==
    ASSUME NEW L, NEW N, NEW S, NEW tc, NEW sq, NEW ts \in Seq(ClientPacket),
           NEW m \in Machine, Plays(L, N, S, m, tc, sq, ts), NEW x \in ClientPacket, x.kind = "tool"
    PROVE  Plays(L, N, S, m, tc, sq, Append(ts, x)) /\ Chk(L, m.step, LCHKLST(m.chk, m.step))
<1> DEFINE u == Append(ts, x)
<1>1. \A i \in DOMAIN u : u[i].kind = "ready" => i \in DOMAIN ts /\ u[i] = ts[i]
  <2>1. \A i \in DOMAIN u : (i \in DOMAIN ts /\ u[i] = ts[i]) \/ u[i] = x
    BY AppendFacts
  <2>2. QED
    BY <2>1
<1> HIDE DEF u
<1>2. (\A j \in DOMAIN ts : ts[j].kind # "ready") => \A j \in DOMAIN u : u[j].kind # "ready"
  BY <1>1
<1>3. Handshake(L, m, tc, ts) => Handshake(L, m, tc, u)
  BY <1>1 DEF Handshake
<1>4. Plays(L, N, S, m, tc, sq, u)
  BY <1>2, <1>3 DEF Plays
<1>5. QED
  BY <1>4, LinkKnows DEF u

\* A client takes a frame, issues a tool, diverges, or quits.
LEMMA WorkTurn ==
    ASSUME TypeOK, TypeOK', LockstepInv, NEW L \in Seq(LogCmd), NEW reach \in [Client -> Nat], WInv(L, reach),
           NEW c \in Client,
           CliRun(c) \/ CliQuit(c) \/ Diverge(c) \/ \E t \in Tool : CliTool(c, t)
    PROVE  WorldInv'
<1> USE DEF serverVars, ghostVars, wireVars
<1> DEFINE tc == toClient[c]
           sq == sendq[c]
           ts == toServer[c]
           m == client[c]
           N == Near(c, reach[c])
<1>1. /\ LogOK(L) /\ Downward(N) /\ N \subseteq Nat /\ m.step \in N /\ m.barrier \in N
      /\ m.step \in Nat /\ m.barrier \in Nat /\ sStep \in Nat /\ m.queue \in Seq(WorldCmd)
      /\ m.chk \in [0 .. ChecklistCount - 1 -> World] /\ m.world \in World
      /\ m \in Machine /\ tc \in Seq(ServerPacket) /\ sq \in Seq(ServerPacket) /\ ts \in Seq(ClientPacket)
      /\ m.step <= sStep /\ m.step <= m.barrier /\ m.map \in Nat /\ Sorted(m.queue)
  BY TurnFacts
<1>2. IsClean(c) /\ InGame(c) => Plays(L, N, sStep, m, tc, sq, ts) /\ Says(L, sStep, ts)
  BY TurnFacts
<1>3. CASE CliExecuteCheck(c) \/ CliExecuteTool(c)
  BY <1>3, ExecuteTurn
<1>4. CASE CliExecuteSync(c)
  BY <1>4, SyncTurn
<1>5. CASE CliFrame(c)
  <2> DEFINE n == [m EXCEPT !.step = @ + 1, !.chk = SetChecklist(@, m.step + 1, m.world)]
  <2>1. /\ InGame(c) /\ ~m.paused /\ ~Due(m.queue, m.step)
        /\ CliBecomes(c, n) /\ UNCHANGED <<toClient, toServer, lost>>
    BY <1>5 DEF CliFrame
  <2>2. /\ n.step = m.step + 1 /\ n.map = m.map /\ n.world = m.world /\ n.queue = m.queue
        /\ n.chk = SetChecklist(m.chk, m.step + 1, m.world) /\ n.paused = m.paused
        /\ n.state = m.state /\ n.barrier = m.barrier
    BY <1>1 DEF Machine
  <2>3. n.state = "ingame" /\ n.barrier \in N
    BY <1>1, <2>1, <2>2 DEF InGame
  <2>4. /\ \A i \in DOMAIN tc : Stamped(tc[i]) => tc[i].step > m.barrier
        /\ \A i \in DOMAIN sq : Stamped(sq[i]) => sq[i].step > m.barrier
    <3>1. StreamInv(tc, m.barrier, sStep) /\ StreamInv(sq, m.barrier, sStep)
      BY DEF LockstepInv, ClientInv, ChannelInv
    <3>2. QED
      BY <3>1 DEF StreamInv
  <2> HIDE DEF n, m, N, tc, sq, ts
  <2>5. Plays(L, N, sStep, m, tc, sq, ts) => Plays(L, N, sStep, n, tc, sq, ts)
    BY <1>1, <2>1, <2>2, <2>4, LinkFrame
  <2>6. QED
    BY <2>1, <2>3, <2>5, DoneTurn DEF m, N, tc, sq, ts
<1>6. ASSUME NEW t \in Tool, CliTool(c, t) PROVE WorldInv'
  <2> DEFINE p == ToolPacket(m.step, m.map, t, m.step, LCHKLST(m.chk, m.step))
  <2>1. /\ InGame(c) /\ toServer' = [toServer EXCEPT ![c] = Append(@, p)]
        /\ UNCHANGED <<serverVars, sendq, toClient, client, glitches, lost, why>>
    BY <1>6 DEF CliTool
  <2>2. p \in ClientPacket /\ p.kind = "tool" /\ p.lastStep = m.step /\ p.lastChk = LCHKLST(m.chk, m.step)
    <3>1. LCHKLST(m.chk, m.step) \in World
      BY <1>1, RingFacts
    <3>2. p \in ClientPacket
      BY <1>1, <3>1, PacketFacts
    <3>3. QED
      BY <3>2 DEF ToolPacket
  <2>3. toServer'[c] = Append(ts, p) /\ \A d \in Client \ {c} : toServer'[d] = toServer[d]
    BY <2>1 DEF TypeOK
  <2>4. \A d \in Client : IsClean(d)' <=> IsClean(d)
    BY <2>1 DEF IsClean
  <2> HIDE DEF p, m, N, tc, sq, ts
  <2>5. ASSUME IsClean(c)
        PROVE  Says(L, sStep, Append(ts, p)) /\ Plays(L, N, sStep, m, tc, sq, Append(ts, p))
    <3>1. Plays(L, N, sStep, m, tc, sq, ts) /\ Says(L, sStep, ts)
      BY <1>2, <2>1, <2>5
    <3>2. Plays(L, N, sStep, m, tc, sq, Append(ts, p)) /\ Chk(L, m.step, LCHKLST(m.chk, m.step))
      BY <1>1, <2>2, <3>1, LinkSay
    <3>3. p.lastStep <= sStep /\ Chk(L, p.lastStep, p.lastChk)
      BY <1>1, <2>2, <3>2
    <3>4. QED
      BY <1>1, <2>2, <3>1, <3>2, <3>3, SaysMore
  <2>6. client' = client /\ toClient' = toClient /\ InGame(c)' /\ client'[c].barrier \in N
    BY <1>1, <2>1 DEF InGame, m
  <2>7. IsClean(c)' => /\ IsClean(c) /\ Says(L, sStep, toServer'[c])
                       /\ Plays(L, N, sStep, client'[c], toClient'[c], sendq[c], toServer'[c])
    BY <2>3, <2>4, <2>5, <2>6 DEF m, tc, sq
  <2>8. \A i \in DOMAIN toServer'[c] : \/ i \in DOMAIN ts /\ toServer'[c][i] = ts[i]
                                       \/ toServer'[c][i].kind # "join"
    <3>1. \A i \in DOMAIN Append(ts, p) : (i \in DOMAIN ts /\ Append(ts, p)[i] = ts[i]) \/ Append(ts, p)[i] = p
      BY <1>1, <2>2, AppendFacts
    <3>2. p.kind # "join"
      BY <2>2
    <3>3. QED
      BY <2>3, <3>1, <3>2
  <2>9. QED
    BY <2>1, <2>3, <2>4, <2>6, <2>7, <2>8, PlayTurn DEF N, ts
<1>7. CASE CliQuit(c)
  <2>1. LeaveNow(c, "ok") /\ UNCHANGED <<serverVars, sendq, glitches, lost>>
    BY <1>7 DEF CliQuit
  <2>2. QED
    BY <2>1, LeaveTurn
<1>8. CASE Diverge(c)
  <2>1. /\ InGame(c) /\ client' = [client EXCEPT ![c].world = Append(@, Done(client[c].step, Glitch))]
        /\ UNCHANGED <<serverVars, sendq, toClient, toServer, why>> /\ ~IsClean(c)'
        /\ \A d \in Client : IsClean(d)' => IsClean(d)
    BY <1>8 DEF Diverge, IsClean
  <2>2. /\ client'[c].state = m.state /\ client'[c].barrier = m.barrier
        /\ \A d \in Client \ {c} : client'[d] = client[d]
    <3>1. client'[c] = [m EXCEPT !.world = Append(@, Done(m.step, Glitch))]
      BY <2>1 DEF TypeOK
    <3>2. QED
      BY <1>1, <2>1, <3>1 DEF TypeOK, Machine
  <2>3. InGame(c)' /\ client'[c].barrier \in N
    BY <1>1, <2>1, <2>2 DEF InGame
  <2> HIDE DEF m, N, tc, sq, ts
  <2>4. \A d \in Client : toClient'[d] = toClient[d] /\ toServer'[d] = toServer[d]
    BY <2>1
  <2>5. QED
    BY <2>1, <2>2, <2>3, <2>4, PlayTurn DEF N
<1>9. QED
  BY <1>3, <1>4, <1>5, <1>6, <1>7, <1>8 DEF CliRun

-----------------------------------------------------------------------------
(* Steps of the server that do not concern its world. *)

\* A packet behind all the others that is no game gives nobody a game.
LEMMA ExpectsAppend ==
    ASSUME NEW m, NEW tc \in Seq(ServerPacket), NEW x \in ServerPacket, x.kind # "game"
    PROVE  \A g \in DOMAIN Append(tc, x) : Expects(m, Append(tc, x), g) => g \in DOMAIN tc /\ Expects(m, tc, g)
<1> DEFINE u == Append(tc, x)
<1>1. /\ \A i \in DOMAIN u : (i \in DOMAIN tc /\ u[i] = tc[i]) \/ (i = Len(tc) + 1 /\ u[i] = x)
      /\ DOMAIN tc = 1 .. Len(tc) /\ Len(tc) \in Nat
  <2>1. \A i \in DOMAIN u : (i \in DOMAIN tc /\ u[i] = tc[i]) \/ (i = Len(tc) + 1 /\ u[i] = x)
    <3> DEFINE z == Len(tc) + 1
    <3>1. DOMAIN u = DOMAIN tc \cup {z} /\ u[z] = x /\ \A i \in DOMAIN tc : u[i] = tc[i]
      BY AppendFacts
    <3> HIDE DEF u, z
    <3>2. \A i \in DOMAIN u : (i \in DOMAIN tc /\ u[i] = tc[i]) \/ (i = z /\ u[i] = x)
      BY <3>1
    <3>3. QED
      BY <3>2 DEF z
  <2>2. QED
    BY <2>1
<1> HIDE DEF u
<1>2. SUFFICES ASSUME NEW g \in DOMAIN u, Expects(m, u, g) PROVE g \in DOMAIN tc /\ Expects(m, tc, g)
  BY DEF u
<1>3. g \in DOMAIN tc /\ u[g] = tc[g]
  BY <1>1, <1>2 DEF Expects
<1>4. ASSUME NEW j \in DOMAIN u, j < g PROVE j \in DOMAIN tc /\ u[j] = tc[j]
  <2>1. g \in Nat /\ g <= Len(tc) /\ Len(tc) \in Nat
    BY <1>1, <1>3
  <2>2. j # Len(tc) + 1
    BY <1>4, <2>1
  <2>3. QED
    BY <1>1, <2>2
<1>5. QED
  BY <1>2, <1>3, <1>4 DEF Expects

\* The server closes a connection.
LEMMA RemoveTurn ==
    ASSUME TypeOK, LockstepInv, PausedOnlyWhenEmpty,
           NEW L \in Seq(LogCmd), NEW reach \in [Client -> Nat], WInv(L, reach),
           NEW c \in Client, slot[c] # "inactive", RemoveClient(c), \A d \in Client \ {c} : why'[d] = why[d],
           IsClean(c) => why'[c] \notin {"desync", "kicked"}
    PROVE  WorldInv'
<1> DEFINE tc == toClient[c]
           sq == sendq[c]
           ts == toServer[c]
           m == client[c]
<1>z. PICK z \in Nat : z = sStep
  BY DEF TypeOK
<1> DEFINE O == 0 .. z
           g == [reach EXCEPT ![c] = z]
<1>1. SeatInv(c, reach[c]) /\ FollowInv(c, L, reach[c]) /\ reach[c] \in Nat
  BY DEF WInv
<1>2. /\ m.step \in Nat /\ m.barrier \in Nat /\ sStep \in Nat /\ m.step <= m.barrier /\ m.barrier <= sStep
      /\ \A i \in DOMAIN sq : sq[i].kind \in {"tool", "sync", "check", "step"}
      /\ m \in Machine /\ tc \in Seq(ServerPacket) /\ sq \in Seq(ServerPacket) /\ ts \in Seq(ClientPacket)
  BY <1>1, NearFacts
<1>3. /\ slot'[c] = "inactive" /\ sendq'[c] = <<>> /\ toClient'[c] = Append(tc, EOF) /\ toServer'[c] = <<>>
      /\ \A d \in Client \ {c} : /\ toClient'[d] = toClient[d] /\ toServer'[d] = toServer[d]
                                 /\ slot'[d] = slot[d] /\ sendq'[d] = sendq[d]
      /\ client' = client /\ sStep' = sStep /\ sPaused' = sPaused /\ sQueue' = sQueue
      /\ \A d \in Client : IsClean(d)' <=> IsClean(d)
  BY DEF RemoveClient, TypeOK, IsClean
<1>4. Active(c) /\ ~Active(c)' /\ Near(c, reach[c]) = Nat /\ Near(c, z)' = O
  BY <1>3 DEF Active, Near
<1>5. ServerWorldInv(L)'
  BY DEF RemoveClient, WInv, ServerWorldInv
<1>6. g \in [Client -> Nat] /\ g[c] = z /\ \A d \in Client \ {c} : g[d] = reach[d]
  BY <1>2
<1>7. ASSUME NEW d \in Client, d # c PROVE SeatInv(d, g[d])' /\ FollowInv(d, L, g[d])'
  <2>1. SeatInv(d, reach[d]) /\ FollowInv(d, L, reach[d])
    BY DEF WInv
  <2>2. client'[d] = client[d] /\ why'[d] = why[d]
    BY <1>3, <1>7
  <2>3. SeatInv(d, reach[d])' /\ FollowInv(d, L, reach[d])'
    BY <1>3, <1>7, <2>1, <2>2, Elsewhere
  <2>4. g[d] = reach[d]
    BY <1>6, <1>7
  <2> HIDE DEF g
  <2>5. QED
    BY <2>3, <2>4
<1>8. EOF \in ServerPacket /\ EOF.kind = "eof" /\ Clock(EOF) = 0
  BY DEF ServerPacket, EOF, Clock
<1>9. \A i \in DOMAIN Append(tc, EOF) : (i \in DOMAIN tc /\ Append(tc, EOF)[i] = tc[i]) \/ Append(tc, EOF)[i] = EOF
  BY <1>2, <1>8, AppendFacts
<1> DEFINE u == Append(tc, EOF)
<1>10. JoinInv(m, u, <<>>)
  <2>1. JoinInv(m, tc, ts)
    BY <1>1 DEF SeatInv
  <2> HIDE DEF m, tc, ts, u
  <2>2. \A i \in DOMAIN u : u[i].kind = "join" => i \in DOMAIN tc /\ tc[i].kind = "join"
    BY <1>8, <1>9 DEF u
  <2>3. QED
    BY <2>1, <2>2 DEF JoinInv
<1>11. Awaits(c)' => Awaits(c)
  <2>1. EOF.kind # "game"
    BY <1>8
  <2>2. \A h \in DOMAIN u : Expects(m, u, h) => h \in DOMAIN tc /\ Expects(m, tc, h)
    BY <1>2, <1>8, <2>1, ExpectsAppend
  <2>3. QED
    BY <1>3, <2>2 DEF Awaits, InGame
<1>12. Awaits(c) /\ sPaused => FALSE
  <2>1. Awaits(c) => slot[c] = "playing"
    BY <1>1 DEF SeatInv, TypeOK
  <2>2. sPaused => slot[c] # "playing"
    BY DEF PausedOnlyWhenEmpty, GetPlayingClients
  <2>3. QED
    BY <2>1, <2>2
<1>13. SeatInv(c, z)'
  <2>1. \A i \in DOMAIN tc : Clock(tc[i]) <= sStep
    BY DEF LockstepInv, ClientInv, ChannelInv, StreamInv
  <2>2. \A i \in DOMAIN u : Clock(u[i]) <= sStep
    BY <1>2, <1>8, <1>9, <2>1
  <2> HIDE DEF m, u
  <2>3. client'[c].barrier <= sStep /\ z <= sStep' /\ JoinInv(client'[c], toClient'[c], toServer'[c])
    BY <1>z, <1>2, <1>3, <1>10 DEF m, u
  <2>4. \A i \in DOMAIN toClient'[c] : Clock(toClient'[c][i]) <= z
    BY <1>z, <1>3, <2>2 DEF u
  <2>5. sendq'[c] = <<>> /\ slot'[c] # "connected" /\ (Awaits(c)' => ~sPaused')
    BY <1>3, <1>11, <1>12
  <2>6. client'[c].barrier <= z
    BY <1>z, <1>3, <2>3
  <2>7. QED
    BY <1>4, <2>3, <2>4, <2>5, <2>6 DEF SeatInv
<1>14. /\ Plays(L, Nat, sStep, m, tc, sq, ts) => Plays(L, O, sStep, m, u, <<>>, <<>>)
       /\ Games(L, Nat, sStep, m, tc, sq) => Games(L, O, sStep, m, u, <<>>)
  <2>1. Downward(O) /\ O \subseteq Nat
    BY <1>2 DEF Downward
  <2>2. \A i \in DOMAIN sq : sq[i].kind # "ready" /\ (Stamped(sq[i]) => sq[i].step \notin O)
    <3>1. \A i \in DOMAIN sq : Stamped(sq[i]) => sq[i].step > sStep
      BY <1>1 DEF SeatInv
    <3>2. \A s \in O : ~(s > sStep)
      BY <1>z, <1>2
    <3> HIDE DEF O, sq
    <3>3. QED
      BY <1>2, <3>1, <3>2
  <2>3. m.step <= sStep
    BY <1>2
  <2> HIDE DEF O, sq, tc, ts, m
  <2>4. QED
    BY <1>2, <2>1, <2>2, <2>3, LinkStop DEF u
<1>15. FollowInv(c, L, z)'
  <2>1. Games(L, O, sStep, m, u, <<>>)
    BY <1>1, <1>4, <1>14 DEF FollowInv
  <2>2. ASSUME IsClean(c), InGame(c) PROVE Plays(L, O, sStep, m, u, <<>>, <<>>)
    BY <1>1, <1>4, <1>14, <2>2 DEF FollowInv
  <2>3. Says(L, sStep', toServer'[c])
    BY <1>3 DEF Says
  <2>4. IsClean(c)' => why'[c] \notin {"desync", "kicked"}
    BY <1>3
  <2> HIDE DEF O, sq, tc, ts, m, u
  <2>5. Games(L, Near(c, z)', sStep', client'[c], toClient'[c], sendq'[c])
    BY <1>3, <1>4, <2>1 DEF m, u, tc
  <2>6. IsClean(c)' /\ InGame(c)' => Plays(L, Near(c, z)', sStep', client'[c], toClient'[c], sendq'[c], toServer'[c])
    BY <1>3, <1>4, <2>2 DEF m, u, tc, InGame
  <2>7. QED
    BY <2>3, <2>4, <2>5, <2>6 DEF FollowInv
<1>17. SeatInv(c, g[c])' /\ FollowInv(c, L, g[c])'
  BY <1>6, <1>13, <1>15
<1> HIDE DEF g
<1>18. \A d \in Client : SeatInv(d, g[d])' /\ FollowInv(d, L, g[d])'
  BY <1>7, <1>17
<1>19. QED
  BY <1>5, <1>6, <1>18, WorldFrom

\* The server takes no right checklist for a wrong one.
LEMMA NoMismatch ==
    ASSUME TypeOK, NEW L \in Seq(LogCmd), ServerWorldInv(L), NEW s \in Nat, s <= sStep, NEW w, Chk(L, s, w)
    PROVE  ~Mismatch(sChk, sStep, s, w)
<1> SUFFICES ASSUME Mismatch(sChk, sStep, s, w) PROVE FALSE
  OBVIOUS
<1>1. s + ChecklistCount > sStep /\ LCHKLST(sChk, s) # w
  BY DEF Mismatch, IsChecklistAvailable
<1>2. s \in 0 .. sStep
  BY DEF TypeOK
<1>3. Chk(L, s, LCHKLST(sChk, s))
  BY <1>1, <1>2 DEF ServerWorldInv
<1>4. QED
  BY <1>1, <1>3, ChkUnique

\* What the first packet from a client says.
LEMMA SaysFirst ==
    ASSUME TypeOK, NEW L \in Seq(LogCmd), NEW reach \in [Client -> Nat], WInv(L, reach),
           NEW c \in Client, toServer[c] # <<>>, IsClean(c), NEW x, x = Head(toServer[c])
    PROVE  /\ x.kind = "tool" /\ x.lastStep <= sStep => ~Mismatch(sChk, sStep, x.lastStep, x.lastChk)
           /\ x.kind = "ready" => ~Mismatch(sChk, sStep, x.step, x.chk)
<1> DEFINE ts == toServer[c]
<1>1. ts \in Seq(ClientPacket) /\ Says(L, sStep, ts) /\ ServerWorldInv(L)
  BY DEF TypeOK, WInv, FollowInv
<1> HIDE DEF ts
<1>2. x = ts[1] /\ 1 \in DOMAIN ts /\ x \in ClientPacket
  BY <1>1, TailFacts DEF ts
<1>3. ASSUME x.kind = "tool" PROVE ~Mismatch(sChk, sStep, x.lastStep, x.lastChk)
  <2>1. x.lastStep <= sStep /\ Chk(L, x.lastStep, x.lastChk)
    BY <1>1, <1>2, <1>3 DEF Says
  <2>2. x.lastStep \in Nat
    BY <1>2, <1>3, KindFacts DEF ToolCmd
  <2>3. QED
    BY <1>1, <2>1, <2>2, NoMismatch
<1>4. ASSUME x.kind = "ready" PROVE ~Mismatch(sChk, sStep, x.step, x.chk)
  <2>1. x.step <= sStep /\ Chk(L, x.step, x.chk)
    BY <1>1, <1>2, <1>4 DEF Says
  <2>2. x.step \in Nat
    BY <1>2, <1>4, ClockFacts
  <2>3. QED
    BY <1>1, <2>1, <2>2, NoMismatch
<1>5. QED
  BY <1>3, <1>4

\* The server closes a connection because of a packet from it, or of its end.
LEMMA CloseTurn ==
    ASSUME TypeOK, LockstepInv, PausedOnlyWhenEmpty,
           NEW L \in Seq(LogCmd), NEW reach \in [Client -> Nat], WInv(L, reach), NEW c \in Client,
           slot[c] # "inactive", toServer[c] # <<>>, NEW x, x = Head(toServer[c]),
           \/ RemoveClient(c) /\ UNCHANGED why
           \/ Kick(c, "forgotten")
           \/ /\ Kick(c, "kicked")
              /\ \/ x.kind = "tool" /\ x.lastStep <= sStep /\ Mismatch(sChk, sStep, x.lastStep, x.lastChk)
                 \/ x.kind = "ready" /\ Mismatch(sChk, sStep, x.step, x.chk)
    PROVE  WorldInv'
<1>1. IsClean(c) => why[c] \notin {"desync", "kicked"}
  BY DEF WInv, FollowInv
<1>2. RemoveClient(c) /\ \A d \in Client \ {c} : why'[d] = why[d]
  BY DEF Kick, TypeOK
<1>3. IsClean(c) => why'[c] \notin {"desync", "kicked"}
  <2>1. CASE RemoveClient(c) /\ UNCHANGED why
    BY <1>1, <2>1
  <2>2. CASE Kick(c, "forgotten")
    BY <2>2 DEF Kick, TypeOK
  <2>3. CASE \/ x.kind = "tool" /\ x.lastStep <= sStep /\ Mismatch(sChk, sStep, x.lastStep, x.lastChk)
             \/ x.kind = "ready" /\ Mismatch(sChk, sStep, x.step, x.chk)
    BY <2>3, SaysFirst
  <2>4. QED
    BY <2>1, <2>2, <2>3
<1>4. QED
  BY <1>2, <1>3, RemoveTurn

\* Taking the only element off a sequence.
LEMMA TailSingle ==
    ASSUME NEW x
    PROVE  Tail(<<x>>) = <<>>
<1> DEFINE q == <<x>>
<1>1. q \in Seq({x}) /\ Len(q) = 1
  OBVIOUS
<1> HIDE DEF q
<1>2. Len(Tail(q)) = 0 /\ Tail(q) \in Seq({x})
  BY <1>1
<1>3. \A t \in Seq({x}) : Len(t) = 0 => t = <<>>
  OBVIOUS
<1>4. QED
  BY <1>2, <1>3 DEF q

\* The server reads a packet of c, and does no more than answer it.
LEMMA AnswerTurn ==
    ASSUME TypeOK, LockstepInv, NEW L \in Seq(LogCmd), NEW reach \in [Client -> Nat], WInv(L, reach),
           NEW c \in Client, slot[c] # "inactive", toServer[c] # <<>>, NEW x, x = Head(toServer[c]), TakePacket(c),
           UNCHANGED <<sStep, sMap, sQueue, sWorld, sChk, sPaused, allMaps, nextMap, slot, sendq, client, ghostVars>>,
           \/ UNCHANGED toClient /\ x.kind = "tool"
           \/ toClient' = [toClient EXCEPT ![c] = Append(@, x)] /\ x.kind = "ready"
           \/ toClient' = [toClient EXCEPT ![c] = @ \o <<[kind |-> "join", answer |-> FALSE]>>] /\ x.kind = "join"
    PROVE  WorldInv'
<1> USE DEF ghostVars
<1> DEFINE N == Near(c, reach[c])
           tc == toClient[c]
           sq == sendq[c]
           ts == toServer[c]
           m == client[c]
<1>1. SeatInv(c, reach[c]) /\ FollowInv(c, L, reach[c]) /\ reach[c] \in Nat
  BY DEF WInv
<1>2. /\ Downward(N) /\ N \subseteq Nat /\ m.barrier \in N /\ \A i \in DOMAIN tc : Clock(tc[i]) \in N
      /\ m \in Machine /\ tc \in Seq(ServerPacket) /\ sq \in Seq(ServerPacket) /\ ts \in Seq(ClientPacket)
  BY <1>1, NearFacts
<1>3. N = Nat /\ JoinInv(m, tc, ts)
  BY <1>1 DEF Near, Active, SeatInv
<1>4. x = ts[1] /\ x \in ClientPacket /\ Tail(ts) \in Seq(ClientPacket)
  BY <1>2, TailFacts
<1>5. /\ toServer'[c] = Tail(ts)
      /\ \A d \in Client \ {c} : toServer'[d] = toServer[d] /\ toClient'[d] = toClient[d]
      /\ \A d \in Client : client'[d] = client[d] /\ why'[d] = why[d] /\ (IsClean(d)' <=> IsClean(d))
      /\ sStep' = sStep /\ sendq' = sendq /\ (InGame(c)' <=> InGame(c)) /\ Near(c, reach[c])' = N
  BY DEF TakePacket, TypeOK, IsClean, InGame, Near, Active
<1>6. /\ Plays(L, N, sStep, m, tc, sq, ts) => Plays(L, N, sStep, m, tc, sq, Tail(ts))
      /\ Says(L, sStep, ts) => Says(L, sStep, Tail(ts))
      /\ x.kind # "join" => JoinInv(m, tc, Tail(ts))
  BY <1>2, <1>3, <1>4, LinkHeard
<1>7. IsClean(c) => why[c] \notin {"desync", "kicked"} /\ Says(L, sStep, Tail(ts))
  BY <1>1, <1>6 DEF FollowInv
<1>8. IsClean(c) /\ InGame(c) => Plays(L, N, sStep, m, tc, sq, ts) /\ Says(L, sStep, ts)
  BY <1>1 DEF FollowInv
<1>9. Games(L, N, sStep, m, tc, sq)
  BY <1>1 DEF FollowInv
<1>10. ASSUME NEW u \in Seq(ServerPacket), toClient'[c] = u, JoinInv(m, u, Tail(ts)), Awaits(c)' => Awaits(c),
              \A i \in DOMAIN u : Clock(u[i]) \in N, Games(L, N, sStep, m, u, sq),
              IsClean(c) /\ InGame(c) => Plays(L, N, sStep, m, u, sq, Tail(ts))
       PROVE  WorldInv'
  <2> HIDE DEF N, tc, sq, ts, m
  <2>1. client'[c] = m /\ sendq'[c] = sq
    BY <1>5 DEF m, sq
  <2>2. FollowInv(c, L, reach[c])'
    BY <1>5, <1>7, <1>10, <2>1 DEF FollowInv
  <2>3. JoinInv(client'[c], toClient'[c], toServer'[c])
    BY <1>5, <1>10, <2>1
  <2>4. client'[c].barrier \in N /\ \A i \in DOMAIN toClient'[c] : Clock(toClient'[c][i]) \in N
    BY <1>2, <1>10, <2>1
  <2>5. QED
    BY <1>5, <1>10, <2>2, <2>3, <2>4, Turn DEF N
<1>11. CASE UNCHANGED toClient /\ x.kind = "tool"
  <2>1. toClient'[c] = tc /\ Awaits(c)' = Awaits(c)
    BY <1>5, <1>11 DEF Awaits, InGame
  <2>2. JoinInv(m, tc, Tail(ts))
    BY <1>6, <1>11
  <2> HIDE DEF N, tc, sq, ts, m
  <2>3. QED
    BY <1>2, <1>6, <1>8, <1>9, <1>10, <2>1, <2>2
<1>12. CASE toClient' = [toClient EXCEPT ![c] = Append(@, x)] /\ x.kind = "ready"
  <2>1. x \in ServerPacket
    BY <1>4, <1>12, KindFacts DEF ServerPacket
  <2>2. toClient'[c] = Append(tc, x) /\ Append(tc, x) \in Seq(ServerPacket)
    BY <1>2, <1>12, <2>1 DEF TypeOK
  <2>3. \A i \in DOMAIN Append(tc, x) : (i \in DOMAIN tc /\ Append(tc, x)[i] = tc[i]) \/ Append(tc, x)[i] = x
    BY <1>2, <2>1, AppendFacts
  <2>4. Clock(x) \in Nat
    BY <2>1, ClockFacts
  <2> HIDE DEF N, tc, sq, ts, m
  <2>5. /\ Plays(L, N, sStep, m, tc, sq, ts) /\ Says(L, sStep, ts) => Plays(L, N, sStep, m, Append(tc, x), sq, Tail(ts))
        /\ Games(L, N, sStep, m, Append(tc, x), sq)
        /\ \A g \in DOMAIN Append(tc, x) : ~Expects(m, Append(tc, x), g)
        /\ JoinInv(m, Append(tc, x), Tail(ts))
    <3>1. ts # <<>>
      BY DEF ts
    <3>2. QED
      BY <1>2, <1>3, <1>4, <1>12, <2>1, <3>1, LinkEcho
  <2>6. Awaits(c)' => Awaits(c)
    BY <1>5, <2>2, <2>5 DEF Awaits, m
  <2>7. \A i \in DOMAIN Append(tc, x) : Clock(Append(tc, x)[i]) \in N
    BY <1>2, <1>3, <2>3, <2>4
  <2>8. QED
    BY <1>8, <1>10, <2>2, <2>5, <2>6, <2>7
<1>13. CASE /\ toClient' = [toClient EXCEPT ![c] = @ \o <<[kind |-> "join", answer |-> FALSE]>>]
            /\ x.kind = "join"
  <2> DEFINE a == [kind |-> "join", answer |-> FALSE]
             u == Append(tc, a)
  <2>1. a \in ServerPacket /\ a.kind = "join" /\ Clock(a) = 0
    BY DEF ServerPacket, Clock
  <2>2. toClient'[c] = u /\ u \in Seq(ServerPacket)
    <3>1. toClient'[c] = tc \o <<a>>
      BY <1>13 DEF TypeOK
    <3> HIDE DEF a
    <3>2. tc \o <<a>> = Append(tc, a) /\ Append(tc, a) \in Seq(ServerPacket)
      BY <1>2, <2>1
    <3>3. QED
      BY <3>1, <3>2
  <2>3. \A i \in DOMAIN u : (i \in DOMAIN tc /\ u[i] = tc[i]) \/ (i = Len(tc) + 1 /\ u[i] = a)
    <3> HIDE DEF a
    <3> DEFINE z == Len(tc) + 1
    <3>1. DOMAIN u = DOMAIN tc \cup {z} /\ u[z] = a /\ \A i \in DOMAIN tc : u[i] = tc[i]
      BY <1>2, <2>1, AppendFacts
    <3> HIDE DEF u, z
    <3>2. \A i \in DOMAIN u : (i \in DOMAIN tc /\ u[i] = tc[i]) \/ (i = z /\ u[i] = a)
      BY <3>1
    <3>3. QED
      BY <3>2 DEF z
  <2>4. \A g \in DOMAIN u : Expects(m, u, g) => g \in DOMAIN tc /\ Expects(m, tc, g)
    <3>1. a.kind # "game"
      BY <2>1
    <3> HIDE DEF a
    <3>2. QED
      BY <1>2, <2>1, <3>1, ExpectsAppend
  <2>5. ts # <<>> /\ 1 \in DOMAIN ts /\ ts[1].kind = "join"
    BY <1>2, <1>4, <1>13, TailFacts
  <2> HIDE DEF N, tc, sq, ts, m, a, u
  <2>6. /\ m.state \notin {"waitSync", "waitGame", "ingame"}
        /\ m.state = "waitJoin" => ts = <<[kind |-> "join"]>> /\ \A i \in DOMAIN tc : tc[i].kind # "join"
    BY <1>3, <2>5 DEF JoinInv
  <2>7. \A g \in DOMAIN u : ~Expects(m, u, g)
    BY <2>4, <2>6 DEF Expects
  <2>8. JoinInv(m, u, Tail(ts))
    <3>1. m.state = "waitJoin" => Tail(ts) = <<>>
      BY <2>6, TailSingle, Zenon
    <3>2. m.state = "waitJoin" => \A i, j \in DOMAIN u : u[i].kind = "join" /\ u[j].kind = "join" => i = j
      BY <2>1, <2>3, <2>6
    <3>3. QED
      BY <2>6, <3>1, <3>2 DEF JoinInv
  <2>9. ~InGame(c) /\ ~Awaits(c)'
    BY <1>5, <2>2, <2>6, <2>7 DEF Awaits, InGame, m
  <2>10. \A i \in DOMAIN u : Clock(u[i]) \in N
    BY <1>2, <1>3, <2>1, <2>3
  <2>11. Games(L, N, sStep, m, u, sq)
    BY <2>7 DEF Games
  <2>12. QED
    BY <1>10, <2>2, <2>8, <2>9, <2>10, <2>11
<1>14. QED
  BY <1>11, <1>12, <1>13

\* Packets behind the others that are neither games nor answers to a join.
LEMMA ExpectsConcat ==
    ASSUME NEW m, NEW tc \in Seq(ServerPacket), NEW s \in Seq(ServerPacket),
           \A i \in DOMAIN s : s[i].kind \notin {"game", "join"}
    PROVE  /\ \A g \in DOMAIN (tc \o s) : Expects(m, tc \o s, g) => g \in DOMAIN tc /\ Expects(m, tc, g)
           /\ \A ts : JoinInv(m, tc, ts) => JoinInv(m, tc \o s, ts)
<1> DEFINE u == tc \o s
<1>1. \A i \in DOMAIN u : (i \in DOMAIN tc /\ u[i] = tc[i]) \/ u[i].kind \notin {"game", "join"}
  BY ConcatFacts
<1> HIDE DEF u
<1>2. \A g \in DOMAIN u : Expects(m, u, g) => g \in DOMAIN tc /\ Expects(m, tc, g)
  <2>1. SUFFICES ASSUME NEW g \in DOMAIN u, Expects(m, u, g) PROVE g \in DOMAIN tc /\ Expects(m, tc, g)
    OBVIOUS
  <2>2. g \in DOMAIN tc /\ u[g] = tc[g] /\ tc[g].kind = "game"
    BY <1>1, <2>1 DEF Expects
  <2>3. \A j \in DOMAIN u : u[j].kind = "join" => j \in DOMAIN tc /\ tc[j].kind = "join"
    BY <1>1
  <2>4. QED
    BY <2>1, <2>2, <2>3 DEF Expects
<1>3. \A ts : JoinInv(m, tc, ts) => JoinInv(m, u, ts)
  <2>1. \A i \in DOMAIN u : u[i].kind = "join" => i \in DOMAIN tc /\ tc[i].kind = "join"
    BY <1>1
  <2>2. QED
    BY <2>1 DEF JoinInv
<1>4. QED
  BY <1>2, <1>3 DEF u

\* The send queues go to the wires.
LEMMA FlushTurn ==
    ASSUME TypeOK, LockstepInv, NEW L \in Seq(LogCmd), NEW reach \in [Client -> Nat], WInv(L, reach), SrvFlush
    PROVE  WorldInv'
<1> USE DEF ghostVars
<1>1. ServerWorldInv(L)'
  BY DEF SrvFlush, WInv, ServerWorldInv
<1>2. ASSUME NEW c \in Client PROVE SeatInv(c, reach[c])' /\ FollowInv(c, L, reach[c])'
  <2> DEFINE N == Near(c, reach[c])
             m == client[c]
             tc == toClient[c]
             sq == sendq[c]
             ts == toServer[c]
  <2>1. SeatInv(c, reach[c]) /\ FollowInv(c, L, reach[c]) /\ reach[c] \in Nat
    BY DEF WInv
  <2>2. /\ m \in Machine /\ tc \in Seq(ServerPacket) /\ sq \in Seq(ServerPacket) /\ ts \in Seq(ClientPacket)
        /\ \A i \in DOMAIN sq : sq[i].kind \in {"tool", "sync", "check", "step"}
    BY <2>1, NearFacts
  <2>3. /\ toClient'[c] = tc \o sq /\ sendq'[c] = <<>> /\ toServer' = toServer /\ client' = client /\ why' = why
        /\ sStep' = sStep /\ sPaused' = sPaused /\ sQueue' = sQueue /\ slot' = slot
        /\ glitches' = glitches /\ lost' = lost
    BY DEF SrvFlush
  <2>4. CASE ~Active(c)
    <3>1. sq = <<>>
      BY <2>1, <2>4 DEF SeatInv
    <3>2. tc \o sq = tc
      BY <2>2, <3>1, ConcatLaws
    <3>3. toClient'[c] = toClient[c] /\ sendq'[c] = sendq[c] /\ (IsClean(c)' => IsClean(c))
      BY <2>3, <3>1, <3>2 DEF IsClean
    <3>4. QED
      BY <2>1, <2>3, <3>3, Elsewhere
  <2>5. CASE Active(c)
    <3>1. /\ Active(c)' /\ Near(c, reach[c])' = N /\ (InGame(c)' <=> InGame(c)) /\ (IsClean(c)' <=> IsClean(c))
      BY <2>3, <2>5 DEF Active, Near, InGame, IsClean
    <3> DEFINE u == tc \o sq
    <3> HIDE DEF N, m, tc, sq, ts, u
    <3>2. /\ \A i \in DOMAIN sq : sq[i].kind \notin {"game", "join"}
          /\ \A i \in DOMAIN sq : sq[i].kind \notin {"game", "join", "ready"}
      BY <2>2
    <3>3. /\ \A g \in DOMAIN u : Expects(m, u, g) => g \in DOMAIN tc /\ Expects(m, tc, g)
          /\ JoinInv(m, tc, ts) => JoinInv(m, u, ts)
      BY <2>2, <3>2, ExpectsConcat DEF u
    <3>4. /\ Plays(L, N, sStep, m, tc, sq, ts) => Plays(L, N, sStep, m, u, <<>>, ts)
          /\ Games(L, N, sStep, m, tc, sq) => Games(L, N, sStep, m, u, <<>>)
      BY <2>2, <3>2, LinkFlush DEF u
    <3>5. toClient'[c] = u /\ client'[c] = m /\ toServer'[c] = ts
      BY <2>3 DEF u, m, ts
    <3>6. Awaits(c)' => Awaits(c)
      BY <3>1, <3>3, <3>5 DEF Awaits, m, tc
    <3>7. JoinInv(m, u, ts)
      BY <2>1, <3>3 DEF SeatInv, m, tc, ts
    <3>8. SeatInv(c, reach[c])'
      BY <2>1, <2>3, <2>5, <3>1, <3>5, <3>6, <3>7 DEF SeatInv
    <3>9. /\ Games(L, N, sStep, m, u, <<>>)
          /\ IsClean(c) => /\ why[c] \notin {"desync", "kicked"} /\ Says(L, sStep, ts)
                           /\ InGame(c) => Plays(L, N, sStep, m, u, <<>>, ts)
      BY <2>1, <3>4 DEF FollowInv, N, m, tc, sq, ts
    <3>10. FollowInv(c, L, reach[c])'
      BY <2>3, <3>1, <3>5, <3>9 DEF FollowInv
    <3>11. QED
      BY <3>8, <3>10
  <2>6. QED
    BY <2>4, <2>5
<1>3. QED
  BY <1>1, <1>2, WorldFrom

\* A pass of the server's main loop without a frame.
LEMMA IdleTurn ==
    ASSUME NEW L \in Seq(LogCmd), NEW reach \in [Client -> Nat], WInv(L, reach), SrvIdle
    PROVE  WorldInv'
<1> USE DEF ghostVars, wireVars
<1>1. ServerWorldInv(L)'
  BY DEF SrvIdle, WInv, ServerWorldInv
<1>2. ASSUME NEW c \in Client PROVE SeatInv(c, reach[c])' /\ FollowInv(c, L, reach[c])'
  <2>1. SeatInv(c, reach[c]) /\ FollowInv(c, L, reach[c])
    BY DEF WInv
  <2>2. /\ sStep' = sStep /\ slot'[c] = slot[c] /\ sendq'[c] = sendq[c] /\ toClient'[c] = toClient[c]
        /\ toServer'[c] = toServer[c] /\ client'[c] = client[c] /\ why'[c] = why[c]
        /\ sPaused' = sPaused /\ sQueue' = sQueue /\ (IsClean(c)' => IsClean(c))
    BY DEF SrvIdle, IsClean
  <2>3. QED
    BY <2>1, <2>2, Elsewhere
<1>3. QED
  BY <1>1, <1>2, WorldFrom

\* The server knows the checklist of its step.
LEMMA ServerKnows ==
    ASSUME TypeOK, NEW L \in Seq(LogCmd), ServerWorldInv(L)
    PROVE  Chk(L, sStep, LCHKLST(sChk, sStep))
<1>1. sStep \in 0 .. sStep /\ sStep + ChecklistCount > sStep
  BY BoundsAssumption DEF TypeOK
<1>2. QED
  BY <1>1 DEF ServerWorldInv

\* A command x that is no NWC_SYNC for a joining client is sent to everybody,
\* perhaps while tools of clients are read.
LEMMA BroadcastTurn ==
    ASSUME TypeOK, LockstepInv, NEW L \in Seq(LogCmd), NEW reach \in [Client -> Nat], WInv(L, reach),
           NEW x \in LogCmd, x.map = sMap, x.step = sStep + 1, PacketOK(L, x, sStep),
           x.kind = "sync" => x.newMap = nextMap /\ nextMap' = nextMap + 1 /\ x.client \notin Client,
           x.kind # "sync" => nextMap' = nextMap, Broadcast(x),
           UNCHANGED <<sStep, sMap, sWorld, sChk, allMaps, slot, toClient, client, why, glitches, lost>>, sPaused' => sPaused,
           \A d \in Client : \/ toServer'[d] = toServer[d]
                             \/ toServer[d] # <<>> /\ toServer[d][1].kind = "tool" /\ toServer'[d] = Tail(toServer[d])
    PROVE  WorldInv'
<1>1. ServerWorldInv(L) /\ LogOK(L) /\ sStep \in Nat /\ nextMap \in Nat /\ sQueue \in Seq(WorldCmd) /\ x \in WorldCmd
  BY DEF WInv, ServerWorldInv, TypeOK, LogCmd, WorldCmd
<1>2. sQueue' = CommandQueueAppend(sQueue, x) /\ sendq' = SendAll(x)
  BY DEF Broadcast
<1>3. nextMap' \in Nat /\ nextMap <= nextMap' /\ (x.kind = "sync" => x.newMap = nextMap /\ nextMap < nextMap')
  <2>1. nextMap + 1 \in Nat /\ nextMap <= nextMap + 1 /\ nextMap < nextMap + 1 /\ nextMap <= nextMap
    BY <1>1
  <2>2. QED
    BY <1>1, <2>1
<1>4. PICK M \in Seq(LogCmd) : Sent(M, L, x) /\ ServerWorldInv(M)'
  BY <1>1, <1>2, <1>3, SendServer
<1>5. \A i \in DOMAIN sQueue' : sQueue'[i] = x \/ \E j \in DOMAIN sQueue : sQueue'[i] = sQueue[j]
  BY <1>1, <1>2, QueueAppendFacts
<1>6. ASSUME NEW d \in Client PROVE SeatInv(d, reach[d])' /\ FollowInv(d, M, reach[d])'
  <2>1. SeatInv(d, reach[d]) /\ FollowInv(d, L, reach[d]) /\ reach[d] \in Nat
    BY DEF WInv
  <2>2. PICK ts : ts = toServer'[d]
    OBVIOUS
  <2>3. IsClean(d)' => IsClean(d)
    BY DEF IsClean
  <2>4. x.kind = "sync" => x.client # d
    OBVIOUS
  <2>5. ts = toServer[d] \/ (toServer[d] # <<>> /\ toServer[d][1].kind = "tool" /\ ts = Tail(toServer[d]))
    BY <2>2
  <2>6. sStep' = sStep /\ slot'[d] = slot[d] /\ toClient'[d] = toClient[d] /\ client'[d] = client[d] /\ why'[d] = why[d]
    OBVIOUS
  <2>7. QED
    BY <1>1, <1>2, <1>4, <1>5, <2>1, <2>2, <2>3, <2>4, <2>5, <2>6, SendClient
<1>7. QED
  BY <1>4, <1>6, WorldFrom

\* The kinds of the commands that the server stamps.
LEMMA StampFacts ==
    ASSUME TypeOK, NEW L \in Seq(LogCmd), ServerWorldInv(L)
    PROVE  /\ \A t \in Tool : \A x : x = ToolPacket(sStep + 1, sMap, t, sStep, LCHKLST(sChk, sStep)) =>
                 /\ x \in LogCmd /\ x.kind = "tool" /\ x.map = sMap /\ x.step = sStep + 1 /\ PacketOK(L, x, sStep)
           /\ \A d \in Client \cup {NoClient} : \A x : x = SyncPacket(d) =>
                 /\ x \in LogCmd /\ x.kind = "sync" /\ x.map = sMap /\ x.step = sStep + 1 /\ PacketOK(L, x, sStep)
                 /\ x.newMap = nextMap /\ x.client = d
<1>1. sStep \in Nat /\ sStep + 1 \in Nat /\ sStep + 1 <= sStep + 1
  BY DEF TypeOK
<1>2. Chk(L, sStep, LCHKLST(sChk, sStep))
  BY ServerKnows
<1>3. ASSUME NEW t \in Tool, NEW x, x = ToolPacket(sStep + 1, sMap, t, sStep, LCHKLST(sChk, sStep))
      PROVE  /\ x \in LogCmd /\ x.kind = "tool" /\ x.map = sMap /\ x.step = sStep + 1 /\ PacketOK(L, x, sStep)
  <2>1. /\ x.kind = "tool" /\ x.map = sMap /\ x.step = sStep + 1 /\ x.lastStep = sStep
        /\ x.lastChk = LCHKLST(sChk, sStep)
    BY <1>3 DEF ToolPacket
  <2>2. x \in WorldCmd
    BY <1>3, CommandFacts
  <2>3. x \in LogCmd
    BY <2>1, <2>2 DEF WorldCmd, LogCmd, ToolCmd, CheckCmd
  <2>4. PacketOK(L, x, sStep)
    BY <1>1, <1>2, <2>1 DEF PacketOK
  <2>5. QED
    BY <2>1, <2>3, <2>4
<1>4. ASSUME NEW d \in Client \cup {NoClient}, NEW x, x = SyncPacket(d)
      PROVE  /\ x \in LogCmd /\ x.kind = "sync" /\ x.map = sMap /\ x.step = sStep + 1 /\ PacketOK(L, x, sStep)
             /\ x.newMap = nextMap /\ x.client = d
  <2>1. x.kind = "sync" /\ x.map = sMap /\ x.step = sStep + 1 /\ x.newMap = nextMap /\ x.client = d
    BY <1>4 DEF SyncPacket
  <2>2. x \in WorldCmd
    BY <1>4, CommandFacts
  <2>3. x \in LogCmd
    BY <2>1, <2>2 DEF WorldCmd, LogCmd, SyncCmd, CheckCmd
  <2>4. PacketOK(L, x, sStep)
    BY <1>1, <2>1 DEF PacketOK
  <2>5. QED
    BY <2>1, <2>3, <2>4
<1>5. QED
  BY <1>3, <1>4

\* The server issues a tool, or it is told to synchronise while somebody plays.
LEMMA IssueTurn ==
    ASSUME TypeOK, LockstepInv, NEW L \in Seq(LogCmd), NEW reach \in [Client -> Nat], WInv(L, reach),
           \/ \E t \in Tool : SrvTool(t)
           \/ SrvForceSync /\ ~sPaused
    PROVE  WorldInv'
<1>1. ServerWorldInv(L)
  BY DEF WInv
<1>2. CASE \E t \in Tool : SrvTool(t)
  <2>1. PICK t \in Tool : SrvTool(t)
    BY <1>2
  <2>2. PICK x : x = ToolPacket(sStep + 1, sMap, t, sStep, LCHKLST(sChk, sStep))
    OBVIOUS
  <2>3. x \in LogCmd /\ x.kind = "tool" /\ x.map = sMap /\ x.step = sStep + 1 /\ PacketOK(L, x, sStep)
    BY <1>1, <2>2, StampFacts
  <2>4. /\ Broadcast(x) /\ nextMap' = nextMap /\ (sPaused' => sPaused)
        /\ UNCHANGED <<sStep, sMap, sWorld, sChk, allMaps, slot, toClient, client, why, glitches, lost>>
        /\ \A d \in Client : toServer'[d] = toServer[d]
    BY <2>1, <2>2 DEF SrvTool
  <2>5. QED
    BY <2>3, <2>4, BroadcastTurn
<1>3. CASE SrvForceSync /\ ~sPaused
  <2>1. PICK x : x = SyncPacket(NoClient)
    OBVIOUS
  <2>2. /\ x \in LogCmd /\ x.kind = "sync" /\ x.map = sMap /\ x.step = sStep + 1 /\ PacketOK(L, x, sStep)
        /\ x.newMap = nextMap /\ x.client = NoClient
    BY <1>1, <2>1, StampFacts
  <2>3. /\ Broadcast(x) /\ nextMap' = nextMap + 1 /\ (sPaused' => sPaused)
        /\ UNCHANGED <<sStep, sMap, sWorld, sChk, allMaps, slot, toClient, client, why, glitches, lost>>
        /\ \A d \in Client : toServer'[d] = toServer[d]
    BY <1>3, <2>1 DEF SrvForceSync
  <2>4. NoClient \notin Client
    BY BoundsAssumption
  <2>5. QED
    BY <2>2, <2>3, <2>4, BroadcastTurn
<1>4. QED
  BY <1>2, <1>3

\* The server receives a tool, an NWC_READY, or the end of a connection.
LEMMA HearServerTurn ==
    ASSUME TypeOK, LockstepInv, PausedOnlyWhenEmpty,
           NEW L \in Seq(LogCmd), NEW reach \in [Client -> Nat], WInv(L, reach), NEW c \in Client,
           SrvReceiveTool(c) \/ SrvReceiveReady(c) \/ SrvReceiveEOF(c)
    PROVE  WorldInv'
<1> USE DEF serverVars, ghostVars
<1>1. ServerWorldInv(L) /\ toServer[c] \in Seq(ClientPacket)
  BY DEF WInv, TypeOK
<1>2. PICK x : x = Head(toServer[c])
  OBVIOUS
<1>3. slot[c] # "inactive" /\ toServer[c] # <<>>
  BY DEF SrvReceiveTool, SrvReceiveReady, SrvReceiveEOF, Received
<1>4. x \in ClientPacket /\ x = toServer[c][1]
  BY <1>1, <1>2, <1>3, TailFacts
<1>5. CASE SrvReceiveTool(c)
  <2>1. x.kind = "tool" /\ x \in ToolCmd
    BY <1>2, <1>4, <1>5, KindFacts DEF SrvReceiveTool, Received
  <2>2. x.lastStep \in Nat /\ x.tool \in Tool
    BY <2>1 DEF ToolCmd
  <2>3. CASE x.lastStep <= sStep /\ Mismatch(sChk, sStep, x.lastStep, x.lastChk) /\ Kick(c, "kicked")
    BY <1>2, <1>3, <2>1, <2>3, CloseTurn
  <2>4. CASE TakePacket(c) /\ UNCHANGED <<serverVars, sendq, toClient, client, ghostVars>>
    BY <1>2, <1>3, <2>1, <2>4, AnswerTurn
  <2>5. CASE /\ TakePacket(c)
             /\ Broadcast(ToolPacket(sStep + 1, sMap, x.tool, sStep, LCHKLST(sChk, sStep)))
             /\ UNCHANGED <<sStep, sMap, sWorld, sChk, sPaused, allMaps, nextMap, slot, toClient, client, ghostVars>>
    <3>1. PICK y : y = ToolPacket(sStep + 1, sMap, x.tool, sStep, LCHKLST(sChk, sStep))
      OBVIOUS
    <3>2. y \in LogCmd /\ y.kind = "tool" /\ y.map = sMap /\ y.step = sStep + 1 /\ PacketOK(L, y, sStep)
      BY <1>1, <2>2, <3>1, StampFacts
    <3>3. /\ Broadcast(y) /\ nextMap' = nextMap /\ (sPaused' => sPaused)
          /\ UNCHANGED <<sStep, sMap, sWorld, sChk, allMaps, slot, toClient, client, why, glitches, lost>>
      BY <2>5, <3>1
    <3>4. \A d \in Client : \/ toServer'[d] = toServer[d]
                            \/ toServer[d] # <<>> /\ toServer[d][1].kind = "tool" /\ toServer'[d] = Tail(toServer[d])
      BY <1>3, <1>4, <2>1, <2>5 DEF TakePacket, TypeOK
    <3>5. QED
      BY <3>2, <3>3, <3>4, BroadcastTurn
  <2>6. ~(x.lastStep > sStep) => x.lastStep <= sStep
    BY <2>2 DEF TypeOK
  <2>7. QED
    BY <1>2, <1>5, <2>3, <2>4, <2>5, <2>6 DEF SrvReceiveTool
<1>6. CASE SrvReceiveReady(c)
  <2>1. x.kind = "ready"
    BY <1>2, <1>6 DEF SrvReceiveReady, Received
  <2>2. CASE Mismatch(sChk, sStep, x.step, x.chk) /\ Kick(c, "kicked")
    BY <1>2, <1>3, <2>1, <2>2, CloseTurn
  <2>3. CASE Kick(c, "forgotten")
    BY <1>2, <1>3, <2>3, CloseTurn
  <2>4. CASE TakePacket(c) /\ EchoReady(c, x) /\ UNCHANGED <<serverVars, sendq, client, ghostVars>>
    <3>1. toClient' = [toClient EXCEPT ![c] = Append(@, x)]
      BY <2>4 DEF EchoReady
    <3>2. QED
      BY <1>2, <1>3, <2>1, <2>4, <3>1, AnswerTurn
  <2>5. QED
    BY <1>2, <1>6, <2>2, <2>3, <2>4 DEF SrvReceiveReady
<1>7. CASE SrvReceiveEOF(c)
  <2>1. RemoveClient(c) /\ UNCHANGED why
    BY <1>7 DEF SrvReceiveEOF
  <2>2. QED
    BY <1>2, <1>3, <2>1, CloseTurn
<1>8. QED
  BY <1>5, <1>6, <1>7

\* The positions of a sequence that has got one more element.
LEMMA AppendWhere ==
    ASSUME NEW S, NEW q \in Seq(S), NEW e \in S, NEW u, u = Append(q, e)
    PROVE  /\ u \in Seq(S)
           /\ \A i \in DOMAIN u : (i \in DOMAIN q /\ u[i] = q[i]) \/ (i = Len(q) + 1 /\ u[i] = e)
<1> DEFINE z == Len(q) + 1
<1>1. DOMAIN u = DOMAIN q \cup {z} /\ u[z] = e /\ (\A i \in DOMAIN q : u[i] = q[i]) /\ u \in Seq(S)
  BY AppendFacts
<1> HIDE DEF z
<1>2. \A i \in DOMAIN u : (i \in DOMAIN q /\ u[i] = q[i]) \/ (i = z /\ u[i] = e)
  BY <1>1
<1>3. QED
  BY <1>1, <1>2 DEF z

\* An NWC_JOIN is answered, and the NWC_SYNC for it follows.
LEMMA JoinAnswered ==
    ASSUME NEW m, NEW tc \in Seq(ServerPacket), NEW ts \in Seq(ClientPacket), ts # <<>>, ts[1].kind = "join",
           JoinInv(m, tc, ts), NEW a \in ServerPacket, a.kind = "join",
           NEW x \in ServerPacket, x.kind \notin {"game", "join"},
           NEW u, u = Append(Append(tc, a), x)
    PROVE  /\ u \in Seq(ServerPacket) /\ JoinInv(m, u, Tail(ts)) /\ m.state # "ingame"
           /\ \A g \in DOMAIN u : ~Expects(m, u, g)
<1> DEFINE v == Append(tc, a)
<1>1. /\ v \in Seq(ServerPacket)
      /\ \A i \in DOMAIN v : (i \in DOMAIN tc /\ v[i] = tc[i]) \/ (i = Len(tc) + 1 /\ v[i] = a)
  BY AppendWhere
<1>2. \A g \in DOMAIN v : Expects(m, v, g) => g \in DOMAIN tc /\ Expects(m, tc, g)
  <2>1. a.kind # "game"
    OBVIOUS
  <2>2. QED
    BY <2>1, ExpectsAppend
<1> HIDE DEF v
<1>3. u = Append(v, x)
  BY DEF v
<1>4. u \in Seq(ServerPacket) /\ \A i \in DOMAIN u : (i \in DOMAIN v /\ u[i] = v[i]) \/ (i = Len(v) + 1 /\ u[i] = x)
  BY <1>1, <1>3, AppendWhere
<1>5. \A g \in DOMAIN u : Expects(m, u, g) => g \in DOMAIN v /\ Expects(m, v, g)
  <2>1. x.kind # "game"
    OBVIOUS
  <2>2. QED
    BY <1>1, <1>3, <2>1, ExpectsAppend
<1>6. 1 \in DOMAIN ts
  BY TailFacts
<1>7. /\ m.state \notin {"waitSync", "waitGame", "ingame"}
      /\ m.state = "waitJoin" => ts = <<[kind |-> "join"]>> /\ \A i \in DOMAIN tc : tc[i].kind # "join"
  BY <1>6 DEF JoinInv
<1>8. \A g \in DOMAIN tc : ~Expects(m, tc, g)
  BY <1>7 DEF Expects
<1>9. JoinInv(m, u, Tail(ts))
  <2>1. m.state = "waitJoin" => Tail(ts) = <<>>
    BY <1>7, TailSingle, Zenon
  <2>2. \A i \in DOMAIN u : u[i].kind = "join" => i \in DOMAIN v /\ v[i].kind = "join"
    BY <1>4
  <2>3. \A i \in DOMAIN v : v[i].kind = "join" => (i \in DOMAIN tc /\ tc[i].kind = "join") \/ i = Len(tc) + 1
    BY <1>1
  <2>4. m.state = "waitJoin" => \A i, j \in DOMAIN u : u[i].kind = "join" /\ u[j].kind = "join" => i = j
    BY <1>7, <2>2, <2>3
  <2>5. QED
    BY <1>7, <2>1, <2>4 DEF JoinInv
<1>10. QED
  BY <1>2, <1>4, <1>5, <1>7, <1>8, <1>9

\* The server accepts the join of c.
LEMMA AcceptTurn ==
    ASSUME TypeOK, LockstepInv, NEW L \in Seq(LogCmd), NEW reach \in [Client -> Nat], WInv(L, reach),
           NEW c \in Client, SrvReceiveJoin(c), pending = NoClient
    PROVE  WorldInv'
<1> USE DEF ghostVars
<1> DEFINE tc == toClient[c]
           sq == sendq[c]
           ts == toServer[c]
           m == client[c]
           a == [kind |-> "join", answer |-> TRUE]
<1>1. PICK x : x = SyncPacket(c)
  OBVIOUS
<1>2. /\ ServerWorldInv(L) /\ LogOK(L) /\ sStep \in Nat /\ nextMap \in Nat /\ sQueue \in Seq(WorldCmd)
      /\ slot[c] # "inactive" /\ ts # <<>> /\ Head(ts).kind = "join"
  BY DEF WInv, ServerWorldInv, TypeOK, SrvReceiveJoin, Received
<1>3. /\ x \in LogCmd /\ x.kind = "sync" /\ x.map = sMap /\ x.step = sStep + 1 /\ PacketOK(L, x, sStep)
      /\ x.newMap = nextMap /\ x.client = c
  BY <1>1, <1>2, StampFacts
<1>4. x \in WorldCmd /\ x \in ServerPacket
  BY <1>3 DEF LogCmd, WorldCmd, ServerPacket
<1>5. /\ sQueue' = CommandQueueAppend(sQueue, x) /\ sendq' = SendAll(x) /\ nextMap' = nextMap + 1 /\ sPaused' = FALSE
      /\ toClient' = [toClient EXCEPT ![c] = @ \o <<a>> \o <<x>>] /\ TakePacket(c)
      /\ UNCHANGED <<sStep, sMap, sWorld, sChk, allMaps, slot, client, why, glitches, lost>>
  BY <1>1 DEF SrvReceiveJoin, AcceptJoin, Broadcast
<1>6. /\ \A d \in Client \ {c} : toClient'[d] = toClient[d] /\ toServer'[d] = toServer[d]
      /\ toServer'[c] = Tail(ts) /\ toClient'[c] = (tc \o <<a>>) \o <<x>>
      /\ tc \in Seq(ServerPacket) /\ sq \in Seq(ServerPacket) /\ ts \in Seq(ClientPacket)
  BY <1>5 DEF TakePacket, TypeOK
<1>7. nextMap' \in Nat /\ nextMap <= nextMap' /\ nextMap < nextMap'
  BY <1>2, <1>5
<1>8. PICK M \in Seq(LogCmd) : Sent(M, L, x) /\ ServerWorldInv(M)'
  BY <1>2, <1>3, <1>5, <1>7, SendServer
<1>9. \A i \in DOMAIN sQueue' : sQueue'[i] = x \/ \E j \in DOMAIN sQueue : sQueue'[i] = sQueue[j]
  BY <1>2, <1>4, <1>5, QueueAppendFacts
<1>10. ASSUME NEW d \in Client, d # c PROVE SeatInv(d, reach[d])' /\ FollowInv(d, M, reach[d])'
  <2>1. SeatInv(d, reach[d]) /\ FollowInv(d, L, reach[d]) /\ reach[d] \in Nat
    BY DEF WInv
  <2>2. PICK tsd : tsd = toServer'[d]
    OBVIOUS
  <2>3. IsClean(d)' => IsClean(d)
    BY <1>5 DEF IsClean
  <2>4. x.kind = "sync" => x.client # d
    BY <1>3, <1>10
  <2>5. tsd = toServer[d]
    BY <1>6, <1>10, <2>2
  <2>6. /\ sStep' = sStep /\ slot'[d] = slot[d] /\ toClient'[d] = toClient[d] /\ client'[d] = client[d] /\ why'[d] = why[d]
        /\ (sPaused' => sPaused)
    BY <1>5, <1>6, <1>10
  <2> HIDE DEF tc, sq, ts, m, a
  <2>7. QED
    BY <1>2, <1>3, <1>5, <1>8, <1>9, <2>1, <2>2, <2>3, <2>4, <2>5, <2>6, SendClient
<1>11. a \in ServerPacket /\ a.kind = "join"
  BY DEF ServerPacket
<1> DEFINE u == Append(Append(tc, a), x)
<1>12. toClient'[c] = u
  <2> HIDE DEF tc, a, u
  <2>1. \A q \in Seq(ServerPacket) : \A e \in ServerPacket : q \o <<e>> = Append(q, e) /\ Append(q, e) \in Seq(ServerPacket)
    OBVIOUS
  <2>2. tc \o <<a>> = Append(tc, a) /\ Append(tc, a) \in Seq(ServerPacket)
    BY <1>6, <1>11, <2>1
  <2>3. Append(tc, a) \o <<x>> = Append(Append(tc, a), x)
    BY <1>4, <2>1, <2>2
  <2>4. QED
    BY <1>6, <2>2, <2>3 DEF u
<1>13. SeatInv(c, reach[c]) /\ FollowInv(c, L, reach[c]) /\ ts[1].kind = "join"
  <2>1. ts[1] = Head(ts)
    BY <1>2, <1>6, TailFacts
  <2>2. QED
    BY <1>2, <2>1 DEF WInv
<1>14. /\ JoinInv(m, u, Tail(ts)) /\ m.state # "ingame" /\ \A g \in DOMAIN u : ~Expects(m, u, g)
  <2>1. JoinInv(m, tc, ts) /\ x.kind \notin {"game", "join"}
    BY <1>3, <1>13 DEF SeatInv
  <2> HIDE DEF tc, ts, m, a
  <2>2. QED
    BY <1>2, <1>4, <1>6, <1>11, <1>13, <2>1, JoinAnswered
<1>15. Says(L, sStep, ts) => Says(M, sStep, Tail(ts))
  <2>1. M \in Seq(LogCmd) /\ Revises(M, L, Len(L), sStep + 1) /\ sStep + 1 \in Nat /\ sStep <= sStep + 1 /\ sStep <= sStep
    BY <1>2, <1>3, <1>8, SentFacts
  <2> HIDE DEF ts
  <2>2. Tail(ts) \in Seq(ClientPacket) /\ (Says(L, sStep, ts) => Says(L, sStep, Tail(ts)))
    BY <1>2, <1>6, TailFacts, LinkHeard
  <2>3. QED
    BY <1>2, <2>1, <2>2, SaysKept
<1>16. \A i \in DOMAIN sendq'[c] : Stamped(sendq'[c][i]) => sendq'[c][i].step > sStep
  <2>1. sendq'[c] = Append(sq, x)
    BY <1>2, <1>5 DEF SendAll
  <2>2. \A i \in DOMAIN sq : Stamped(sq[i]) => sq[i].step > sStep
    BY <1>13 DEF SeatInv
  <2> HIDE DEF sq
  <2>3. \A i \in DOMAIN Append(sq, x) : (i \in DOMAIN sq /\ Append(sq, x)[i] = sq[i]) \/ Append(sq, x)[i] = x
    BY <1>4, <1>6, AppendFacts
  <2>4. x.step > sStep
    BY <1>2, <1>3
  <2>5. QED
    BY <2>1, <2>2, <2>3, <2>4
<1>17. SeatInv(c, reach[c])' /\ FollowInv(c, M, reach[c])'
  <2>1. client'[c] = m /\ toServer'[c] = Tail(ts) /\ toClient'[c] = u /\ Active(c)' /\ sStep' = sStep
    BY <1>2, <1>5, <1>6, <1>12 DEF Active
  <2>2. ~Awaits(c)' /\ ~InGame(c)'
    <3> HIDE DEF m, u, ts
    <3>1. QED
      BY <1>14, <2>1 DEF Awaits, InGame
  <2>3. reach[c] <= sStep
    BY <1>13 DEF SeatInv
  <2>4. IsClean(c)' => why'[c] \notin {"desync", "kicked"} /\ Says(M, sStep, Tail(ts))
    BY <1>5, <1>13, <1>15 DEF FollowInv, IsClean
  <2> HIDE DEF m, u, ts, tc, sq, a
  <2>5. SeatInv(c, reach[c])'
    BY <1>14, <1>16, <2>1, <2>2, <2>3 DEF SeatInv
  <2>6. FollowInv(c, M, reach[c])'
    BY <1>14, <2>1, <2>2, <2>4, FollowsNot
  <2>7. QED
    BY <2>5, <2>6
<1>18. QED
  BY <1>8, <1>10, <1>17, WorldFrom

\* The server receives an NWC_JOIN.
LEMMA JoinServerTurn ==
    ASSUME TypeOK, LockstepInv, NEW L \in Seq(LogCmd), NEW reach \in [Client -> Nat], WInv(L, reach),
           NEW c \in Client, SrvReceiveJoin(c)
    PROVE  WorldInv'
<1>1. CASE pending = NoClient
  BY <1>1, AcceptTurn
<1>2. CASE pending # NoClient
  <2>1. PICK x : x = Head(toServer[c])
    OBVIOUS
  <2>2. slot[c] # "inactive" /\ toServer[c] # <<>> /\ x.kind = "join"
    BY <2>1 DEF SrvReceiveJoin, Received
  <2>3. /\ TakePacket(c) /\ toClient' = [toClient EXCEPT ![c] = @ \o <<[kind |-> "join", answer |-> FALSE]>>]
        /\ UNCHANGED <<sStep, sMap, sQueue, sWorld, sChk, sPaused, allMaps, nextMap, slot, sendq, client, ghostVars>>
    BY <1>2 DEF SrvReceiveJoin, ghostVars
  <2>4. QED
    BY <2>1, <2>2, <2>3, AnswerTurn
<1>3. QED
  BY <1>1, <1>2

-----------------------------------------------------------------------------
(* Steps of the server that do something to its world. *)

\* The next command of the server is the next one of the log, and is due now.
LEMMA ServerNext ==
    ASSUME TypeOK, LockstepInv, NEW L \in Seq(LogCmd), ServerWorldInv(L), Due(sQueue, sStep),
           NEW x, x = Head(sQueue), Stamped(x), NEW n, n = Len(sWorld)
    PROVE  /\ sQueue # <<>> /\ x = sQueue[1] /\ x.step = sStep /\ x.map = sMap /\ PacketOK(L, x, sStep)
           /\ x \in WorldCmd
           /\ n \in Nat /\ n + 1 \in 0 .. Len(L) /\ n + 1 \in DOMAIN L /\ x = L[n + 1]
           /\ StreamOK(L, Tail(sQueue), n + 1, Nat, sStep)
           /\ Append(sWorld, Done(sStep, What(x))) = WorldOf(L, n + 1)
           /\ At(L, n + 1, WorldOf(L, n + 1), NextMap(x), sStep) /\ Len(WorldOf(L, n + 1)) = n + 1
<1>1. /\ sQueue \in Seq(WorldCmd) /\ sQueue \in Seq(ServerPacket) /\ sStep \in Nat
      /\ n \in 0 .. Len(L) /\ Len(L) \in Nat
      /\ \A i \in DOMAIN sQueue : sQueue[i].step \in Nat /\ PacketOK(L, sQueue[i], sStep)
  BY ServerFacts
<1>2. /\ LogOK(L) /\ sWorld = WorldOf(L, n) /\ sMap = MapAt(L, n) /\ \A i \in 1 .. n : L[i].step <= sStep
      /\ StreamOK(L, sQueue, n, Nat, sStep) /\ \A i \in DOMAIN sQueue : sQueue[i].map = sMap
  BY DEF ServerWorldInv, At
<1>3. sQueue # <<>> /\ x.step <= sStep
  BY DEF Due
<1>4. x = sQueue[1] /\ 1 \in DOMAIN sQueue /\ x \in WorldCmd
  BY <1>1, <1>3, TailFacts
<1>5. x.step = sStep
  <2>1. x.step >= sStep /\ x.step \in Nat
    BY <1>1, <1>4 DEF LockstepInv, ServerInv
  <2>2. QED
    BY <1>1, <1>3, <2>1
<1>6. x.map = sMap /\ PacketOK(L, x, sStep)
  BY <1>1, <1>2, <1>4
<1>7. n + 1 \in 0 .. Len(L) /\ n + 1 \in DOMAIN L /\ x = L[n + 1] /\ StreamOK(L, Tail(sQueue), n + 1, Nat, sStep)
  <2>1. Downward(Nat)
    BY DEF Downward
  <2>2. Stamped(sQueue[1]) /\ sQueue[1].step \in Nat /\ sQueue[1].map = MapAt(L, n)
    BY <1>1, <1>2, <1>4, <1>6
  <2>3. QED
    BY <1>1, <1>2, <1>3, <1>4, <2>1, <2>2, StreamExecute
<1>8. n \in Nat /\ n < Len(L)
  BY <1>1, <1>7
<1>9. Append(sWorld, Done(sStep, What(x))) = WorldOf(L, n + 1)
  BY <1>1, <1>2, <1>5, <1>7, <1>8, WorldOfNext
<1>10. At(L, n + 1, WorldOf(L, n + 1), NextMap(x), sStep)
  <2>1. MapAt(L, n + 1) = NextMap(x)
    BY <1>7, <1>8 DEF MapAt
  <2>2. \A i \in 1 .. n + 1 : L[i].step <= sStep
    <3>1. \A i \in 1 .. n + 1 : i \in 1 .. n \/ i = n + 1
      BY <1>8
    <3>2. sStep <= sStep
      BY <1>1
    <3>3. QED
      BY <1>2, <1>5, <1>7, <3>1, <3>2
  <2>3. QED
    BY <1>7, <2>1, <2>2 DEF At
<1>11. Len(WorldOf(L, n + 1)) = n + 1
  BY <1>7, WorldOfFacts
<1>12. QED
  BY <1>3, <1>4, <1>5, <1>6, <1>7, <1>8, <1>9, <1>10, <1>11

\* The server does a tool.
LEMMA ServerToolTurn ==
    ASSUME TypeOK, LockstepInv, NEW L \in Seq(LogCmd), NEW reach \in [Client -> Nat], WInv(L, reach), SrvExecuteTool
    PROVE  WorldInv'
<1> USE DEF ghostVars, wireVars
<1>1. PICK n : n = Len(sWorld)
  OBVIOUS
<1>2. PICK x : x = Head(sQueue)
  OBVIOUS
<1>3. ServerWorldInv(L) /\ Due(sQueue, sStep) /\ x.kind = "tool" /\ Stamped(x)
  BY <1>2 DEF WInv, SrvExecuteTool, SrvExecute, Stamped
<1>4. /\ sQueue # <<>> /\ x = sQueue[1] /\ x.step = sStep /\ x.map = sMap /\ PacketOK(L, x, sStep)
      /\ x \in WorldCmd
      /\ n \in Nat /\ n + 1 \in 0 .. Len(L) /\ n + 1 \in DOMAIN L /\ x = L[n + 1]
      /\ StreamOK(L, Tail(sQueue), n + 1, Nat, sStep)
      /\ Append(sWorld, Done(sStep, What(x))) = WorldOf(L, n + 1)
      /\ At(L, n + 1, WorldOf(L, n + 1), NextMap(x), sStep) /\ Len(WorldOf(L, n + 1)) = n + 1
  BY <1>1, <1>2, <1>3, ServerNext
<1>5. What(x) = x.tool /\ NextMap(x) = sMap
  BY <1>3, <1>4 DEF What, NextMap
<1>6. ~Mismatch(sChk, sStep, x.lastStep, x.lastChk)
  <2>1. x.step = x.lastStep + 1 /\ Chk(L, x.lastStep, x.lastChk)
    BY <1>3, <1>4 DEF PacketOK
  <2>2. x.lastStep \in Nat
    BY <1>3, <1>4 DEF WorldCmd, ToolCmd, SyncCmd, CheckCmd
  <2>3. x.lastStep <= sStep
    BY <1>4, <2>1, <2>2
  <2>4. QED
    BY <1>3, <2>1, <2>2, <2>3, NoMismatch
<1>7. sWorld' = WorldOf(L, n + 1) /\ sQueue' = Tail(sQueue)
  BY <1>2, <1>4, <1>5, <1>6 DEF SrvExecuteTool
<1>8. UNCHANGED <<sStep, sMap, sChk, sPaused, allMaps, nextMap, slot, sendq, toClient, toServer, client, glitches, lost, why>>
  BY DEF SrvExecuteTool
<1>9. \A i \in DOMAIN sQueue' : \E j \in DOMAIN sQueue : sQueue'[i] = sQueue[j]
  <2>1. sQueue \in Seq(WorldCmd)
    BY DEF TypeOK
  <2>2. QED
    BY <1>4, <1>7, <2>1, TailFacts
<1>10. ServerWorldInv(L)'
  <2>1. /\ LogOK(L) /\ nextMap > 1 /\ \A i \in DOMAIN L : NextMap(L[i]) < nextMap
        /\ \A i \in DOMAIN sQueue : sQueue[i].map = sMap
        /\ \A s \in 0 .. sStep : s + ChecklistCount > sStep => Chk(L, s, LCHKLST(sChk, s))
    BY <1>3 DEF ServerWorldInv
  <2>2. \A i \in DOMAIN sQueue' : sQueue'[i].map = sMap
    BY <1>9, <2>1
  <2>3. Len(sWorld') = n + 1
    BY <1>4, <1>7
  <2>4. At(L, Len(sWorld'), sWorld', sMap', sStep')
    BY <1>4, <1>5, <1>7, <1>8, <2>3
  <2>5. StreamOK(L, sQueue', Len(sWorld'), Nat, sStep')
    BY <1>4, <1>7, <1>8, <2>3
  <2>6. Remembers(L, Len(sWorld'), allMaps)
    <3>1. Remembers(L, n, allMaps) /\ sMap = MapAt(L, n)
      BY <1>1, <1>3 DEF ServerWorldInv, At
    <3>2. MapAt(L, n + 1) = sMap
      BY <1>4, <1>5 DEF At
    <3>3. n \in Nat /\ n + 1 \in Nat /\ n <= n + 1 /\ \A k \in 0 .. n + 1 : k > n => k = n + 1
      BY <1>4
    <3>4. QED
      BY <2>3, <3>1, <3>2, <3>3, RemembersKept
  <2>7. QED
    BY <1>8, <2>1, <2>2, <2>4, <2>5, <2>6 DEF ServerWorldInv
<1>11. ASSUME NEW c \in Client PROVE SeatInv(c, reach[c])' /\ FollowInv(c, L, reach[c])'
  <2>1. SeatInv(c, reach[c]) /\ FollowInv(c, L, reach[c])
    BY DEF WInv
  <2>2. /\ sStep' = sStep /\ slot'[c] = slot[c] /\ sendq'[c] = sendq[c] /\ toClient'[c] = toClient[c]
        /\ toServer'[c] = toServer[c] /\ client'[c] = client[c] /\ why'[c] = why[c]
        /\ (sPaused' => sPaused) /\ (IsClean(c)' => IsClean(c))
    BY <1>8 DEF IsClean
  <2>3. \A i \in DOMAIN sQueue' : sQueue'[i].kind = "sync" /\ sQueue'[i].client = c =>
              \E j \in DOMAIN sQueue : sQueue[j].kind = "sync" /\ sQueue[j].client = c
    BY <1>9
  <2>4. QED
    BY <2>1, <2>2, <2>3, Elsewhere
<1>12. QED
  BY <1>10, <1>11, WorldFrom

\* A game is sent, with the NWC_READY behind it, to a client that awaits none.
LEMMA GameSent ==
    ASSUME NEW L, NEW N, NEW S, NEW m, NEW tc \in Seq(ServerPacket), \A g \in DOMAIN tc : ~Expects(m, tc, g),
           NEW a \in ServerPacket, a.kind = "game", NEW r \in ServerPacket, r.kind = "ready",
           Fresh(L, N, S, a.world, <<r>>), NEW u, u = Append(Append(tc, a), r)
    PROVE  /\ u \in Seq(ServerPacket) /\ Games(L, N, S, m, u, <<>>)
           /\ \A ts : JoinInv(m, tc, ts) => JoinInv(m, u, ts)
<1> DEFINE v == Append(tc, a)
<1>1. /\ v \in Seq(ServerPacket) /\ Len(v) = Len(tc) + 1 /\ Len(tc) \in Nat
      /\ \A i \in DOMAIN v : (i \in DOMAIN tc /\ v[i] = tc[i]) \/ (i = Len(tc) + 1 /\ v[i] = a)
  BY AppendWhere
<1> HIDE DEF v
<1>2. u = Append(v, r)
  BY DEF v
<1>3. u \in Seq(ServerPacket) /\ \A i \in DOMAIN u : (i \in DOMAIN v /\ u[i] = v[i]) \/ (i = Len(v) + 1 /\ u[i] = r)
  BY <1>1, <1>2, AppendWhere
<1>4. \A g \in DOMAIN u : Expects(m, u, g) => g \in DOMAIN v /\ Expects(m, v, g)
  <2>1. r.kind # "game"
    OBVIOUS
  <2>2. QED
    BY <1>1, <1>2, <2>1, ExpectsAppend
<1>5. \A g \in DOMAIN tc : ~Expects(m, v, g)
  <2>1. SUFFICES ASSUME NEW g \in DOMAIN tc, Expects(m, v, g) PROVE FALSE
    OBVIOUS
  <2>2. \A j \in DOMAIN v : v[j].kind = "join" => j \in DOMAIN tc /\ tc[j].kind = "join"
    BY <1>1
  <2>3. v[g] = tc[g]
    <3>1. g \in DOMAIN v /\ g # Len(tc) + 1
      BY <1>1
    <3>2. QED
      BY <1>1, <3>1
  <2>4. Expects(m, tc, g)
    BY <2>1, <2>2, <2>3 DEF Expects
  <2>5. QED
    BY <2>4
<1>6. ASSUME NEW g \in DOMAIN u, Expects(m, u, g) PROVE Fresh(L, N, S, u[g].world, After(u, g) \o <<>>)
  <2>1. g \in DOMAIN v /\ g = Len(tc) + 1 /\ v[g] = a
    BY <1>1, <1>4, <1>5, <1>6
  <2>2. <<r>> \in Seq(ServerPacket) /\ u = v \o <<r>>
    BY <1>1, <1>2
  <2>3. u[g] = a /\ After(u, g) = After(v, g) \o <<r>>
    <3>1. ASSUME NEW q \in Seq(ServerPacket)
          PROVE  (v \o q)[g] = v[g] /\ After(v \o q, g) = After(v, g) \o q
      BY <1>1, <2>1, AfterLaws
    <3>2. (v \o <<r>>)[g] = v[g] /\ After(v \o <<r>>, g) = After(v, g) \o <<r>>
      BY <2>2, <3>1
    <3>3. QED
      BY <2>1, <2>2, <3>2
  <2>4. After(v, g) \in Seq(ServerPacket) /\ Len(After(v, g)) = Len(v) - g
    BY <1>1, <2>1, AfterFacts
  <2>5. After(v, g) = <<>>
    <3>1. Len(After(v, g)) = 0
      BY <1>1, <2>1, <2>4
    <3>2. \A t \in Seq(ServerPacket) : Len(t) = 0 => t = <<>>
      OBVIOUS
    <3>3. QED
      BY <2>4, <3>1, <3>2
  <2>6. After(u, g) \o <<>> = <<r>>
    <3>1. \A q \in Seq(ServerPacket) : <<>> \o q = q /\ q \o <<>> = q
      BY ConcatLaws
    <3>2. QED
      BY <2>2, <2>3, <2>5, <3>1
  <2>7. QED
    BY <2>3, <2>6
<1>7. \A ts : JoinInv(m, tc, ts) => JoinInv(m, u, ts)
  <2>1. \A i \in DOMAIN u : u[i].kind = "join" => i \in DOMAIN tc /\ tc[i].kind = "join"
    <3>1. \A i \in DOMAIN u : u[i].kind = "join" => i \in DOMAIN v /\ v[i].kind = "join" /\ u[i] = v[i]
      BY <1>3
    <3>2. QED
      BY <1>1, <3>1
  <2>2. QED
    BY <2>1 DEF JoinInv
<1>8. QED
  BY <1>3, <1>6, <1>7 DEF Games

\* An NWC_SYNC that the server is about to execute is the last command of the log.
LEMMA SyncIsLast ==
    ASSUME TypeOK, LockstepInv, NEW L \in Seq(LogCmd), ServerWorldInv(L), Due(sQueue, sStep),
           NEW x, x = Head(sQueue), x.kind = "sync", NEW n, n = Len(sWorld)
    PROVE  Len(L) = n + 1
<1>1. Stamped(x)
  BY DEF Stamped
<1>2. x.map = sMap /\ n \in Nat /\ n + 1 \in 0 .. Len(L) /\ n + 1 \in DOMAIN L /\ x = L[n + 1]
  BY <1>1, ServerNext
<1>3. Len(L) \in Nat /\ DOMAIN L = 1 .. Len(L) /\ LogOK(L)
  BY LogFacts DEF ServerWorldInv
<1>4. SUFFICES ASSUME Len(L) # n + 1 PROVE FALSE
  OBVIOUS
<1>a. PICK i \in Nat : i = Len(L)
  BY <1>3, Zenon
<1>b. PICK k : k = i - 1
  OBVIOUS
<1>5. i \in DOMAIN L /\ i > n /\ k \in 0 .. i /\ n + 1 \in 1 .. k
  <2>1. n \in Nat /\ n + 1 \in 0 .. i /\ i # n + 1
    BY <1>2, <1>4, <1>a
  <2>2. i \in 1 .. i /\ i > n /\ i - 1 \in 0 .. i /\ n + 1 \in 1 .. i - 1
    BY ONLY <2>1, i \in Nat
  <2>3. QED
    BY <1>3, <1>a, <1>b, <2>2
<1>6. L[i].map = sMap
  <2>1. \A j \in DOMAIN L : j > n => L[j].map = sMap
    BY ServerFacts
  <2>2. QED
    BY <1>5, <2>1
<1>7. L[i].map = MapAt(L, k)
  BY <1>3, <1>5, <1>b DEF LogOK
<1>8. L[n + 1].map < MapAt(L, k)
  <2>1. \A j \in 1 .. k : L[j].kind = "sync" => L[j].map < MapAt(L, k)
    BY <1>3, <1>5, <1>a, MapGrows
  <2>2. QED
    BY <1>2, <1>5, <2>1
<1>9. sMap \in Nat
  BY DEF TypeOK
<1>10. QED
  BY <1>2, <1>6, <1>7, <1>8, <1>9

\* The server synchronises: it saves its world and loads it again, and a joining
\* client gets it.
LEMMA ServerSyncTurn ==
    ASSUME TypeOK, TypeOK', LockstepInv,
           NEW L \in Seq(LogCmd), NEW reach \in [Client -> Nat], WInv(L, reach), SrvExecuteSync
    PROVE  WorldInv'
<1>1. PICK n : n = Len(sWorld)
  OBVIOUS
<1>2. PICK x : x = Head(sQueue)
  OBVIOUS
<1>3. ServerWorldInv(L) /\ Due(sQueue, sStep) /\ x.kind = "sync" /\ Stamped(x) /\ loop = "execute"
  BY <1>2 DEF WInv, SrvExecuteSync, SrvExecute, Stamped
<1>4. /\ sQueue # <<>> /\ x = sQueue[1] /\ x.step = sStep /\ x.map = sMap /\ PacketOK(L, x, sStep)
      /\ x \in WorldCmd
      /\ n \in Nat /\ n + 1 \in 0 .. Len(L) /\ n + 1 \in DOMAIN L /\ x = L[n + 1]
      /\ StreamOK(L, Tail(sQueue), n + 1, Nat, sStep)
      /\ Append(sWorld, Done(sStep, What(x))) = WorldOf(L, n + 1)
      /\ At(L, n + 1, WorldOf(L, n + 1), NextMap(x), sStep) /\ Len(WorldOf(L, n + 1)) = n + 1
  BY <1>1, <1>2, <1>3, ServerNext
<1>5. Len(L) = n + 1
  BY <1>1, <1>2, <1>3, SyncIsLast
<1>6. What(x) = Reload /\ NextMap(x) = x.newMap
  BY <1>3 DEF What, NextMap
<1>7. PICK w : w = WorldOf(L, n + 1)
  OBVIOUS
<1>8. PICK r : r = ReadyPacket(sStep, x.newMap, LCHKLST(sChk, sStep))
  OBVIOUS
<1>9. PICK a : a = [kind |-> "game", world |-> w]
  OBVIOUS
<1>10. /\ sQueue' = <<>> /\ sWorld' = w /\ sMap' = x.newMap /\ sPaused' = FALSE
       /\ UNCHANGED <<sStep, sChk, nextMap, sendq, toServer, client, glitches, lost, why>>
  BY <1>2, <1>4, <1>6, <1>7 DEF SrvExecuteSync, SrvReload
<1>11. \/ x.client # NoClient /\ slot[x.client] # "inactive"
          /\ toClient' = [toClient EXCEPT ![x.client] = @ \o <<a, r>>]
          /\ slot' = [slot EXCEPT ![x.client] = "playing"]
       \/ UNCHANGED <<toClient, slot>>
  BY <1>2, <1>8, <1>9, <1>10 DEF SrvExecuteSync, SrvReload
<1>12. /\ sStep \in Nat /\ sStep <= sStep /\ w \in World /\ x.newMap \in Nat /\ x.client \in Client \cup {NoClient}
       /\ LCHKLST(sChk, sStep) \in World
  <2>1. x \in SyncCmd
    BY <1>3, <1>4 DEF WorldCmd, ToolCmd, SyncCmd, CheckCmd
  <2>2. sStep \in Nat /\ sStep <= sStep /\ w \in World /\ LCHKLST(sChk, sStep) \in World
    <3>1. sStep \in Nat /\ sWorld \in World /\ sChk \in [0 .. ChecklistCount - 1 -> World]
      BY DEF TypeOK
    <3>2. w \in World
      BY <1>4, <1>7, WorldOfFacts
    <3>3. LCHKLST(sChk, sStep) \in World
      BY <3>1, RingFacts
    <3>4. QED
      BY <3>1, <3>2, <3>3
  <2>3. QED
    BY <2>1, <2>2 DEF SyncCmd
<1>13. ServerWorldInv(L)'
  <2>1. /\ LogOK(L) /\ nextMap > 1 /\ \A i \in DOMAIN L : NextMap(L[i]) < nextMap
        /\ \A s \in 0 .. sStep : s + ChecklistCount > sStep => Chk(L, s, LCHKLST(sChk, s))
    BY <1>3 DEF ServerWorldInv
  <2>2. Len(sWorld') = n + 1
    BY <1>4, <1>7, <1>10
  <2>3. At(L, Len(sWorld'), sWorld', sMap', sStep')
    BY <1>4, <1>6, <1>7, <1>10, <2>2
  <2>4. StreamOK(L, sQueue', Len(sWorld'), Nat, sStep')
    <3>1. <<>> \in Seq(ServerPacket) /\ \A p \in DOMAIN <<>> : ~IsCommand(<<>>[p])
      OBVIOUS
    <3>2. StreamOK(L, <<>>, Len(L), Nat, sStep)
      BY <3>1, StreamNothing
    <3>3. QED
      BY <1>5, <1>10, <2>2, <3>2
  <2>5. \A i \in DOMAIN sQueue' : sQueue'[i].map = sMap'
    BY <1>10
  <2>6. Remembers(L, Len(sWorld'), allMaps')
    <3>1. Remembers(L, n, allMaps) /\ sMap = MapAt(L, n) /\ LogOK(L)
      BY <1>1, <1>3 DEF ServerWorldInv, At
    <3>2. MapAt(L, n + 1) = x.newMap /\ x.newMap \in Nat
      BY <1>4, <1>6, <1>12 DEF At
    <3>3. MapAt(L, n) < x.newMap
      BY <1>3, <1>4, <3>1 DEF LogOK
    <3>4. \A k \in 0 .. n : MapAt(L, k) \in Nat
      <4>1. \A k \in 0 .. n : k \in 0 .. Len(L)
        BY <1>4, <1>5
      <4>2. QED
        BY <4>1, LogFacts
    <3>5. allMaps' = AppendMapCounter(x.newMap)
      BY <1>2 DEF SrvExecuteSync, SrvReload
    <3>6. Remembers(L, n + 1, AppendMapCounter(x.newMap))
      BY <1>4, <3>1, <3>2, <3>3, <3>4, RemembersNew
    <3>7. QED
      BY <2>2, <3>5, <3>6
  <2>7. QED
    BY <1>10, <2>1, <2>3, <2>4, <2>5, <2>6 DEF ServerWorldInv
<1>14. \A d \in Client : IsClean(d)' <=> IsClean(d)
  BY <1>10 DEF IsClean
<1>15. ASSUME NEW d \in Client, toClient'[d] = toClient[d], slot'[d] = slot[d]
       PROVE  SeatInv(d, reach[d])' /\ FollowInv(d, L, reach[d])'
  <2>1. SeatInv(d, reach[d]) /\ FollowInv(d, L, reach[d])
    BY DEF WInv
  <2>2. /\ sStep' = sStep /\ sendq'[d] = sendq[d] /\ toServer'[d] = toServer[d] /\ client'[d] = client[d]
        /\ why'[d] = why[d] /\ (sPaused' => sPaused) /\ (IsClean(d)' => IsClean(d))
    BY <1>10, <1>14
  <2>3. \A i \in DOMAIN sQueue' : sQueue'[i].kind = "sync" /\ sQueue'[i].client = d =>
              \E j \in DOMAIN sQueue : sQueue[j].kind = "sync" /\ sQueue[j].client = d
    BY <1>10
  <2>4. QED
    BY <1>15, <2>1, <2>2, <2>3, Elsewhere
<1>16. CASE UNCHANGED <<toClient, slot>>
  BY <1>13, <1>15, <1>16, WorldFrom
<1>17. ASSUME NEW c \in Client, x.client = c, slot[c] # "inactive",
              toClient' = [toClient EXCEPT ![c] = @ \o <<a, r>>], slot' = [slot EXCEPT ![c] = "playing"]
       PROVE  WorldInv'
  <2> DEFINE tc == toClient[c]
             ts == toServer[c]
             m == client[c]
             u == Append(Append(tc, a), r)
  <2>1. /\ a \in ServerPacket /\ a.kind = "game" /\ a.world = w
        /\ r \in ServerPacket /\ r.kind = "ready" /\ r.step = sStep /\ r.map = x.newMap
        /\ r.chk = LCHKLST(sChk, sStep)
    <3>1. [kind |-> "game", world |-> w] \in ServerPacket
      BY <1>12, PacketFacts
    <3>2. ReadyPacket(sStep, x.newMap, LCHKLST(sChk, sStep)) \in ServerPacket
      BY <1>12, PacketFacts
    <3>3. QED
      BY <1>8, <1>9, <3>1, <3>2 DEF ReadyPacket
  <2>2. tc \in Seq(ServerPacket) /\ sendq[c] = <<>>
    BY <1>3 DEF TypeOK, LockstepInv, ServerInv
  <2>3. toClient'[c] = u /\ slot'[c] = "playing" /\ \A d \in Client \ {c} : toClient'[d] = toClient[d] /\ slot'[d] = slot[d]
    <3>1. tc \o <<a, r>> = u
      BY <2>1, <2>2
    <3>2. QED
      BY <1>17, <3>1 DEF TypeOK
  <2>4. SeatInv(c, reach[c]) /\ FollowInv(c, L, reach[c])
    BY DEF WInv
  <2>5. ~Awaits(c)
    <3>1. 1 \in DOMAIN sQueue /\ sQueue[1].kind = "sync" /\ sQueue[1].client = c
      <4>1. sQueue \in Seq(WorldCmd)
        BY DEF TypeOK
      <4>2. QED
        BY <1>3, <1>4, <1>17, <4>1, TailFacts
    <3>2. QED
      BY <1>17, <2>4, <3>1 DEF SeatInv, Active
  <2>6. m.state # "ingame" /\ \A g \in DOMAIN tc : ~Expects(m, tc, g)
    BY <2>5 DEF Awaits, InGame
  <2>7. Fresh(L, Nat, sStep, w, <<r>>)
    <3> DEFINE P == <<r>>
    <3>1. P \in Seq(ServerPacket) /\ P # <<>> /\ P[1] = r /\ DOMAIN P = {1}
      BY <2>1
    <3> HIDE DEF P
    <3>2. \A p \in DOMAIN P : ~IsCommand(P[p]) /\ (p # 1 => P[p].kind # "ready")
      BY <2>1, <3>1 DEF IsCommand
    <3>3. StreamOK(L, P, Len(L), Nat, sStep)
      BY <3>1, <3>2, StreamNothing
    <3>4. n + 1 \in 0 .. Len(L) /\ At(L, n + 1, w, P[1].map, P[1].step) /\ StreamOK(L, P, n + 1, Nat, sStep)
      BY <1>4, <1>5, <1>6, <1>7, <2>1, <3>1, <3>3
    <3>5. Chk(L, P[1].step, P[1].chk) /\ P[1].step <= sStep /\ P[1].kind = "ready"
      BY <1>3, <1>12, <2>1, <3>1, ServerKnows
    <3>6. Ahead(P, P[1].step)
      BY <3>2 DEF Ahead
    <3>7. Fresh(L, Nat, sStep, w, P)
      BY <3>1, <3>2, <3>4, <3>5, <3>6 DEF Fresh
    <3>8. QED
      BY <3>7 DEF P
  <2>8. /\ u \in Seq(ServerPacket) /\ Games(L, Nat, sStep, m, u, <<>>)
        /\ JoinInv(m, tc, ts) => JoinInv(m, u, ts)
    <3> HIDE DEF tc, ts, m
    <3>1. Fresh(L, Nat, sStep, a.world, <<r>>)
      BY <2>1, <2>7
    <3>2. QED
      BY <2>1, <2>2, <2>6, <3>1, GameSent
  <2> HIDE DEF u
  <2>9. client'[c] = m /\ toServer'[c] = ts /\ sendq'[c] = <<>> /\ Active(c)' /\ Near(c, reach[c])' = Nat /\ ~InGame(c)'
    BY <1>10, <2>2, <2>3, <2>6 DEF Active, Near, InGame
  <2>10. SeatInv(c, reach[c])'
    <3>1. JoinInv(client'[c], toClient'[c], toServer'[c]) /\ reach[c] <= sStep'
      BY <1>10, <2>3, <2>4, <2>8, <2>9 DEF SeatInv
    <3>2. slot'[c] # "connected" /\ sQueue' = <<>> /\ sendq'[c] = <<>> /\ Active(c)'
      BY <1>10, <2>3, <2>9
    <3>3. QED
      BY <3>1, <3>2 DEF SeatInv
  <2>11. FollowInv(c, L, reach[c])'
    <3>1. IsClean(c) => why[c] \notin {"desync", "kicked"} /\ Says(L, sStep, ts)
      BY <2>4 DEF FollowInv
    <3> HIDE DEF m, ts
    <3>2. QED
      BY <1>10, <1>14, <2>3, <2>8, <2>9, <3>1 DEF FollowInv
  <2>12. \A d \in Client : SeatInv(d, reach[d])' /\ FollowInv(d, L, reach[d])'
    BY <1>15, <2>3, <2>10, <2>11
  <2>13. QED
    BY <1>13, <2>12, WorldFrom
<1>18. QED
  BY <1>11, <1>12, <1>16, <1>17

\* A paused server is told to synchronise: what it does at once replaces the rest
\* of the log.
LEMMA ForceTurn ==
    ASSUME TypeOK, TypeOK', LockstepInv, PausedOnlyWhenEmpty,
           NEW L \in Seq(LogCmd), NEW reach \in [Client -> Nat], WInv(L, reach),
           sPaused, SrvReload(NoClient, nextMap), nextMap' = nextMap + 1
    PROVE  WorldInv'
<1>1. PICK n : n = Len(sWorld)
  OBVIOUS
<1>2. PICK x : x = [kind |-> "sync", step |-> sStep, map |-> sMap, client |-> NoClient, newMap |-> nextMap]
  OBVIOUS
<1>3. ServerWorldInv(L)
  BY DEF WInv
<1>4. /\ sStep \in Nat /\ nextMap \in Nat /\ sMap \in Nat /\ sMap < nextMap /\ n \in 0 .. Len(L) /\ Len(L) \in Nat
      /\ \A i \in DOMAIN L : i > n => \E p \in DOMAIN sQueue : sQueue[p] = L[i]
  BY <1>1, <1>3, ServerFacts
<1>5. /\ LogOK(L) /\ nextMap > 1 /\ \A i \in DOMAIN L : NextMap(L[i]) < nextMap
      /\ sWorld = WorldOf(L, n) /\ sMap = MapAt(L, n) /\ \A i \in 1 .. n : L[i].step <= sStep
      /\ \A s \in 0 .. sStep : s + ChecklistCount > sStep => Chk(L, s, LCHKLST(sChk, s))
  BY <1>1, <1>3 DEF ServerWorldInv, At
<1>6. DOMAIN L = 1 .. Len(L) /\ \A i \in DOMAIN L : L[i].step \in Nat /\ NextMap(L[i]) \in Nat
  BY LogFacts
<1>7. /\ x \in LogCmd /\ x.kind = "sync" /\ x.step = sStep /\ x.map = sMap /\ x.newMap = nextMap
  BY <1>2, <1>4 DEF LogCmd, SyncCmd
<1>8. What(x) = Reload /\ NextMap(x) = nextMap
  BY <1>7 DEF What, NextMap
<1>9. PICK K : K = Cut(L, n)
  OBVIOUS
<1>10. /\ K \in Seq(LogCmd) /\ Len(K) = n /\ DOMAIN K = 1 .. n /\ \A i \in 1 .. n : K[i] = L[i]
       /\ LogOK(K) /\ MapAt(K, n) = MapAt(L, n)
  <2>1. /\ K \in Seq(LogCmd) /\ Len(K) = n /\ \A i \in 1 .. n : K[i] = L[i]
        /\ LogOK(K) /\ \A j \in 0 .. n : MapAt(K, j) = MapAt(L, j)
    BY <1>4, <1>5, <1>9, CutFacts
  <2>2. n \in 0 .. n /\ DOMAIN K = 1 .. n
    BY <1>4, <2>1
  <2>3. QED
    BY <2>1, <2>2
<1>11. PICK M : M = Append(K, x)
  OBVIOUS
<1>12. /\ M \in Seq(LogCmd) /\ LogOK(M) /\ Len(M) = n + 1 /\ M[n + 1] = x /\ \A i \in 1 .. n : M[i] = L[i]
       /\ DOMAIN M = 1 .. n + 1 /\ n \in Nat
  <2>1. x.map = MapAt(K, Len(K)) /\ (x.kind = "sync" => x.map < x.newMap) /\ \A i \in DOMAIN K : K[i].step <= x.step
    BY <1>4, <1>5, <1>7, <1>10
  <2>2. /\ Append(K, x) \in Seq(LogCmd) /\ LogOK(Append(K, x)) /\ Len(Append(K, x)) = Len(K) + 1
        /\ Append(K, x)[Len(K) + 1] = x /\ \A i \in DOMAIN K : Append(K, x)[i] = K[i]
    BY <1>7, <1>10, <2>1, LogAppend
  <2>3. M \in Seq(LogCmd) /\ LogOK(M) /\ Len(M) = n + 1 /\ M[n + 1] = x /\ \A i \in 1 .. n : M[i] = L[i]
    BY <1>10, <1>11, <2>2
  <2>4. DOMAIN M = 1 .. Len(M) /\ n \in Nat
    BY <1>4, <2>3
  <2>5. QED
    BY <2>3, <2>4
<1>13. \A i \in 1 .. n + 1 : i \in 1 .. n \/ i = n + 1
  BY <1>12
<1>14. Revises(M, L, n, sStep)
  <2>1. n <= Len(M)
    BY <1>12
  <2>2. ASSUME NEW i \in n + 1 .. Len(L) PROVE L[i].step >= sStep
    <3>1. i \in DOMAIN L /\ i > n
      BY <1>4, <1>6
    <3>2. PICK p \in DOMAIN sQueue : sQueue[p] = L[i]
      BY <1>4, <3>1
    <3>3. QED
      BY <3>2 DEF LockstepInv, ServerInv
  <2>3. \A i \in n + 1 .. Len(M) : M[i].step >= sStep
    <3>1. \A i \in n + 1 .. Len(M) : i = n + 1
      BY <1>12
    <3>2. sStep >= sStep
      BY <1>4
    <3>3. QED
      BY <1>7, <1>12, <3>1, <3>2
  <2>4. QED
    BY <1>4, <1>12, <2>1, <2>2, <2>3 DEF Revises
<1>15. /\ sQueue' = <<>> /\ sWorld' = Append(sWorld, Done(sStep, Reload)) /\ sMap' = nextMap /\ sPaused' = FALSE
       /\ nextMap' = nextMap + 1
       /\ UNCHANGED <<sStep, sChk, sendq, toServer, client, glitches, lost, why, toClient, slot>>
  BY DEF SrvReload
<1>16. sWorld' = WorldOf(M, n + 1) /\ Len(sWorld') = n + 1
  <2>1. n \in 0 .. Len(M) /\ n < Len(M) /\ n + 1 \in 0 .. Len(M)
    BY <1>12
  <2>2. WorldOf(M, n) = WorldOf(L, n)
    BY <1>4, <1>12, WorldOfFacts
  <2>3. Append(WorldOf(M, n), Done(M[n + 1].step, What(M[n + 1]))) = WorldOf(M, n + 1)
    BY <1>12, <2>1, WorldOfNext
  <2>4. Len(WorldOf(M, n + 1)) = n + 1
    BY <1>12, <2>1, WorldOfFacts
  <2>5. QED
    BY <1>5, <1>7, <1>8, <1>12, <1>15, <2>2, <2>3, <2>4
<1>17. ServerWorldInv(M)'
  <2>1. nextMap' > 1 /\ \A i \in DOMAIN M : NextMap(M[i]) < nextMap'
    <3>1. nextMap + 1 > 1 /\ nextMap < nextMap + 1 /\ \A j \in Nat : j < nextMap => j < nextMap + 1
      BY <1>4
    <3>2. \A i \in 1 .. n : i \in DOMAIN L /\ NextMap(M[i]) = NextMap(L[i])
      BY <1>4, <1>6, <1>12
    <3>3. QED
      BY <1>5, <1>6, <1>8, <1>12, <1>13, <1>15, <3>1, <3>2
  <2>2. At(M, Len(sWorld'), sWorld', sMap', sStep')
    <3>1. n + 1 \in 0 .. Len(M) /\ n + 1 # 0 /\ sStep <= sStep
      BY <1>4, <1>12
    <3>2. MapAt(M, n + 1) = nextMap
      BY <1>8, <1>12, <3>1 DEF MapAt
    <3>3. \A i \in 1 .. n + 1 : M[i].step <= sStep
      BY <1>5, <1>7, <1>12, <1>13, <3>1
    <3>4. QED
      BY <1>15, <1>16, <3>1, <3>2, <3>3 DEF At
  <2>3. StreamOK(M, sQueue', Len(sWorld'), Nat, sStep')
    <3>1. <<>> \in Seq(ServerPacket) /\ \A p \in DOMAIN <<>> : ~IsCommand(<<>>[p])
      OBVIOUS
    <3>2. StreamOK(M, <<>>, Len(M), Nat, sStep)
      BY <1>12, <3>1, StreamNothing
    <3>3. QED
      BY <1>12, <1>15, <1>16, <3>2
  <2>4. \A s \in 0 .. sStep : s + ChecklistCount > sStep => Chk(M, s, LCHKLST(sChk, s))
    <3>1. ASSUME NEW s \in 0 .. sStep, s + ChecklistCount > sStep PROVE Chk(M, s, LCHKLST(sChk, s))
      <4>1. s \in Nat /\ s <= sStep /\ Chk(L, s, LCHKLST(sChk, s))
        BY <1>4, <1>5, <3>1
      <4>2. QED
        BY <1>4, <1>12, <1>14, <4>1, ChkKept
    <3>2. QED
      BY <3>1
  <2>5. \A i \in DOMAIN sQueue' : sQueue'[i].map = sMap'
    BY <1>15
  <2>6. Remembers(M, Len(sWorld'), allMaps')
    <3>1. Remembers(L, n, allMaps)
      BY <1>1, <1>3 DEF ServerWorldInv
    <3>2. MapAt(M, n + 1) = nextMap
      <4>1. n + 1 # 0
        BY <1>4
      <4>2. QED
        BY <1>8, <1>12, <4>1 DEF MapAt
    <3>3. \A k \in 0 .. n : MapAt(M, k) = MapAt(L, k) /\ MapAt(L, k) \in Nat
      <4>1. \A k \in 0 .. n : k \in 0 .. Len(L) /\ (k = 0 \/ k \in 1 .. n)
        BY <1>4
      <4>2. \A k \in 0 .. n : MapAt(M, k) = MapAt(L, k)
        BY <1>12, <4>1 DEF MapAt
      <4>3. QED
        BY <4>1, <4>2, LogFacts
    <3>4. allMaps' = AppendMapCounter(nextMap)
      BY DEF SrvReload
    <3>5. Remembers(M, n + 1, AppendMapCounter(nextMap))
      BY <1>4, <1>5, <1>12, <3>1, <3>2, <3>3, RemembersNew
    <3>6. QED
      BY <1>16, <3>4, <3>5
  <2>7. QED
    BY <1>12, <1>15, <2>1, <2>2, <2>3, <2>4, <2>5, <2>6 DEF ServerWorldInv
<1>18. ASSUME NEW d \in Client PROVE SeatInv(d, reach[d])' /\ FollowInv(d, M, reach[d])'
  <2> DEFINE r == reach[d]
             N == Near(d, r)
             m == client[d]
             tc == toClient[d]
             sq == sendq[d]
             ts == toServer[d]
  <2>1. SeatInv(d, r) /\ FollowInv(d, L, r) /\ r \in Nat
    BY DEF WInv
  <2>2. /\ N \subseteq Nat /\ m.step \in N /\ \A i \in DOMAIN tc : Clock(tc[i]) \in N
        /\ \A i \in DOMAIN sq : sq[i].kind \in {"tool", "sync", "check", "step"}
        /\ m \in Machine /\ tc \in Seq(ServerPacket) /\ sq \in Seq(ServerPacket) /\ ts \in Seq(ClientPacket)
    BY <2>1, NearFacts
  <2>3. /\ (Active(d)' <=> Active(d)) /\ Near(d, r)' = N /\ (InGame(d)' <=> InGame(d)) /\ (Awaits(d)' <=> Awaits(d))
        /\ (IsClean(d)' <=> IsClean(d))
    BY <1>15 DEF Active, Near, Awaits, InGame, IsClean
  <2>4. Awaits(d) => ~Active(d) /\ r < sStep
    <3>1. slot[d] # "playing"
      BY DEF PausedOnlyWhenEmpty, GetPlayingClients
    <3>2. Awaits(d) => slot[d] # "connected"
      BY <2>1 DEF SeatInv
    <3>3. slot[d] \in {"inactive", "connected", "playing"}
      BY DEF TypeOK
    <3>4. QED
      BY <2>1, <3>1, <3>2, <3>3 DEF SeatInv, Active
  <2>5. SeatInv(d, r)'
    <3>1. /\ sStep' = sStep /\ slot' = slot /\ sendq' = sendq /\ toClient' = toClient /\ toServer' = toServer
          /\ client' = client /\ sPaused' = FALSE /\ sQueue' = <<>>
      BY <1>15
    <3>2. QED
      BY <2>1, <2>3, <3>1 DEF SeatInv
  <2>6. Says(L, sStep, ts) => Says(M, sStep, ts)
    <3> HIDE DEF ts
    <3>1. sStep <= sStep
      BY <1>4
    <3>2. QED
      BY <1>4, <1>12, <1>14, <2>2, <3>1, SaysKept
  <2>7. IsClean(d) => why[d] \notin {"desync", "kicked"} /\ Says(M, sStep, ts)
    BY <2>1, <2>6 DEF FollowInv
  <2>8. CASE ~Awaits(d)
    <3>1. ~InGame(d) /\ \A g \in DOMAIN tc : ~Expects(m, tc, g)
      BY <2>8 DEF Awaits
    <3>2. /\ \A g \in DOMAIN toClient'[d] : ~Expects(client'[d], toClient'[d], g)
          /\ IsClean(d)' => why'[d] \notin {"desync", "kicked"} /\ Says(M, sStep', toServer'[d]) /\ ~InGame(d)'
      BY <1>15, <2>3, <2>7, <3>1
    <3>3. FollowInv(d, M, r)'
      BY <3>2, FollowsNot
    <3>4. QED
      BY <2>5, <3>3
  <2>9. CASE Awaits(d)
    <3>1. N = 0 .. r /\ r < sStep
      BY <2>4, <2>9 DEF Near
    <3>2. /\ Games(L, N, sStep, m, tc, sq)
          /\ IsClean(d) /\ InGame(d) => Plays(L, N, sStep, m, tc, sq, ts)
      BY <2>1 DEF FollowInv
    <3> HIDE DEF N, m, tc, sq, ts, r
    <3>3. (\A s \in N : s < sStep) /\ sStep <= sStep /\ \A i \in DOMAIN sq : sq[i].kind # "ready"
      <4>1. r \in Nat /\ sStep \in Nat
        BY <1>4, <2>1
      <4>2. (\A s \in N : s < sStep) /\ sStep <= sStep
        BY ONLY <3>1, <4>1
      <4>3. \A i \in DOMAIN sq : sq[i].kind # "ready"
        BY <2>2
      <4>4. QED
        BY <4>2, <4>3
    <3>4. /\ Plays(L, N, sStep, m, tc, sq, ts) => Plays(M, N, sStep, m, tc, sq, ts)
          /\ Games(L, N, sStep, m, tc, sq) => Games(M, N, sStep, m, tc, sq)
      <4>1. ASSUME NEW k, NEW z \in Nat, Revises(M, L, k, z), \A s \in N : s < z, sStep <= z
            PROVE  /\ Plays(L, N, sStep, m, tc, sq, ts) => Plays(M, N, sStep, m, tc, sq, ts)
                   /\ Games(L, N, sStep, m, tc, sq) => Games(M, N, sStep, m, tc, sq)
        BY ONLY <1>4, <1>12, <2>2, <3>3, <4>1, L \in Seq(LogCmd), LinkFar
      <4>2. QED
        BY <1>4, <1>14, <3>3, <4>1
    <3>5. client'[d] = m /\ toClient'[d] = tc /\ toServer'[d] = ts /\ sendq'[d] = sq /\ sStep' = sStep /\ why'[d] = why[d]
      BY <1>15 DEF m, tc, sq, ts
    <3>6. FollowInv(d, M, r)'
      BY <2>3, <2>7, <3>2, <3>4, <3>5 DEF FollowInv
    <3>7. QED
      BY <2>5, <3>6 DEF r
  <2>10. QED
    BY <2>8, <2>9
<1>19. QED
  BY <1>12, <1>17, <1>18, WorldFrom

\* The packet that a frame of the server sends.
FramePacket(p, s, w) ==
    /\ p \in ServerPacket /\ ~Stamped(p) /\ p.kind # "ready"
    /\ IsCommand(p) => p.step = s + 2 /\ p.kind = "check" /\ p.srvStep = s + 1 /\ p.chk = w

\* The server advances: its ring gets the checklist of the new step.
LEMMA FrameServer ==
    ASSUME TypeOK, LockstepInv, NEW L \in Seq(LogCmd), ServerWorldInv(L), SrvFrame
    PROVE  ServerWorldInv(L)' /\ Chk(L, sStep + 1, sWorld)
<1> USE DEF ghostVars
<1>1. PICK n : n = Len(sWorld)
  OBVIOUS
<1>2. /\ sStep \in Nat /\ n \in 0 .. Len(L) /\ Len(L) \in Nat /\ sQueue \in Seq(WorldCmd) /\ sQueue \in Seq(ServerPacket)
      /\ \A i \in DOMAIN L : i > n => \E p \in DOMAIN sQueue : sQueue[p] = L[i]
  BY <1>1, ServerFacts
<1>3. /\ LogOK(L) /\ nextMap > 1 /\ \A i \in DOMAIN L : NextMap(L[i]) < nextMap
      /\ sWorld = WorldOf(L, n) /\ sMap = MapAt(L, n) /\ \A i \in 1 .. n : L[i].step <= sStep
      /\ StreamOK(L, sQueue, n, Nat, sStep) /\ \A i \in DOMAIN sQueue : sQueue[i].map = sMap
      /\ \A s \in 0 .. sStep : s + ChecklistCount > sStep => Chk(L, s, LCHKLST(sChk, s))
  BY <1>1 DEF ServerWorldInv, At
<1>4. DOMAIN L = 1 .. Len(L) /\ \A i \in DOMAIN L : L[i].step \in Nat
  BY LogFacts
<1>5. PICK t \in Nat : t = sStep + 1
  BY <1>2
<1>s. sStep \in Nat
  BY <1>2
<1>6. t # 0 /\ sStep < t /\ sStep <= t /\ \A j \in Nat : (j <= sStep => j < t /\ j <= t) /\ (j > sStep => j >= t)
  BY ONLY <1>5, <1>s
<1>7. \A i \in DOMAIN L : i > n => L[i].step >= t
  <2>1. \A i \in DOMAIN sQueue : sQueue[i].step > sStep
    <3>1. CASE sQueue = <<>>
      BY <3>1
    <3>2. CASE sQueue # <<>>
      <4>1. Sorted(sQueue) /\ ~(Head(sQueue).step <= sStep)
        BY <3>2 DEF LockstepInv, ServerInv, SrvFrame, Due
      <4>2. Head(sQueue).step \in Nat /\ \A i \in DOMAIN sQueue : sQueue[i].step \in Nat /\ Head(sQueue).step <= sQueue[i].step
        BY <1>2, <3>2, <4>1, SortedFacts
      <4>3. QED
        BY <1>2, <4>1, <4>2
    <3>3. QED
      BY <3>1, <3>2
  <2>2. QED
    BY <1>2, <1>4, <1>6, <2>1
<1>8. Chk(L, t, sWorld)
  <2>1. \A i \in 1 .. n : L[i].step < t
    BY <1>2, <1>3, <1>4, <1>6
  <2>2. \A i \in n + 1 .. Len(L) : L[i].step >= t
    BY <1>2, <1>4, <1>7
  <2>3. QED
    BY <1>2, <1>3, <1>6, <2>1, <2>2 DEF Chk
<1>9. /\ sStep' = t /\ sChk' = SetChecklist(sChk, t, sWorld)
      /\ UNCHANGED <<sMap, sQueue, sWorld, allMaps, nextMap>>
  BY <1>5 DEF SrvFrame
<1>10. At(L, n, sWorld, sMap, t)
  BY <1>2, <1>3, <1>4, <1>6 DEF At
<1>11. StreamOK(L, sQueue, n, Nat, t)
  BY <1>2, <1>3, <1>6, StreamLater
<1>12. ASSUME NEW s \in 0 .. t, s + ChecklistCount > t PROVE Chk(L, s, LCHKLST(sChk', s))
  <2>1. sChk \in [0 .. ChecklistCount - 1 -> World]
    BY DEF TypeOK
  <2>2. CASE s = t
    BY <1>8, <1>9, <2>1, <2>2, RingSet
  <2>3. CASE s # t
    <3>1. s \in Nat /\ s < t /\ t < s + ChecklistCount /\ s \in 0 .. sStep /\ s + ChecklistCount > sStep
      <4>1. ChecklistCount \in Nat
        BY BoundsAssumption
      <4>2. QED
        BY ONLY <1>2, <1>5, <1>12, <2>3, <4>1, t \in Nat, s \in 0 .. t
    <3>2. LCHKLST(sChk', s) = LCHKLST(sChk, s)
      BY <1>9, <2>1, <3>1, RingSet
    <3>3. QED
      BY <1>3, <3>1, <3>2
  <2>4. QED
    BY <2>2, <2>3
<1>13. ServerWorldInv(L)'
  <2>1. Remembers(L, n, allMaps)
    BY <1>1 DEF ServerWorldInv
  <2>2. QED
    BY <1>1, <1>3, <1>9, <1>10, <1>11, <1>12, <2>1 DEF ServerWorldInv
<1>14. QED
  BY <1>5, <1>8, <1>13

\* A connection while the server advances.
LEMMA FrameClient ==
    ASSUME TypeOK, LockstepInv, NEW L \in Seq(LogCmd), NEW c \in Client, NEW r \in Nat, SeatInv(c, r), FollowInv(c, L, r),
           NEW p, FramePacket(p, sStep, sWorld), Chk(L, sStep + 1, sWorld), sendq' = SendAll(p), sendq[c] = <<>>,
           sStep' = sStep + 1,
           UNCHANGED <<slot, sQueue, toClient, toServer, client, why, glitches, lost>>
    PROVE  SeatInv(c, r)' /\ FollowInv(c, L, r)'
<1> DEFINE N == Near(c, r)
           m == client[c]
           tc == toClient[c]
           sq == sendq[c]
           ts == toServer[c]
<1>1. /\ Downward(N) /\ N \subseteq Nat /\ m.step \in N /\ \A i \in DOMAIN tc : Clock(tc[i]) \in N
      /\ m.step \in Nat /\ m.barrier \in Nat /\ m.step <= m.barrier /\ m.barrier <= sStep /\ sStep \in Nat
      /\ m \in Machine /\ tc \in Seq(ServerPacket) /\ sq \in Seq(ServerPacket) /\ ts \in Seq(ClientPacket)
  BY NearFacts
<1>2. /\ (Active(c)' <=> Active(c)) /\ Near(c, r)' = N /\ (InGame(c)' <=> InGame(c)) /\ (Awaits(c)' <=> Awaits(c))
      /\ (IsClean(c)' <=> IsClean(c))
  BY DEF Active, Near, Awaits, InGame, IsClean
<1>3. PICK t \in Nat : t = sStep + 1
  BY <1>1
<1>4. /\ sStep <= t /\ r <= t /\ r < t /\ m.step <= sStep /\ sStep <= sStep /\ r <= sStep
  <2>1. r <= sStep
    BY DEF SeatInv
  <2> HIDE DEF m
  <2>2. QED
    BY ONLY <1>1, <1>3, <2>1, r \in Nat, t \in Nat
<1>5. sendq'[c] = IF Active(c) THEN Append(sq, p) ELSE sq
  BY DEF SendAll, Active
<1>6. SeatInv(c, r)'
  <2>1. \A i \in DOMAIN sendq'[c] : ~Stamped(sendq'[c][i])
    <3>1. CASE Active(c)
      <4>1. p \in ServerPacket /\ ~Stamped(p)
        BY DEF FramePacket
      <4>2. \A i \in DOMAIN Append(sq, p) : (i \in DOMAIN sq /\ Append(sq, p)[i] = sq[i]) \/ Append(sq, p)[i] = p
        BY <1>1, <4>1, AppendFacts
      <4>3. QED
        BY <1>5, <3>1, <4>1, <4>2
    <3>2. CASE ~Active(c)
      BY <1>5, <3>2
    <3>3. QED
      BY <3>1, <3>2
  <2>2. /\ JoinInv(client'[c], toClient'[c], toServer'[c])
        /\ Awaits(c) => /\ slot'[c] # "connected"
                        /\ Active(c) => \A i \in DOMAIN sQueue' : sQueue'[i].kind = "sync" => sQueue'[i].client # c
    BY DEF SeatInv
  <2>3. ~Active(c) => /\ sendq'[c] = <<>> /\ client'[c].barrier <= r
                      /\ \A i \in DOMAIN toClient'[c] : Clock(toClient'[c][i]) <= r
    BY <1>5 DEF SeatInv
  <2>4. r <= sStep' /\ r < sStep'
    BY <1>3, <1>4
  <2>5. QED
    BY <1>2, <2>1, <2>2, <2>3, <2>4 DEF SeatInv
<1> HIDE DEF N, m, tc, sq, ts
<1>7. Says(L, sStep, ts) => Says(L, t, ts)
  <2>1. ASSUME NEW k, Revises(L, L, k, t) PROVE Says(L, sStep, ts) => Says(L, t, ts)
    BY <1>1, <1>4, <2>1, SaysKept
  <2>2. QED
    BY <2>1, RevisesSame
<1>8. /\ Plays(L, N, sStep, m, tc, sq, ts) => Plays(L, N, t, m, tc, sendq'[c], ts)
      /\ Games(L, N, sStep, m, tc, sq) => Games(L, N, t, m, tc, sendq'[c])
  <2>1. CASE Active(c)
    <3>1. p \in ServerPacket /\ ~Stamped(p) /\ p.kind # "ready"
      BY DEF FramePacket
    <3>2. IsCommand(p) => PacketOK(L, p, t) /\ sStep < p.step
      <4>1. ASSUME IsCommand(p) PROVE PacketOK(L, p, t) /\ sStep < p.step
        <5>1. p.step = sStep + 2 /\ p.kind = "check" /\ p.srvStep = sStep + 1 /\ p.chk = sWorld
          BY <4>1 DEF FramePacket
        <5>2. sStep + 2 = t + 1 /\ t + 1 <= t + 1 /\ sStep < sStep + 2
          BY ONLY <1>3, <1>1
        <5>3. p.step = t + 1 /\ p.srvStep = t /\ Chk(L, t, p.chk)
          BY <1>3, <5>1, <5>2
        <5>4. QED
          BY <5>1, <5>2, <5>3 DEF PacketOK
      <4>2. QED
        BY <4>1
    <3>3. /\ Plays(L, N, sStep, m, tc, sq, ts) => Plays(L, N, t, m, tc, Append(sq, p), ts)
          /\ Games(L, N, sStep, m, tc, sq) => Games(L, N, t, m, tc, Append(sq, p))
      BY <1>1, <1>4, <3>1, <3>2, LinkAppend
    <3>4. QED
      BY <1>5, <2>1, <3>3
  <2>2. CASE ~Active(c)
    <3>1. N = 0 .. r
      BY <2>2 DEF Near, N
    <3>2. (\A s \in N : s < t) /\ \A i \in DOMAIN sq : sq[i].kind # "ready"
      <4>1. \A s \in N : s < t
        BY ONLY <1>4, <3>1, r \in Nat, t \in Nat
      <4>2. sq = <<>>
        BY DEF sq
      <4>3. QED
        BY <4>1, <4>2
    <3>3. ASSUME NEW k, Revises(L, L, k, t)
          PROVE  /\ Plays(L, N, sStep, m, tc, sq, ts) => Plays(L, N, t, m, tc, sq, ts)
                 /\ Games(L, N, sStep, m, tc, sq) => Games(L, N, t, m, tc, sq)
      BY ONLY <1>1, <1>4, <3>2, <3>3, L \in Seq(LogCmd), t \in Nat, LinkFar
    <3>4. QED
      BY <1>5, <2>2, <3>3, RevisesSame
  <2>3. QED
    BY <2>1, <2>2
<1>9. FollowInv(c, L, r)'
  <2>1. /\ Games(L, N, t, m, tc, sendq'[c])
        /\ IsClean(c) => /\ why[c] \notin {"desync", "kicked"} /\ Says(L, t, ts)
                         /\ InGame(c) => Plays(L, N, t, m, tc, sendq'[c], ts)
    BY <1>7, <1>8 DEF FollowInv, N, m, tc, sq, ts
  <2>2. client'[c] = m /\ toClient'[c] = tc /\ toServer'[c] = ts /\ sStep' = t /\ why'[c] = why[c]
    BY <1>3 DEF m, tc, ts
  <2>3. QED
    BY <1>2, <2>1, <2>2 DEF FollowInv
<1>10. QED
  BY <1>6, <1>9

\* A frame of the server.
LEMMA FrameTurn ==
    ASSUME TypeOK, TypeOK', LockstepInv, NEW L \in Seq(LogCmd), NEW reach \in [Client -> Nat], WInv(L, reach), SrvFrame
    PROVE  WorldInv'
<1> USE DEF ghostVars
<1>1. ServerWorldInv(L)' /\ Chk(L, sStep + 1, sWorld)
  BY FrameServer DEF WInv
<1>2. PICK p : /\ sendq' = SendAll(p)
               /\ p \in {[kind |-> "check", step |-> sStep + 2, map |-> sMap, srvStep |-> sStep + 1, chk |-> sWorld],
                         [kind |-> "step", step |-> sStep + 1, map |-> sMap]}
  BY DEF SrvFrame
<1>3. FramePacket(p, sStep, sWorld)
  <2>1. sStep + 1 \in Nat /\ sStep + 1 + 1 = sStep + 2 /\ sMap \in Nat /\ sWorld \in World
    BY DEF TypeOK
  <2>2. CASE p = [kind |-> "check", step |-> sStep + 2, map |-> sMap, srvStep |-> sStep + 1, chk |-> sWorld]
    <3>1. [kind |-> "check", step |-> (sStep + 1) + 1, map |-> sMap, srvStep |-> sStep + 1, chk |-> sWorld] \in ServerPacket
      BY <2>1, PacketFacts
    <3>2. p \in ServerPacket
      BY <2>1, <2>2, <3>1
    <3>3. QED
      BY <2>2, <3>2 DEF FramePacket, Stamped, IsCommand
  <2>3. CASE p = [kind |-> "step", step |-> sStep + 1, map |-> sMap]
    <3>1. p \in ServerPacket
      BY <2>1, <2>3, PacketFacts
    <3>2. QED
      BY <2>3, <3>1 DEF FramePacket, Stamped, IsCommand
  <2>4. QED
    BY <1>2, <2>2, <2>3
<1>4. /\ sStep' = sStep + 1 /\ loop = "execute"
      /\ UNCHANGED <<slot, sQueue, toClient, toServer, client, why, glitches, lost>>
  BY DEF SrvFrame
<1>5. ASSUME NEW c \in Client PROVE SeatInv(c, reach[c])' /\ FollowInv(c, L, reach[c])'
  <2>1. SeatInv(c, reach[c]) /\ FollowInv(c, L, reach[c]) /\ reach[c] \in Nat
    BY DEF WInv
  <2>2. sendq[c] = <<>>
    BY <1>4 DEF LockstepInv, ServerInv
  <2>3. QED
    BY <1>1, <1>2, <1>3, <1>4, <2>1, <2>2, FrameClient
<1>6. QED
  BY <1>1, <1>5, WorldFrom

-----------------------------------------------------------------------------
(* The invariant of the specification. *)

\* It holds initially: the log is empty, nobody is connected.
LEMMA WorldInit == Init => WorldInv
<1> SUFFICES ASSUME Init PROVE WorldInv
  OBVIOUS
<1> DEFINE L == <<>>
           reach == [c \in Client |-> 0]
<1>1. L \in Seq(LogCmd) /\ Len(L) = 0 /\ DOMAIN L = {} /\ reach \in [Client -> Nat]
  OBVIOUS
<1>2. \A c \in Client : reach[c] = 0
  OBVIOUS
<1>3. WorldOf(L, 0) = <<>> /\ MapAt(L, 0) = 1
  BY DEF WorldOf, MapAt
<1> HIDE DEF L, reach
<1>4. /\ sStep = 0 /\ sMap = 1 /\ sQueue = <<>> /\ sWorld = <<>> /\ sChk = NoChecklists /\ nextMap = 2
      /\ slot = [c \in Client |-> "inactive"] /\ sendq = [c \in Client |-> <<>>]
      /\ toClient = [c \in Client |-> <<>>] /\ toServer = [c \in Client |-> <<>>]
      /\ client = [c \in Client |-> Outside("offline", 0)] /\ why = [c \in Client |-> "ok"]
  BY DEF Init
<1>5. ServerWorldInv(L)
  <2>1. At(L, 0, sWorld, sMap, sStep)
    BY <1>1, <1>3, <1>4 DEF At
  <2>2. Len(sWorld) = 0 /\ <<>> \in Seq(ServerPacket) /\ DOMAIN sQueue = {}
    BY <1>4
  <2>3. StreamOK(L, sQueue, 0, Nat, sStep)
    BY <1>1, <1>4, <2>2, StreamNothing, Zenon
  <2>4. \A s \in 0 .. sStep : Chk(L, s, LCHKLST(sChk, s))
    <3>1. \A s \in 0 .. sStep : s = 0
      BY <1>4
    <3>2. ChecklistCount \in Nat /\ ChecklistCount > 0
      BY BoundsAssumption
    <3>3. 0 % ChecklistCount \in 0 .. ChecklistCount - 1
      BY <3>2
    <3>4. LCHKLST(sChk, 0) = Blank
      BY <1>4, <3>3 DEF LCHKLST, NoChecklists
    <3>5. QED
      BY <3>1, <3>4 DEF Chk
  <2>5. LogOK(L) /\ nextMap > 1
    BY <1>1, <1>4 DEF LogOK
  <2>6. Remembers(L, 0, allMaps)
    <3>1. allMaps = <<1>> /\ MaxMapCounters \in Nat /\ MaxMapCounters > 0
      BY BoundsAssumption DEF Init
    <3>2. /\ <<1>> \in Seq(Nat) /\ Len(<<1>>) = 1 /\ DOMAIN <<1>> = {1} /\ <<1>>[1] = 1
      OBVIOUS
    <3>3. 1 <= MaxMapCounters /\ \A k \in 0 .. 0 : k = 0
      BY <3>1
    <3>4. QED
      BY <1>3, <3>1, <3>2, <3>3 DEF Remembers
  <2>7. QED
    BY <1>1, <2>1, <2>2, <2>3, <2>4, <2>5, <2>6 DEF ServerWorldInv
<1>6. ASSUME NEW c \in Client PROVE SeatInv(c, reach[c]) /\ FollowInv(c, L, reach[c])
  <2>1. /\ slot[c] = "inactive" /\ sendq[c] = <<>> /\ toClient[c] = <<>> /\ toServer[c] = <<>>
        /\ client[c].state = "offline" /\ client[c].barrier = 0 /\ why[c] = "ok" /\ reach[c] = 0
    BY <1>2, <1>4 DEF Outside, Reset
  <2>2. ~Active(c) /\ ~InGame(c) /\ ~Awaits(c)
    BY <2>1 DEF Active, InGame, Awaits
  <2>3. JoinInv(client[c], toClient[c], toServer[c]) /\ Says(L, sStep, toServer[c])
    BY <2>1 DEF JoinInv, Says
  <2>4. Games(L, Near(c, reach[c]), sStep, client[c], toClient[c], sendq[c])
    BY <2>1 DEF Games
  <2>5. QED
    BY <1>4, <2>1, <2>2, <2>3, <2>4 DEF SeatInv, FollowInv
<1>7. QED
  BY <1>1, <1>5, <1>6 DEF WorldInv, WInv

\* Every step keeps it.
LEMMA WorldStep ==
    TypeOK /\ TypeOK' /\ LockstepInv /\ PausedOnlyWhenEmpty /\ WorldInv /\ [Next]_vars => WorldInv'
<1> SUFFICES ASSUME TypeOK, TypeOK', LockstepInv, PausedOnlyWhenEmpty, WorldInv, [Next]_vars PROVE WorldInv'
  OBVIOUS
<1>1. PICK L \in Seq(LogCmd), reach \in [Client -> Nat] : WInv(L, reach)
  BY DEF WorldInv
<1>2. CASE UNCHANGED vars
  <2>1. ServerWorldInv(L)'
    BY <1>1, <1>2 DEF vars, serverVars, WInv, ServerWorldInv
  <2>2. ASSUME NEW d \in Client PROVE SeatInv(d, reach[d])' /\ FollowInv(d, L, reach[d])'
    <3>1. SeatInv(d, reach[d]) /\ FollowInv(d, L, reach[d])
      BY <1>1 DEF WInv
    <3>2. /\ sStep' = sStep /\ slot' = slot /\ sendq' = sendq /\ toClient' = toClient
          /\ toServer' = toServer /\ client' = client /\ why' = why /\ glitches' = glitches
          /\ lost' = lost /\ sPaused' = sPaused /\ sQueue' = sQueue
      BY <1>2 DEF vars, serverVars, wireVars, ghostVars
    <3>3. (IsClean(d)' => IsClean(d)) /\ (sPaused' => sPaused)
      BY <3>2 DEF IsClean
    <3>4. QED
      BY <3>1, <3>2, <3>3, Elsewhere
  <2>3. QED
    BY <2>1, <2>2, WorldFrom
<1>3. CASE SrvFlush
  BY <1>1, <1>3, FlushTurn
<1>4. CASE SrvExecuteTool
  BY <1>1, <1>4, ServerToolTurn
<1>5. CASE SrvExecuteSync
  BY <1>1, <1>5, ServerSyncTurn
<1>6. CASE SrvFrame
  BY <1>1, <1>6, FrameTurn
<1>7. CASE SrvIdle
  BY <1>1, <1>7, IdleTurn
<1>8. CASE SrvForceSync
  <2>1. CASE sPaused
    <3>1. SrvReload(NoClient, nextMap) /\ nextMap' = nextMap + 1
      BY <1>8, <2>1 DEF SrvForceSync
    <3>2. QED
      BY <1>1, <2>1, <3>1, ForceTurn
  <2>2. CASE ~sPaused
    BY <1>1, <1>8, <2>2, IssueTurn
  <2>3. QED
    BY <2>1, <2>2
<1>9. ASSUME NEW t \in Tool, SrvTool(t) PROVE WorldInv'
  BY <1>1, <1>9, IssueTurn
<1>10. ASSUME NEW c \in Client, SrvReceive(c) PROVE WorldInv'
  BY <1>1, <1>10, JoinServerTurn, HearServerTurn DEF SrvReceive
<1>11. ASSUME NEW c \in Client, Connect(c) PROVE WorldInv'
  BY <1>1, <1>11, ConnectTurn
<1>12. ASSUME NEW c \in Client, CliReceive(c) PROVE WorldInv'
  BY <1>1, <1>12, JoinTurn, GameTurn, ReceiveTurn DEF CliReceive
<1>13. ASSUME NEW c \in Client, CliRun(c) \/ CliQuit(c) \/ Diverge(c) \/ \E t \in Tool : CliTool(c, t)
       PROVE  WorldInv'
  BY <1>1, <1>13, WorkTurn
<1>14. QED
  BY <1>2, <1>3, <1>4, <1>5, <1>6, <1>7, <1>8, <1>9, <1>10, <1>11, <1>12, <1>13 DEF Next, SrvStep

\* The world of every clean client is, in every state of every run, that of a
\* prefix of the log of the server, and what follows leads along the rest.
THEOREM WorldInvariant == Spec => []WorldInv
<1>1. QED
  BY WorldInit, WorldStep, TypeInit, TypeStep, LockstepInit, LockstepStep, PausedOnlyWhenEmptyTheorem, PTL DEF Spec

\* No checklist accuses a client whose simulation did not diverge and that lost
\* no command: neither NWC_CHECK and nwc_tool_t, compared by the client, nor
\* NWC_READY and nwc_tool_t, compared by the server.
THEOREM NoFalseDesyncTheorem == Spec => []NoFalseDesync
<1>1. WorldInv => NoFalseDesync
  BY DEF WorldInv, WInv, FollowInv, NoFalseDesync
<1>2. QED
  BY <1>1, WorldInvariant, PTL

\* A client that leads along the log has done a prefix of it to its world, and
\* what it has not done yet is not of an earlier step than its own.
LEMMA PlaysWorld ==
    ASSUME NEW L \in Seq(LogCmd), NEW N, Downward(N), NEW S \in Nat, NEW tc \in Seq(ServerPacket),
           NEW sq \in Seq(ServerPacket), NEW ts, NEW m \in Machine, Plays(L, N, S, m, tc, sq, ts),
           m.step \in N, m.step <= S, NotAbove(m.step, m.queue),
           \A i \in DOMAIN tc : Stamped(tc[i]) => tc[i].step > m.step,
           \A i \in DOMAIN sq : Stamped(sq[i]) => sq[i].step > m.step
    PROVE  \E k \in 0 .. Len(L) :
              /\ m.world = WorldOf(L, k) /\ \A i \in 1 .. k : L[i].step <= S
              /\ \A i \in k + 1 .. Len(L) : L[i].step >= m.step
<1>1. /\ DOMAIN L = 1 .. Len(L) /\ Len(L) \in Nat /\ \A i \in DOMAIN L : L[i].step \in Nat
  BY LogFacts
<1>2. /\ m.queue \in Seq(ServerPacket) /\ m.step \in Nat /\ m.queue \o tc \in Seq(ServerPacket)
      /\ (m.queue \o tc) \o sq \in Seq(ServerPacket) /\ tc \o sq \in Seq(ServerPacket)
  BY LinkTypes
<1>3. CASE /\ Loading(m) /\ Fresh(L, N, S, m.world, tc \o sq)
           /\ \A j \in DOMAIN ts : ts[j].kind # "ready"
  <2>1. m.step = 0
    BY <1>3 DEF Loading
  <2> DEFINE P == tc \o sq
  <2>2. P \in Seq(ServerPacket) /\ Fresh(L, N, S, m.world, P)
    BY <1>2, <1>3
  <2> HIDE DEF P
  <2>3. P[1].step <= S /\ \E n \in 0 .. Len(L) : At(L, n, m.world, P[1].map, P[1].step)
    BY <2>2 DEF Fresh
  <2>4. PICK k \in 0 .. Len(L) : At(L, k, m.world, P[1].map, P[1].step)
    BY <2>3
  <2>5. P[1].step \in Nat
    <3>1. P # <<>> /\ P[1].kind = "ready"
      BY <2>2 DEF Fresh
    <3>2. P[1] \in ServerPacket
      BY <2>2, <3>1
    <3>3. QED
      BY <3>1, <3>2, StepFacts
  <2>6. m.world = WorldOf(L, k) /\ \A i \in 1 .. k : L[i].step <= P[1].step
    BY <2>4 DEF At
  <2>7. \A i \in 1 .. k : L[i].step <= S
    <3> SUFFICES ASSUME NEW i \in 1 .. k PROVE L[i].step <= S
      OBVIOUS
    <3>1. i \in DOMAIN L /\ L[i].step \in Nat /\ L[i].step <= P[1].step
      BY <1>1, <2>6
    <3>2. QED
      BY <2>3, <2>5, <3>1
  <2>8. \A i \in k + 1 .. Len(L) : L[i].step >= m.step
    BY <1>1, <2>1
  <2>9. QED
    BY <2>6, <2>7, <2>8
<1>4. CASE Settled(L, N, S, m, (m.queue \o tc) \o sq)
  <2> DEFINE P == (m.queue \o tc) \o sq
  <2>1. P \in Seq(ServerPacket) /\ Settled(L, N, S, m, P)
    BY <1>2, <1>4
  <2>2. \A p \in DOMAIN P : Stamped(P[p]) => P[p].step >= m.step
    <3> DEFINE q == m.queue \o tc
    <3>1. /\ q \in Seq(ServerPacket)
          /\ \A i \in DOMAIN q : \/ i \in DOMAIN m.queue /\ q[i] = m.queue[i]
                                 \/ i - Len(m.queue) \in DOMAIN tc /\ q[i] = tc[i - Len(m.queue)]
      BY <1>2, ConcatFacts
    <3> HIDE DEF q
    <3>2. \A i \in DOMAIN (q \o sq) : \/ i \in DOMAIN q /\ (q \o sq)[i] = q[i]
                                      \/ i - Len(q) \in DOMAIN sq /\ (q \o sq)[i] = sq[i - Len(q)]
      BY <3>1, ConcatFacts
    <3>3. \A i \in DOMAIN m.queue : Stamped(m.queue[i]) => m.queue[i].step >= m.step
      <4>1. \A i \in DOMAIN m.queue : m.queue[i] \in ServerPacket
        BY <1>2
      <4>2. \A i \in DOMAIN m.queue : Stamped(m.queue[i]) => m.queue[i].step \in Nat
        BY <4>1, StepFacts
      <4>3. QED
        BY <1>2, <4>2 DEF NotAbove
    <3>4. /\ \A i \in DOMAIN tc : Stamped(tc[i]) => tc[i].step >= m.step
          /\ \A i \in DOMAIN sq : Stamped(sq[i]) => sq[i].step >= m.step
      <4>1. /\ \A i \in DOMAIN tc : Stamped(tc[i]) => tc[i].step \in Nat
            /\ \A i \in DOMAIN sq : Stamped(sq[i]) => sq[i].step \in Nat
        BY StepFacts
      <4>2. QED
        BY <1>2, <4>1
    <3>5. \A i \in DOMAIN q : Stamped(q[i]) => q[i].step >= m.step
      BY <3>1, <3>3, <3>4
    <3>6. QED
      BY <3>2, <3>4, <3>5 DEF q
  <2> HIDE DEF P
  <2>3. PICK k \in 0 .. Len(L) : At(L, k, m.world, m.map, m.step) /\ StreamOK(L, P, k, N, S)
    BY <2>1 DEF Settled
  <2>4. m.world = WorldOf(L, k) /\ \A i \in 1 .. k : L[i].step <= m.step
    BY <2>3 DEF At
  <2>5. \A i \in 1 .. k : L[i].step <= S
    <3> SUFFICES ASSUME NEW i \in 1 .. k PROVE L[i].step <= S
      OBVIOUS
    <3>1. i \in DOMAIN L /\ L[i].step \in Nat /\ L[i].step <= m.step
      BY <1>1, <2>4
    <3>2. QED
      BY <1>2, <3>1
  <2>6. \A i \in k + 1 .. Len(L) : L[i].step >= m.step
    <3> SUFFICES ASSUME NEW i \in k + 1 .. Len(L), ~(L[i].step >= m.step) PROVE FALSE
      OBVIOUS
    <3>1. i \in DOMAIN L /\ i > k /\ L[i].step \in Nat
      BY <1>1
    <3>2. L[i].step <= m.step
      BY <1>2, <3>1
    <3>3. L[i].step \in N
      BY <3>1, <3>2 DEF Downward
    <3>4. Follow(P, L, k, N)
      BY <2>3 DEF StreamOK
    <3>5. PICK p \in DOMAIN P : Stamped(P[p]) /\ P[p] = L[i]
      BY <2>1, <3>1, <3>3, <3>4, FollowFound
    <3>6. QED
      BY <2>2, <3>5
  <2>7. QED
    BY <2>4, <2>5, <2>6
<1>5. QED
  BY <1>3, <1>4 DEF Plays

\* A client whose simulation did not diverge, and that lost no command, has done
\* to its world exactly what the server did to its own, at the same steps.
THEOREM SameWorldTheorem == Spec => []SameWorld
<1>1. TypeOK /\ LockstepInv /\ WorldInv => SameWorld
  <2> SUFFICES ASSUME TypeOK, LockstepInv, WorldInv, NEW c \in Client, InGame(c), IsClean(c)
               PROVE  LET w == client[c].world
                          Agree(n) == \A i \in 1 .. n : w[i] = sWorld[i]
                      IN  IF Len(w) <= Len(sWorld)
                          THEN /\ Agree(Len(w))
                               /\ \A i \in Len(w) + 1 .. Len(sWorld) : sWorld[i].step >= client[c].step
                          ELSE /\ Agree(Len(sWorld))
                               /\ \A i \in Len(sWorld) + 1 .. Len(w) : w[i].step = sStep
    BY DEF SameWorld
  <2>1. PICK L \in Seq(LogCmd), reach \in [Client -> Nat] : WInv(L, reach)
    BY DEF WorldInv
  <2>2. /\ ServerWorldInv(L) /\ reach[c] \in Nat /\ SeatInv(c, reach[c])
        /\ Plays(L, Near(c, reach[c]), sStep, client[c], toClient[c], sendq[c], toServer[c])
    BY <2>1 DEF WInv, FollowInv
  <2> DEFINE m == client[c]
             tc == toClient[c]
             sq == sendq[c]
             ts == toServer[c]
  <2>3. PICK N : N = Near(c, reach[c])
    OBVIOUS
  <2>4. /\ Downward(N) /\ m.step \in N /\ m.step \in Nat /\ m.barrier \in Nat /\ sStep \in Nat
        /\ m.step <= m.barrier /\ m.barrier <= sStep
        /\ m \in Machine /\ tc \in Seq(ServerPacket) /\ sq \in Seq(ServerPacket)
    BY <2>2, <2>3, NearFacts
  <2>5. /\ NotAbove(m.step, m.queue)
        /\ \A i \in DOMAIN tc : Stamped(tc[i]) => tc[i].step > m.barrier
        /\ \A i \in DOMAIN sq : Stamped(sq[i]) => sq[i].step > m.barrier
    BY DEF LockstepInv, ClientInv, MachineInv, ChannelInv, StreamInv
  <2>6. Plays(L, N, sStep, m, tc, sq, ts)
    BY <2>2, <2>3
  <2> HIDE DEF m, tc, sq, ts
  <2>7. m.step <= sStep
    BY <2>4
  <2>8. /\ \A i \in DOMAIN tc : Stamped(tc[i]) => tc[i].step > m.step
        /\ \A i \in DOMAIN sq : Stamped(sq[i]) => sq[i].step > m.step
    <3>1. /\ \A i \in DOMAIN tc : Stamped(tc[i]) => tc[i].step \in Nat
          /\ \A i \in DOMAIN sq : Stamped(sq[i]) => sq[i].step \in Nat
      BY <2>4, StepFacts
    <3>2. QED
      BY <2>4, <2>5, <3>1
  <2>9. PICK k \in 0 .. Len(L) :
              /\ m.world = WorldOf(L, k) /\ \A i \in 1 .. k : L[i].step <= sStep
              /\ \A i \in k + 1 .. Len(L) : L[i].step >= m.step
    BY <2>4, <2>5, <2>6, <2>7, <2>8, PlaysWorld
  <2>10. PICK n \in 0 .. Len(L) : n = Len(sWorld)
    BY <2>2, ServerFacts
  <2>11. sWorld = WorldOf(L, n)
    BY <2>2, <2>10 DEF ServerWorldInv, At
  <2>12. /\ DOMAIN L = 1 .. Len(L) /\ Len(L) \in Nat /\ k \in Nat /\ n \in Nat
         /\ \A i \in DOMAIN L : L[i].step \in Nat
    BY LogFacts
  <2>13. /\ Len(m.world) = k /\ \A i \in 1 .. k : m.world[i] = Done(L[i].step, What(L[i]))
         /\ \A i \in 1 .. n : sWorld[i] = Done(L[i].step, What(L[i]))
    BY <2>9, <2>11, WorldOfFacts
  <2>14. /\ \A i \in 1 .. k : m.world[i].step = L[i].step
         /\ \A i \in 1 .. n : sWorld[i].step = L[i].step
    <3>1. \A s, x : Done(s, x).step = s
      BY DEF Done
    <3>2. ASSUME NEW i \in 1 .. k PROVE m.world[i].step = L[i].step
      <4>1. m.world[i] = Done(L[i].step, What(L[i]))
        BY <2>13
      <4>2. m.world[i].step = Done(L[i].step, What(L[i])).step
        BY <4>1
      <4>3. QED
        BY <3>1, <4>2
    <3>3. ASSUME NEW i \in 1 .. n PROVE sWorld[i].step = L[i].step
      <4>1. sWorld[i] = Done(L[i].step, What(L[i]))
        BY <2>13
      <4>2. sWorld[i].step = Done(L[i].step, What(L[i])).step
        BY <4>1
      <4>3. QED
        BY <3>1, <4>2
    <3>4. QED
      BY <3>2, <3>3
  <2>15. \A i \in n + 1 .. Len(L) : L[i].step >= sStep
    <3> SUFFICES ASSUME NEW i \in n + 1 .. Len(L) PROVE L[i].step >= sStep
      OBVIOUS
    <3>1. i \in DOMAIN L /\ i > n
      BY <2>12
    <3>2. PICK p \in DOMAIN sQueue : sQueue[p] = L[i]
      BY <2>2, <2>10, <3>1, ServerFacts
    <3>3. QED
      BY <3>2 DEF LockstepInv, ServerInv
  <2>16. CASE k <= n
    <3>1. \A i \in 1 .. k : m.world[i] = sWorld[i]
      BY <2>12, <2>13, <2>16
    <3>2. \A i \in k + 1 .. n : sWorld[i].step >= m.step
      BY <2>9, <2>12, <2>14
    <3>3. QED
      BY <2>10, <2>13, <2>16, <3>1, <3>2 DEF m
  <2>17. CASE ~(k <= n)
    <3>1. \A i \in 1 .. n : m.world[i] = sWorld[i]
      BY <2>12, <2>13, <2>17
    <3>2. \A i \in n + 1 .. k : m.world[i].step = sStep
      <4> SUFFICES ASSUME NEW i \in n + 1 .. k PROVE m.world[i].step = sStep
        OBVIOUS
      <4>1. i \in 1 .. k /\ i \in n + 1 .. Len(L) /\ i \in DOMAIN L
        BY <2>12
      <4>2. L[i].step <= sStep /\ L[i].step >= sStep /\ L[i].step \in Nat /\ m.world[i].step = L[i].step
        BY <2>9, <2>12, <2>14, <2>15, <4>1
      <4>3. QED
        BY <2>4, <4>2
    <3>3. QED
      BY <2>10, <2>13, <2>17, <3>1, <3>2 DEF m
  <2>18. QED
    BY <2>16, <2>17
<1>2. QED
  BY <1>1, WorldInvariant, TypeCorrect, LockstepInvariant, PTL

-----------------------------------------------------------------------------
(* The network game implements a replicated world. *)

\* The replicas of the refinement, and what can be done to them.
Machines == Client \cup {NoClient}
Deeds    == [step : Nat, what : Tool \cup {Reload}]

\* The worlds of the server and of a client.
LEMMA FaithfulFacts ==
    /\ DOMAIN FaithfulWorld = Machines /\ FaithfulWorld = [m \in Machines |-> FaithfulWorld[m]]
    /\ FaithfulWorld[NoClient] = sWorld /\ NoClient \notin Client
    /\ \A c \in Client : /\ InGame(c) /\ IsClean(c) => FaithfulWorld[c] = client[c].world
                         /\ ~(InGame(c) /\ IsClean(c)) => FaithfulWorld[c] = NoClient
  BY BoundsAssumption DEF FaithfulWorld, Faithful, Machines, InGame, IsClean

\* A world of the log is one of the abstract specification.
LEMMA DeedsFacts ==
    /\ \A L \in Seq(LogCmd) : \A k \in 0 .. Len(L) : WorldOf(L, k) \in Seq(Deeds)
    /\ Seq(Deeds) \subseteq World /\ NoClient \notin Seq(Deeds)
<1>1. ASSUME NEW L \in Seq(LogCmd), NEW k \in 0 .. Len(L) PROVE WorldOf(L, k) \in Seq(Deeds)
  <2>1. k \in Nat /\ \A i \in 1 .. k : i \in DOMAIN L
    OBVIOUS
  <2>2. \A i \in 1 .. k : Done(L[i].step, What(L[i])) \in Deeds
    BY <2>1, LogFacts DEF Done, Deeds
  <2>3. QED
    BY <2>1, <2>2 DEF WorldOf
<1>2. Seq(Deeds) \subseteq World
  <2>1. Deeds \subseteq Entry
    BY DEF Deeds, Entry
  <2>2. QED
    BY <2>1 DEF World
<1>3. QED
  BY <1>1, <1>2, NoWorldAssumption

\* The replicas have worlds, and what two of them have in common is the same.
Alike ==
    /\ FaithfulWorld \in [Machines -> Seq(Deeds) \cup {NoClient}] /\ sWorld \in Seq(Deeds)
    /\ \A p, q \in Machines : FaithfulWorld[p] # NoClient /\ FaithfulWorld[q] # NoClient =>
          \A i \in 1 .. Len(FaithfulWorld[p]) :
             i <= Len(FaithfulWorld[q]) => FaithfulWorld[p][i] = FaithfulWorld[q][i]

\* They all have done prefixes of one log.
LEMMA ReplicasAlike ==
    ASSUME TypeOK, LockstepInv, WorldInv
    PROVE  Alike
<1>1. PICK L \in Seq(LogCmd), reach \in [Client -> Nat] : WInv(L, reach)
  BY DEF WorldInv
<1>2. ASSUME NEW c \in Client, InGame(c), IsClean(c)
      PROVE  \E k \in 0 .. Len(L) : client[c].world = WorldOf(L, k)
  <2>1. /\ reach[c] \in Nat /\ SeatInv(c, reach[c])
        /\ Plays(L, Near(c, reach[c]), sStep, client[c], toClient[c], sendq[c], toServer[c])
    BY <1>1, <1>2 DEF WInv, FollowInv
  <2>2. PICK N : N = Near(c, reach[c])
    OBVIOUS
  <2> DEFINE m == client[c]
             tc == toClient[c]
             sq == sendq[c]
             ts == toServer[c]
  <2>3. /\ Downward(N) /\ m.step \in N /\ m \in Machine
        /\ tc \in Seq(ServerPacket) /\ sq \in Seq(ServerPacket)
    BY <2>1, <2>2, NearFacts
  <2>4. Plays(L, N, sStep, m, tc, sq, ts)
    BY <2>1, <2>2
  <2>5. \A n, mp, s, w : At(L, n, w, mp, s) => w = WorldOf(L, n)
    BY DEF At
  <2> HIDE DEF m, tc, sq, ts
  <2>6. CASE Fresh(L, N, sStep, m.world, tc \o sq)
    BY <2>5, <2>6 DEF Fresh, m
  <2>7. CASE Settled(L, N, sStep, m, (m.queue \o tc) \o sq)
    BY <2>5, <2>7 DEF Settled, m
  <2>8. QED
    BY <2>4, <2>6, <2>7 DEF Plays
<1>3. \E k \in 0 .. Len(L) : sWorld = WorldOf(L, k)
  BY <1>1, ServerFacts DEF WInv, ServerWorldInv, At
<1>4. ASSUME NEW p \in Machines, FaithfulWorld[p] # NoClient
      PROVE  \E k \in 0 .. Len(L) : FaithfulWorld[p] = WorldOf(L, k)
  BY <1>2, <1>3, <1>4, FaithfulFacts DEF Machines
<1>5. \A k \in 0 .. Len(L) : /\ k \in Nat /\ Len(WorldOf(L, k)) = k
                             /\ \A i \in 1 .. k : WorldOf(L, k)[i] = Done(L[i].step, What(L[i]))
  BY WorldOfFacts
<1>6. ASSUME NEW p \in Machines, NEW q \in Machines, FaithfulWorld[p] # NoClient, FaithfulWorld[q] # NoClient,
             NEW i \in 1 .. Len(FaithfulWorld[p]), i <= Len(FaithfulWorld[q])
      PROVE  FaithfulWorld[p][i] = FaithfulWorld[q][i]
  <2>1. PICK j \in 0 .. Len(L) : FaithfulWorld[p] = WorldOf(L, j)
    BY <1>4, <1>6
  <2>2. PICK k \in 0 .. Len(L) : FaithfulWorld[q] = WorldOf(L, k)
    BY <1>4, <1>6
  <2>3. i \in 1 .. j /\ i \in 1 .. k
    BY <1>5, <1>6, <2>1, <2>2
  <2>4. QED
    BY <1>5, <2>1, <2>2, <2>3
<1>7. \A p \in Machines : FaithfulWorld[p] \in Seq(Deeds) \cup {NoClient}
  BY <1>4, DeedsFacts
<1>8. QED
  BY <1>3, <1>6, <1>7, DeedsFacts, FaithfulFacts DEF Alike

\* Of a replica that did something, the agreement afterwards tells that it was
\* what the others had done in the same place.
LEMMA ReplicaAdvances ==
    ASSUME Alike, Alike', NEW r \in Machines, FaithfulWorld[r] # NoClient, NEW x \in Entry,
           FaithfulWorld' = [FaithfulWorld EXCEPT ![r] = Append(@, x)]
    PROVE  Replicas!Next
<1> DEFINE w == FaithfulWorld[r]
           v == FaithfulWorld'[r]
<1>1. w \in Seq(Deeds) /\ Seq(Deeds) \subseteq World /\ NoClient \notin World
  BY DeedsFacts, NoWorldAssumption DEF Alike
<1>2. v = Append(w, x) /\ \A q \in Machines : q # r => FaithfulWorld'[q] = FaithfulWorld[q]
  BY DEF Alike
<1>3. v # NoClient
  <2>1. w \in Seq(Entry)
    BY <1>1 DEF World
  <2>2. Append(w, x) \in World
    BY <2>1 DEF World
  <2>3. QED
    BY <1>1, <1>2, <2>2
<1>4. v \in Seq(Deeds)
  BY <1>3 DEF Alike
<1>5. Len(w) \in Nat /\ Len(v) = Len(w) + 1 /\ v[Len(w) + 1] = x /\ v # <<>>
  BY <1>1, <1>2
<1>6. ASSUME NEW q \in Machines, FaithfulWorld[q] # NoClient, Len(FaithfulWorld[q]) > Len(w)
      PROVE  FaithfulWorld[q][Len(w) + 1] = x
  <2>1. q # r
    BY <1>5, <1>6
  <2>2. FaithfulWorld[q] \in Seq(Deeds) /\ FaithfulWorld'[q] = FaithfulWorld[q]
    BY <1>2, <1>6, <2>1 DEF Alike
  <2>3. Len(w) + 1 \in 1 .. Len(v) /\ Len(w) + 1 <= Len(FaithfulWorld[q])
    BY <1>5, <1>6, <2>2
  <2>4. v[Len(w) + 1] = FaithfulWorld[q][Len(w) + 1]
    BY <1>3, <1>6, <2>2, <2>3 DEF Alike
  <2>5. QED
    BY <1>5, <2>4
<1>7. Replicas!Advance(r)
  BY <1>4, <1>5, <1>6 DEF Replicas!Advance, Replicas!Do, Replicas!Present, Machines, Deeds
<1>8. QED
  BY <1>7 DEF Replicas!Next, Machines

\* What a step does to the world of one machine.
Turned(r) ==
    \/ FaithfulWorld'[r] = FaithfulWorld[r]
    \/ r # NoClient /\ FaithfulWorld'[r] = NoClient
    \/ FaithfulWorld[r] # NoClient /\ \E x \in Entry : FaithfulWorld'[r] = Append(FaithfulWorld[r], x)
    \/ FaithfulWorld[r] = NoClient /\ \E n \in 0 .. Len(sWorld) : FaithfulWorld'[r] = SubSeq(sWorld, 1, n)

\* A step of one machine is one of the abstract specification, or none.
LEMMA ReplicaTurn ==
    ASSUME Alike, Alike', NEW r \in Machines, Turned(r),
           \A q \in Machines : q # r => FaithfulWorld'[q] = FaithfulWorld[q]
    PROVE  [Replicas!Next]_FaithfulWorld
<1>1. FaithfulWorld' = [FaithfulWorld EXCEPT ![r] = FaithfulWorld'[r]]
  BY DEF Alike
<1>2. CASE FaithfulWorld'[r] = FaithfulWorld[r]
  BY <1>1, <1>2 DEF Alike
<1>3. CASE r # NoClient /\ FaithfulWorld'[r] = NoClient /\ FaithfulWorld[r] # NoClient
  BY <1>1, <1>3 DEF Replicas!Next, Replicas!Leave, Replicas!Present, Machines
<1>4. CASE FaithfulWorld[r] # NoClient /\ \E x \in Entry : FaithfulWorld'[r] = Append(FaithfulWorld[r], x)
  <2>1. PICK x \in Entry : FaithfulWorld'[r] = Append(FaithfulWorld[r], x)
    BY <1>4
  <2>2. FaithfulWorld' = [FaithfulWorld EXCEPT ![r] = Append(@, x)]
    BY <1>1, <2>1
  <2>3. QED
    BY <1>4, <2>2, ReplicaAdvances
<1>5. CASE FaithfulWorld[r] = NoClient /\ \E n \in 0 .. Len(sWorld) : FaithfulWorld'[r] = SubSeq(sWorld, 1, n)
  <2>1. PICK n \in 0 .. Len(sWorld) : FaithfulWorld'[r] = SubSeq(sWorld, 1, n)
    BY <1>5
  <2>2. FaithfulWorld[NoClient] = sWorld
    BY FaithfulFacts
  <2>3. FaithfulWorld' = [FaithfulWorld EXCEPT ![r] = SubSeq(FaithfulWorld[NoClient], 1, n)]
    BY <1>1, <2>1, <2>2
  <2>4. QED
    BY <1>5, <2>2, <2>3 DEF Replicas!Next, Replicas!Enter, Replicas!Present, Machines
<1>6. QED
  BY <1>2, <1>3, <1>4, <1>5 DEF Turned

-----------------------------------------------------------------------------
(* The games that the server sends. *)

\* A game is a copy of the server's world: it holds no more than that has done.
GamesSent ==
    \A c \in Client : \A i \in DOMAIN toClient[c] :
        toClient[c][i].kind = "game" => Len(toClient[c][i].world) <= Len(sWorld)

\* The games among the packets u are some of t, or have at most n entries.
NoOtherGame(u, t, n) ==
    \A i \in DOMAIN u : u[i].kind = "game" =>
        (\E j \in DOMAIN t : u[i] = t[j]) \/ Len(u[i].world) <= n

\* What is done to a wire: reading, closing, sending and flushing.
LEMMA NoOtherGameFacts ==
    ASSUME NEW t \in Seq(ServerPacket), NEW n
    PROVE  /\ NoOtherGame(t, t, n) /\ NoOtherGame(<<>>, t, n)
           /\ t # <<>> => NoOtherGame(Tail(t), t, n)
           /\ \A u \in Seq(ServerPacket), x \in ServerPacket :
                 NoOtherGame(u, t, n) /\ (x.kind = "game" => Len(x.world) <= n)
                 => NoOtherGame(Append(u, x), t, n)
           /\ \A s \in Seq(ServerPacket) :
                 (\A i \in DOMAIN s : s[i].kind # "game") => NoOtherGame(t \o s, t, n)
<1>1. NoOtherGame(t, t, n) /\ NoOtherGame(<<>>, t, n)
  BY DEF NoOtherGame
<1>2. ASSUME t # <<>> PROVE NoOtherGame(Tail(t), t, n)
  BY <1>2, TailFacts DEF NoOtherGame
<1>3. ASSUME NEW u \in Seq(ServerPacket), NEW x \in ServerPacket, NoOtherGame(u, t, n),
             x.kind = "game" => Len(x.world) <= n
      PROVE  NoOtherGame(Append(u, x), t, n)
  <2>1. PICK v : v = Append(u, x)
    OBVIOUS
  <2>2. \A i \in DOMAIN v : (i \in DOMAIN u /\ v[i] = u[i]) \/ v[i] = x
    BY <2>1, AppendWhere
  <2>3. NoOtherGame(v, t, n)
    BY <1>3, <2>2 DEF NoOtherGame
  <2>4. QED
    BY <2>1, <2>3
<1>4. ASSUME NEW s \in Seq(ServerPacket), \A i \in DOMAIN s : s[i].kind # "game"
      PROVE  NoOtherGame(t \o s, t, n)
  <2>1. PICK v : v = t \o s
    OBVIOUS
  <2>2. \A i \in DOMAIN v : \/ i \in DOMAIN t /\ v[i] = t[i]
                            \/ i - Len(t) \in DOMAIN s /\ v[i] = s[i - Len(t)]
    BY <2>1, ConcatFacts
  <2>3. NoOtherGame(v, t, n)
    BY <1>4, <2>2 DEF NoOtherGame
  <2>4. QED
    BY <2>1, <2>3
<1>5. QED
  BY <1>1, <1>2, <1>3, <1>4

\* The server's world only grows, and no other games are sent.
LEMMA GamesKept ==
    ASSUME TypeOK, GamesSent, sWorld' \in World, Len(sWorld) <= Len(sWorld'),
           \A c \in Client : NoOtherGame(toClient'[c], toClient[c], Len(sWorld'))
    PROVE  GamesSent'
<1> SUFFICES ASSUME NEW c \in Client, NEW i \in DOMAIN toClient'[c], toClient'[c][i].kind = "game"
             PROVE  Len(toClient'[c][i].world) <= Len(sWorld')
  BY DEF GamesSent
<1>1. CASE \E j \in DOMAIN toClient[c] : toClient'[c][i] = toClient[c][j]
  <2>1. PICK j \in DOMAIN toClient[c] : toClient'[c][i] = toClient[c][j]
    BY <1>1
  <2>2. PICK x : x = toClient[c][j]
    OBVIOUS
  <2>3. x \in ServerPacket /\ x.kind = "game" /\ Len(x.world) <= Len(sWorld)
    BY <2>1, <2>2 DEF GamesSent, TypeOK
  <2>4. x.world \in World
    BY <2>3 DEF ServerPacket, WorldCmd, ToolCmd, SyncCmd, CheckCmd, Ready
  <2>5. Len(x.world) \in Nat /\ Len(sWorld) \in Nat /\ Len(sWorld') \in Nat
    BY <2>4 DEF World, TypeOK
  <2>6. QED
    BY <2>1, <2>2, <2>3, <2>5
<1>2. QED
  BY <1>1 DEF NoOtherGame

\* The server does something to its world, or nothing.
LEMMA WorldGrows ==
    ASSUME sWorld \in World, NEW x, sWorld' = sWorld \/ sWorld' = Append(sWorld, x)
    PROVE  Len(sWorld) <= Len(sWorld')
<1>1. Len(sWorld) \in Nat /\ Len(Append(sWorld, x)) = Len(sWorld) + 1
  BY DEF World
<1>2. QED
  BY <1>1

\* One wire is read, closed or sent a packet that is no game.
LEMMA GamesWire ==
    ASSUME TypeOK, TypeOK', GamesSent, NEW c \in Client, sWorld' = sWorld,
           \/ toClient' = toClient
           \/ toClient[c] # <<>> /\ CliTake(c)
           \/ toClient' = [toClient EXCEPT ![c] = <<>>]
           \/ \E x \in ServerPacket : x.kind # "game" /\ toClient' = [toClient EXCEPT ![c] = Append(@, x)]
    PROVE  GamesSent'
<1>1. /\ \A d \in Client : toClient[d] \in Seq(ServerPacket) /\ toClient \in [Client -> Seq(ServerPacket)]
      /\ sWorld \in World
  BY DEF TypeOK
<1>2. \A d \in Client \ {c} : toClient'[d] = toClient[d]
  BY <1>1 DEF CliTake
<1>3. PICK n : n = Len(sWorld)
  OBVIOUS
<1>4. NoOtherGame(toClient'[c], toClient[c], n)
  <2>1. CASE toClient' = toClient
    BY <1>1, <2>1, NoOtherGameFacts
  <2>2. CASE toClient[c] # <<>> /\ CliTake(c)
    <3>1. toClient'[c] = Tail(toClient[c])
      BY <1>1, <2>2 DEF CliTake
    <3>2. QED
      BY <1>1, <2>2, <3>1, NoOtherGameFacts
  <2>3. CASE toClient' = [toClient EXCEPT ![c] = <<>>]
    <3>1. toClient'[c] = <<>>
      BY <1>1, <2>3
    <3>2. QED
      BY <1>1, <3>1, NoOtherGameFacts
  <2>4. ASSUME NEW x \in ServerPacket, x.kind # "game", toClient' = [toClient EXCEPT ![c] = Append(@, x)]
        PROVE  NoOtherGame(toClient'[c], toClient[c], n)
    <3>1. toClient'[c] = Append(toClient[c], x)
      BY <1>1, <2>4
    <3>2. QED
      BY <1>1, <2>4, <3>1, NoOtherGameFacts
  <2>5. QED
    BY <2>1, <2>2, <2>3, <2>4
<1>5. \A d \in Client : NoOtherGame(toClient'[d], toClient[d], n)
  BY <1>1, <1>2, <1>4, NoOtherGameFacts
<1>6. Len(sWorld) <= Len(sWorld')
  BY <1>1, WorldGrows
<1>7. QED
  BY <1>1, <1>3, <1>5, <1>6, GamesKept

\* The server saves its world, and sends that to the one that joins.
LEMMA GamesReload ==
    ASSUME TypeOK, TypeOK', GamesSent, NEW c \in Client \cup {NoClient}, NEW newMap \in Nat, SrvReload(c, newMap)
    PROVE  GamesSent'
<1>1. /\ \A d \in Client : toClient[d] \in Seq(ServerPacket)
      /\ toClient \in [Client -> Seq(ServerPacket)] /\ sWorld \in World /\ sWorld' \in World
  BY DEF TypeOK
<1>2. sWorld' = Append(sWorld, Done(sStep, Reload))
  BY DEF SrvReload
<1>3. Len(sWorld) <= Len(sWorld')
  BY <1>1, <1>2, WorldGrows
<1>4. PICK n : n = Len(sWorld')
  OBVIOUS
<1>5. CASE toClient' = toClient
  <2>1. \A d \in Client : NoOtherGame(toClient'[d], toClient[d], n)
    BY <1>1, <1>5, NoOtherGameFacts
  <2>2. QED
    BY <1>1, <1>3, <1>4, <2>1, GamesKept
<1>6. CASE toClient' # toClient
  <2> DEFINE game == [kind |-> "game", world |-> sWorld']
             ready == ReadyPacket(sStep, newMap, LCHKLST(sChk, sStep))
             tc == toClient[c]
  <2>1. c \in Client /\ toClient' = [toClient EXCEPT ![c] = @ \o <<game, ready>>]
    BY <1>6 DEF SrvReload
  <2>2. game \in ServerPacket /\ ready \in ServerPacket
    <3>1. LCHKLST(sChk, sStep) \in World /\ sWorld' \in World /\ sStep \in Nat
      BY RingFacts DEF TypeOK, World
    <3>2. QED
      BY <3>1, PacketFacts
  <2>3. game.kind = "game" /\ game.world = sWorld' /\ ready.kind = "ready" /\ tc \in Seq(ServerPacket)
    BY <1>1, <2>1 DEF ReadyPacket
  <2>4. tc \o <<game, ready>> = Append(Append(tc, game), ready)
    BY <2>2, <2>3
  <2>5. /\ toClient'[c] = Append(Append(tc, game), ready)
        /\ \A d \in Client \ {c} : toClient'[d] = toClient[d]
    BY <1>1, <2>1, <2>4
  <2> HIDE DEF game, ready
  <2>6. Len(game.world) <= n
    BY <1>1, <1>4, <2>3 DEF World
  <2>7. NoOtherGame(Append(tc, game), tc, n) /\ Append(tc, game) \in Seq(ServerPacket)
    BY <2>2, <2>3, <2>6, NoOtherGameFacts
  <2>8. NoOtherGame(Append(Append(tc, game), ready), tc, n)
    BY <2>2, <2>3, <2>7, NoOtherGameFacts
  <2>9. \A d \in Client : NoOtherGame(toClient'[d], toClient[d], n)
    BY <1>1, <2>5, <2>8, NoOtherGameFacts
  <2>10. QED
    BY <1>1, <1>3, <1>4, <2>9, GamesKept
<1>7. QED
  BY <1>5, <1>6

\* Every step sends no games but copies of the server's world.
LEMMA GamesStep == TypeOK /\ TypeOK' /\ LockstepInv /\ GamesSent /\ [Next]_vars => GamesSent'
<1> SUFFICES ASSUME TypeOK, TypeOK', LockstepInv, GamesSent, [Next]_vars PROVE GamesSent'
  OBVIOUS
<1> USE DEF serverVars, wireVars, ghostVars
<1>1. /\ toClient \in [Client -> Seq(ServerPacket)] /\ sendq \in [Client -> Seq(ServerPacket)]
      /\ toServer \in [Client -> Seq(ClientPacket)]
      /\ sWorld \in World /\ sWorld' \in World /\ sStep \in Nat /\ nextMap \in Nat /\ sQueue \in Seq(WorldCmd)
  BY DEF TypeOK
<1>2. ASSUME toClient' = toClient, Len(sWorld) <= Len(sWorld') PROVE GamesSent'
  <2>1. \A d \in Client : NoOtherGame(toClient'[d], toClient[d], Len(sWorld'))
    BY <1>1, <1>2, NoOtherGameFacts
  <2>2. QED
    BY <1>1, <1>2, <2>1, GamesKept
<1>3. ASSUME toClient' = toClient, sWorld' = sWorld PROVE GamesSent'
  BY <1>1, <1>2, <1>3, WorldGrows
<1>4. CASE UNCHANGED vars
  BY <1>3, <1>4 DEF vars
<1>5. CASE SrvFlush
  <2>1. sWorld' = sWorld /\ \A d \in Client : toClient'[d] = toClient[d] \o sendq[d]
    BY <1>5 DEF SrvFlush
  <2>2. ASSUME NEW d \in Client PROVE NoOtherGame(toClient'[d], toClient[d], Len(sWorld'))
    <3>1. \A i \in DOMAIN sendq[d] : sendq[d][i].kind # "game"
      BY DEF LockstepInv, ClientInv, ChannelInv
    <3>2. QED
      BY <1>1, <2>1, <3>1, NoOtherGameFacts
  <2>3. QED
    BY <1>1, <2>1, <2>2, WorldGrows, GamesKept
<1>6. CASE SrvExecuteTool
  <2>1. /\ toClient' = toClient
        /\ \E x : sWorld' = sWorld \/ sWorld' = Append(sWorld, x)
    BY <1>6 DEF SrvExecuteTool
  <2>2. QED
    BY <1>1, <1>2, <2>1, WorldGrows
<1>7. CASE SrvExecuteSync
  <2>1. Head(sQueue) \in WorldCmd /\ Head(sQueue).kind = "sync" /\ SrvReload(Head(sQueue).client, Head(sQueue).newMap)
    BY <1>1, <1>7 DEF SrvExecuteSync, SrvExecute, Due
  <2>2. Head(sQueue).client \in Client \cup {NoClient} /\ Head(sQueue).newMap \in Nat
    BY <2>1 DEF WorldCmd, ToolCmd, SyncCmd, CheckCmd
  <2>3. QED
    BY <2>1, <2>2, GamesReload
<1>8. CASE SrvFrame \/ SrvIdle \/ \E t \in Tool : SrvTool(t)
  BY <1>3, <1>8 DEF SrvFrame, SrvIdle, SrvTool
<1>9. CASE SrvForceSync
  <2>1. CASE SrvReload(NoClient, nextMap)
    BY <1>1, <2>1, GamesReload
  <2>2. CASE ~SrvReload(NoClient, nextMap)
    BY <1>3, <1>9, <2>2 DEF SrvForceSync
  <2>3. QED
    BY <2>1, <2>2
<1>10. ASSUME NEW c \in Client, SrvReceive(c) PROVE GamesSent'
  <2>1. ASSUME RemoveClient(c) PROVE GamesSent'
    <3>1. EOF \in ServerPacket /\ EOF.kind # "game"
      BY DEF EOF, ServerPacket
    <3>2. sWorld' = sWorld /\ toClient' = [toClient EXCEPT ![c] = Append(@, EOF)]
      BY <2>1 DEF RemoveClient
    <3>3. QED
      BY <3>1, <3>2, GamesWire
  <2>2. CASE SrvReceiveJoin(c)
    <3>1. PICK a : a = [kind |-> "join", answer |-> pending = NoClient]
      OBVIOUS
    <3>11. a \in ServerPacket /\ a.kind = "join"
      <4>1. (pending = NoClient) \in BOOLEAN
        OBVIOUS
      <4>2. PICK b \in BOOLEAN : b = (pending = NoClient)
        BY <4>1
      <4>3. a = [kind |-> "join", answer |-> b]
        BY <3>1, <4>2
      <4>4. [kind |-> "join", answer |-> b] \in [kind : {"join"}, answer : BOOLEAN]
        OBVIOUS
      <4>5. QED
        BY <4>3, <4>4 DEF ServerPacket
    <3>2. PICK x : x = SyncPacket(c)
      OBVIOUS
    <3>3. x \in ServerPacket /\ x.kind = "sync"
      BY <1>1, <3>2 DEF SyncPacket, ServerPacket, WorldCmd, SyncCmd, TypeOK
    <3>4. /\ sWorld' = sWorld
          /\ \/ toClient' = [toClient EXCEPT ![c] = @ \o <<a>> \o <<x>>]
             \/ toClient' = [toClient EXCEPT ![c] = @ \o <<a>>]
      BY <2>2, <3>1, <3>2 DEF SrvReceiveJoin, AcceptJoin
    <3>5. \A t \in Seq(ServerPacket) : t \o <<a>> = Append(t, a) /\ t \o <<a>> \o <<x>> = Append(Append(t, a), x)
      BY <3>3, <3>11
    <3>6. PICK n : n = Len(sWorld)
      OBVIOUS
    <3>7. NoOtherGame(toClient'[c], toClient[c], n)
      <4>1. NoOtherGame(Append(toClient[c], a), toClient[c], n) /\ Append(toClient[c], a) \in Seq(ServerPacket)
        <5>1. PICK t \in Seq(ServerPacket) : t = toClient[c]
          BY <1>1
        <5>2. NoOtherGame(t, t, n) /\ (a.kind = "game" => Len(a.world) <= n)
          BY <3>11, NoOtherGameFacts
        <5>3. NoOtherGame(Append(t, a), t, n)
          BY <3>11, <5>2, NoOtherGameFacts
        <5>4. Append(t, a) \in Seq(ServerPacket)
          BY <3>11
        <5>5. QED
          BY <5>1, <5>3, <5>4
      <4>2. NoOtherGame(Append(Append(toClient[c], a), x), toClient[c], n)
        BY <1>1, <3>3, <4>1, NoOtherGameFacts
      <4>3. \/ toClient'[c] = Append(Append(toClient[c], a), x)
            \/ toClient'[c] = Append(toClient[c], a)
        BY <1>1, <3>4, <3>5
      <4>4. QED
        BY <4>1, <4>2, <4>3
    <3>8. \A d \in Client \ {c} : toClient'[d] = toClient[d]
      BY <1>1, <3>4
    <3>9. \A d \in Client : NoOtherGame(toClient'[d], toClient[d], n)
      BY <1>1, <3>7, <3>8, NoOtherGameFacts
    <3>10. QED
      BY <1>1, <3>4, <3>6, <3>9, WorldGrows, GamesKept
  <2>3. CASE SrvReceiveTool(c)
    <3>1. RemoveClient(c) \/ (toClient' = toClient /\ sWorld' = sWorld)
      BY <2>3 DEF SrvReceiveTool, Kick
    <3>2. QED
      BY <1>3, <2>1, <3>1
  <2>4. CASE SrvReceiveReady(c)
    <3>1. PICK r : r = Head(toServer[c])
      OBVIOUS
    <3>2. RemoveClient(c) \/ (EchoReady(c, r) /\ sWorld' = sWorld)
      BY <2>4, <3>1 DEF SrvReceiveReady, Kick
    <3>3. r \in ServerPacket /\ r.kind = "ready"
      <4>1. r \in ClientPacket /\ r.kind = "ready"
        BY <1>1, <2>4, <3>1 DEF SrvReceiveReady, Received
      <4>2. QED
        BY <4>1 DEF ClientPacket, ServerPacket, ToolCmd, Ready
    <3>4. QED
      BY <2>1, <3>2, <3>3, GamesWire DEF EchoReady
  <2>5. CASE SrvReceiveEOF(c)
    BY <2>1, <2>5 DEF SrvReceiveEOF
  <2>6. QED
    BY <1>10, <2>2, <2>3, <2>4, <2>5 DEF SrvReceive
<1>11. ASSUME NEW c \in Client, NEW reason, LeaveNow(c, reason), sWorld' = sWorld PROVE GamesSent'
  BY <1>11, GamesWire DEF LeaveNow
<1>12. ASSUME NEW c \in Client, Connect(c) PROVE GamesSent'
  BY <1>12, GamesWire DEF Connect
<1>13. ASSUME NEW c \in Client, CliReceive(c) PROVE GamesSent'
  <2>1. \/ \E reason : LeaveNow(c, reason) /\ sWorld' = sWorld
        \/ toClient[c] # <<>> /\ CliTake(c) /\ sWorld' = sWorld
    <3>1. CASE CliJoin(c)
      BY <3>1 DEF CliJoin, CliHead, CliBecomes, Leave
    <3>2. CASE CliSync(c) \/ CliGame(c) \/ CliStep(c)
      BY <3>2 DEF CliSync, CliGame, CliStep, CliHead, CliBecomes
    <3>3. CASE CliDiscard(c)
      BY <3>3 DEF CliDiscard, Leave
    <3>4. CASE CliCommand(c)
      BY <3>4 DEF CliCommand, CliHead, CliBecomes, Leave
    <3>5. CASE CliReady(c) \/ CliEOF(c)
      BY <3>5 DEF CliReady, CliEOF, CliHead, CliBecomes, Leave
    <3>6. QED
      BY <1>13, <3>1, <3>2, <3>3, <3>4, <3>5 DEF CliReceive
  <2>2. QED
    BY <1>11, <2>1, GamesWire
<1>14. ASSUME NEW c \in Client, CliRun(c) \/ CliQuit(c) \/ Diverge(c) \/ \E t \in Tool : CliTool(c, t)
       PROVE  GamesSent'
  <2>1. \/ \E reason : LeaveNow(c, reason) /\ sWorld' = sWorld
        \/ toClient' = toClient /\ sWorld' = sWorld
    <3>1. CASE CliExecuteCheck(c)
      BY <3>1 DEF CliExecuteCheck, Executes, CliBecomes, Leave
    <3>2. CASE CliExecuteTool(c)
      BY <3>2 DEF CliExecuteTool, Executes, CliBecomes, Leave
    <3>3. CASE CliExecuteSync(c)
      BY <3>3 DEF CliExecuteSync, Executes, CliBecomes, Leave
    <3>4. CASE CliFrame(c) \/ CliQuit(c) \/ Diverge(c) \/ \E t \in Tool : CliTool(c, t)
      BY <3>4 DEF CliFrame, CliQuit, Diverge, CliTool, CliBecomes
    <3>5. QED
      BY <1>14, <3>1, <3>2, <3>3, <3>4 DEF CliRun
  <2>2. QED
    BY <1>3, <1>11, <2>1
<1>15. QED
  BY <1>4, <1>5, <1>6, <1>7, <1>8, <1>9, <1>10, <1>12, <1>13, <1>14 DEF Next, SrvStep

\* No game is sent before the server has a world.
LEMMA GamesInit == Init => GamesSent
  BY DEF Init, GamesSent

-----------------------------------------------------------------------------
(* Every step is one of the abstract specification. *)

\* The world of a shorter prefix of the log is the world of a longer one, as it
\* was earlier.
LEMMA PrefixOfWorld ==
    ASSUME NEW L \in Seq(LogCmd), NEW k \in 0 .. Len(L), NEW j \in 0 .. k
    PROVE  WorldOf(L, j) = SubSeq(WorldOf(L, k), 1, j)
<1> DEFINE v == WorldOf(L, j)
           w == WorldOf(L, k)
<1>1. k \in Nat /\ j \in Nat /\ j <= k /\ j \in 0 .. Len(L)
  BY LogFacts
<1>2. /\ v \in Seq(Entry) /\ Len(v) = j /\ \A i \in 1 .. j : v[i] = Done(L[i].step, What(L[i]))
      /\ w \in Seq(Entry) /\ Len(w) = k /\ \A i \in 1 .. k : w[i] = Done(L[i].step, What(L[i]))
  BY <1>1, WorldOfFacts DEF World
<1> HIDE DEF v, w
<1>3. \A i \in 1 .. j : v[i] = w[i]
  BY <1>1, <1>2
<1>4. SubSeq(w, 1, j) \in Seq(Entry) /\ Len(SubSeq(w, 1, j)) = j /\ \A i \in 1 .. j : SubSeq(w, 1, j)[i] = w[i]
  BY <1>1, <1>2
<1> DEFINE u == SubSeq(w, 1, j)
<1>5. u \in Seq(Entry) /\ Len(u) = j /\ \A i \in 1 .. j : u[i] = v[i]
  BY <1>3, <1>4
<1> HIDE DEF u
<1>6. u = v
  BY <1>2, <1>5
<1>7. QED
  BY <1>6 DEF u, v, w

\* The game that a client is about to load is the server's world, as it was.
LEMMA GameIsCopy ==
    ASSUME TypeOK, GamesSent, WorldInv, NEW c \in Client, client[c].state = "waitGame",
           toClient[c] # <<>>, Head(toClient[c]).kind = "game"
    PROVE  \E n \in 0 .. Len(sWorld) : Head(toClient[c]).world = SubSeq(sWorld, 1, n)
<1>1. PICK L \in Seq(LogCmd), reach \in [Client -> Nat] : WInv(L, reach)
  BY DEF WorldInv
<1>2. toClient[c] \in Seq(ServerPacket) /\ 1 \in DOMAIN toClient[c] /\ Head(toClient[c]) = toClient[c][1]
  BY TailFacts DEF TypeOK
<1>3. PICK w : w = Head(toClient[c]).world
  OBVIOUS
<1>4. Expects(client[c], toClient[c], 1)
  BY <1>2 DEF Expects
<1>5. Fresh(L, Near(c, reach[c]), sStep, w, After(toClient[c], 1) \o sendq[c])
  BY <1>1, <1>2, <1>3, <1>4 DEF WInv, FollowInv, Games
<1>6. PICK n \in 0 .. Len(L) : w = WorldOf(L, n)
  BY <1>5 DEF Fresh, At
<1>7. Len(w) = n /\ n \in Nat
  BY <1>6, WorldOfFacts
<1>8. Len(w) <= Len(sWorld)
  BY <1>2, <1>3 DEF GamesSent
<1>9. PICK k \in 0 .. Len(L) : k = Len(sWorld) /\ sWorld = WorldOf(L, k)
  BY <1>1, ServerFacts DEF WInv, ServerWorldInv, At
<1>10. n \in 0 .. k
  BY <1>7, <1>8, <1>9
<1>11. w = SubSeq(sWorld, 1, n)
  BY <1>6, <1>9, <1>10, PrefixOfWorld
<1>12. QED
  BY <1>3, <1>9, <1>10, <1>11

\* The worlds of all the others stay.
Others(c) == \A d \in Client : d # c => client'[d] = client[d] /\ (IsClean(d)' <=> IsClean(d))

\* A client leaves, does something to its world, or loads a game.
LEMMA ClientTurn ==
    ASSUME TypeOK, Alike, Alike', NEW c \in Client, sWorld' = sWorld, Others(c),
           \/ ~(InGame(c) /\ IsClean(c))'
           \/ /\ InGame(c) /\ (IsClean(c)' => IsClean(c))
              /\ \/ client'[c].world = client[c].world
                 \/ \E x \in Entry : client'[c].world = Append(client[c].world, x)
           \/ ~InGame(c) /\ \E n \in 0 .. Len(sWorld) : client'[c].world = SubSeq(sWorld, 1, n)
    PROVE  [Replicas!Next]_FaithfulWorld
<1>1. /\ FaithfulWorld'[NoClient] = sWorld' /\ NoClient \notin Client
      /\ \A d \in Client : /\ (InGame(d) /\ IsClean(d))' => FaithfulWorld'[d] = client'[d].world
                           /\ ~(InGame(d) /\ IsClean(d))' => FaithfulWorld'[d] = NoClient
  BY BoundsAssumption DEF FaithfulWorld, Faithful, Machines, InGame, IsClean
<1>2. ASSUME NEW d \in Machines, d # c PROVE FaithfulWorld'[d] = FaithfulWorld[d]
  <2>1. CASE d = NoClient
    BY <1>1, <2>1, FaithfulFacts
  <2>2. CASE d \in Client
    <3>1. client'[d] = client[d] /\ (IsClean(d)' <=> IsClean(d))
      BY <1>2, <2>2 DEF Others
    <3>2. InGame(d)' <=> InGame(d)
      BY <3>1 DEF InGame
    <3>3. QED
      BY <1>1, <2>2, <3>1, <3>2, FaithfulFacts
  <2>3. QED
    BY <2>1, <2>2 DEF Machines
<1>3. Turned(c)
  <2>1. CASE ~(InGame(c) /\ IsClean(c))'
    BY <1>1, <2>1 DEF Turned
  <2>2. CASE (InGame(c) /\ IsClean(c))'
    <3>1. FaithfulWorld'[c] = client'[c].world
      BY <1>1, <2>2
    <3>2. CASE InGame(c) /\ (IsClean(c)' => IsClean(c))
              /\ \/ client'[c].world = client[c].world
                 \/ \E x \in Entry : client'[c].world = Append(client[c].world, x)
      <4>1. IsClean(c)
        BY <2>2, <3>2
      <4>2. FaithfulWorld[c] = client[c].world
        BY <3>2, <4>1, FaithfulFacts
      <4>3. FaithfulWorld[c] # NoClient
        <5>1. client[c].world \in World
          BY DEF TypeOK, Machine
        <5>2. QED
          BY <4>2, <5>1, NoWorldAssumption
      <4>4. QED
        BY <3>1, <3>2, <4>2, <4>3 DEF Turned
    <3>3. CASE ~InGame(c) /\ \E n \in 0 .. Len(sWorld) : client'[c].world = SubSeq(sWorld, 1, n)
      BY <3>1, <3>3, FaithfulFacts DEF Turned
    <3>4. QED
      BY <2>2, <3>2, <3>3
  <2>3. QED
    BY <2>1, <2>2
<1>4. c \in Machines
  BY DEF Machines
<1>5. QED
  BY <1>2, <1>3, <1>4, ReplicaTurn

\* A step that the machines of the game take no notice of.
LEMMA QuietTurn ==
    ASSUME UNCHANGED <<client, sWorld, glitches, lost>>
    PROVE  [Replicas!Next]_FaithfulWorld
  BY DEF FaithfulWorld, Faithful

\* The server does something to its world.
LEMMA ServerTurn ==
    ASSUME Alike, Alike', UNCHANGED <<client, glitches, lost>>,
           NEW x \in Entry, sWorld' = sWorld \/ sWorld' = Append(sWorld, x)
    PROVE  [Replicas!Next]_FaithfulWorld
<1>1. FaithfulWorld'[NoClient] = sWorld' /\ NoClient \in Machines /\ NoClient \notin Client
  BY BoundsAssumption DEF FaithfulWorld, Machines
<1>2. \A d \in Machines : d # NoClient => FaithfulWorld'[d] = FaithfulWorld[d]
  BY DEF FaithfulWorld, Faithful, Machines
<1>3. FaithfulWorld[NoClient] = sWorld /\ sWorld # NoClient
  BY FaithfulFacts, DeedsFacts DEF Alike
<1>4. Turned(NoClient)
  BY <1>1, <1>3 DEF Turned
<1>5. QED
  BY <1>1, <1>2, <1>4, ReplicaTurn

\* A client leaves.
LEMMA LeaveReplica ==
    ASSUME TypeOK, Alike, Alike', NEW c \in Client, NEW reason, LeaveNow(c, reason),
           UNCHANGED <<sWorld, glitches, lost>>
    PROVE  [Replicas!Next]_FaithfulWorld
<1>1. client'[c] = Outside("offline", 0) /\ \A d \in Client : d # c => client'[d] = client[d]
  BY DEF LeaveNow, TypeOK
<1>2. ~InGame(c)'
  BY <1>1 DEF InGame, Outside, Reset
<1>3. Others(c)
  BY <1>1 DEF Others, IsClean
<1>4. QED
  BY <1>2, <1>3, ClientTurn

\* A client becomes m, which has done as much to its world, or one thing more.
LEMMA BecomesReplica ==
    ASSUME TypeOK, Alike, Alike', NEW c \in Client, NEW m, CliBecomes(c, m),
           lost' = lost \/ lost' = lost \cup {c},
           \/ m.state # "ingame"
           \/ /\ InGame(c)
              /\ m.world = client[c].world \/ \E x \in Entry : m.world = Append(client[c].world, x)
           \/ ~InGame(c) /\ \E n \in 0 .. Len(sWorld) : m.world = SubSeq(sWorld, 1, n)
    PROVE  [Replicas!Next]_FaithfulWorld
<1>1. /\ client'[c] = m /\ \A d \in Client : d # c => client'[d] = client[d]
      /\ sWorld' = sWorld /\ glitches' = glitches
  BY DEF CliBecomes, TypeOK, serverVars
<1>2. Others(c) /\ (IsClean(c)' => IsClean(c))
  BY <1>1 DEF Others, IsClean
<1>3. m.state # "ingame" => ~InGame(c)'
  BY <1>1 DEF InGame
<1>4. QED
  BY <1>1, <1>2, <1>3, ClientTurn

\* What a client does with what it receives.
LEMMA ReceiveReplica ==
    ASSUME TypeOK, GamesSent, WorldInv, Alike, Alike', NEW c \in Client, CliReceive(c)
    PROVE  [Replicas!Next]_FaithfulWorld
<1> USE DEF serverVars, ghostVars
<1>1. ASSUME NEW reason, Leave(c, reason) PROVE [Replicas!Next]_FaithfulWorld
  BY <1>1, LeaveReplica DEF Leave
<1>2. ASSUME NEW m, CliBecomes(c, m), lost' = lost, InGame(c), m.world = client[c].world
      PROVE  [Replicas!Next]_FaithfulWorld
  BY <1>2, BecomesReplica
<1>3. CASE CliJoin(c)
  <2>1. CASE Head(toClient[c]).answer
    <3>1. PICK m : m = Outside("waitSync", 0)
      OBVIOUS
    <3>2. CliBecomes(c, m) /\ lost' = lost
      BY <1>3, <2>1, <3>1 DEF CliJoin
    <3>3. m.state # "ingame"
      BY <3>1 DEF Outside, Reset
    <3>4. QED
      BY <3>2, <3>3, BecomesReplica
  <2>2. CASE ~Head(toClient[c]).answer
    BY <1>1, <1>3, <2>2 DEF CliJoin
  <2>3. QED
    BY <2>1, <2>2
<1>4. CASE CliSync(c)
  <2>1. PICK m : m = Outside("waitGame", Head(toClient[c]).newMap)
    OBVIOUS
  <2>2. CliBecomes(c, m) /\ lost' = lost
    BY <1>4, <2>1 DEF CliSync
  <2>3. m.state # "ingame"
    BY <2>1 DEF Outside, Reset
  <2>4. QED
    BY <2>2, <2>3, BecomesReplica
<1>5. CASE CliGame(c)
  <2>1. PICK w : w = Head(toClient[c]).world
    OBVIOUS
  <2>2. PICK m : m = Loaded(client[c].map, w)
    OBVIOUS
  <2>3. /\ CliBecomes(c, m) /\ lost' = lost /\ client[c].state = "waitGame"
        /\ toClient[c] # <<>> /\ Head(toClient[c]).kind = "game"
    BY <1>5, <2>1, <2>2 DEF CliGame, CliHead
  <2>4. m.world = w /\ ~InGame(c)
    BY <2>2, <2>3 DEF Loaded, Reset, InGame
  <2>5. \E n \in 0 .. Len(sWorld) : w = SubSeq(sWorld, 1, n)
    BY <2>1, <2>3, GameIsCopy
  <2>6. QED
    BY <2>3, <2>4, <2>5, BecomesReplica
<1>6. CASE CliDiscard(c)
  <2>1. \/ Leave(c, "ok")
        \/ UNCHANGED <<client, sWorld, glitches, lost>>
    BY <1>6 DEF CliDiscard
  <2>2. QED
    BY <1>1, <2>1, QuietTurn
<1>7. CASE CliStep(c)
  <2>1. PICK s : s = Head(toClient[c]).step
    OBVIOUS
  <2>2. PICK m : m = [client[c] EXCEPT !.barrier = IF @ < s THEN s ELSE @]
    OBVIOUS
  <2>3. CliBecomes(c, m) /\ lost' = lost /\ InGame(c)
    BY <1>7, <2>1, <2>2 DEF CliStep
  <2>4. m.world = client[c].world
    BY <2>2 DEF TypeOK, Machine
  <2>5. QED
    BY <1>2, <2>3, <2>4
<1>8. CASE CliCommand(c)
  <2> DEFINE cmd == Head(toClient[c])
             m == IF cmd.kind = "check" /\ client[c].barrier < cmd.srvStep
                  THEN [client[c] EXCEPT !.barrier = cmd.srvStep] ELSE client[c]
             past == cmd.step < m.step
             z == IF past THEN m ELSE [m EXCEPT !.queue = CommandQueueAppend(@, cmd)]
  <2>1. \/ Leave(c, "late")
        \/ CliBecomes(c, z) /\ lost' = lost
    BY <1>8 DEF CliCommand
  <2>2. z.world = client[c].world
    <3>1. client[c] \in Machine
      BY DEF TypeOK
    <3>2. m.world = client[c].world /\ [m EXCEPT !.queue = CommandQueueAppend(@, cmd)].world = m.world
      BY <3>1 DEF Machine
    <3>3. QED
      BY <3>2
  <2>3. InGame(c)
    BY <1>8 DEF CliCommand
  <2> HIDE DEF z
  <2>4. QED
    BY <1>1, <1>2, <2>1, <2>2, <2>3
<1>9. CASE CliReady(c)
  <2> DEFINE r == Head(toClient[c])
             z == [client[c] EXCEPT !.step = r.step, !.barrier = r.step, !.paused = FALSE,
                                    !.chk = SetChecklist(@, r.step, r.chk)]
  <2>1. \/ Leave(c, "map")
        \/ CliBecomes(c, z) /\ lost' = lost
    BY <1>9 DEF CliReady
  <2>2. z.world = client[c].world
    BY DEF TypeOK, Machine
  <2>3. InGame(c)
    BY <1>9 DEF CliReady
  <2> HIDE DEF z
  <2>4. QED
    BY <1>1, <1>2, <2>1, <2>2, <2>3
<1>10. CASE CliEOF(c)
  BY <1>1, <1>10 DEF CliEOF
<1>11. QED
  BY <1>3, <1>4, <1>5, <1>6, <1>7, <1>8, <1>9, <1>10 DEF CliReceive

\* What a client does with its queue and its world.
LEMMA RunReplica ==
    ASSUME TypeOK, Alike, Alike', NEW c \in Client, CliRun(c)
    PROVE  [Replicas!Next]_FaithfulWorld
<1> USE DEF serverVars, ghostVars
<1>1. ASSUME NEW reason, Leave(c, reason) PROVE [Replicas!Next]_FaithfulWorld
  BY <1>1, LeaveReplica DEF Leave
<1>2. ASSUME NEW m, CliBecomes(c, m), lost' = lost, InGame(c), m.world = client[c].world
      PROVE  [Replicas!Next]_FaithfulWorld
  BY <1>2, BecomesReplica
<1>3. client[c] \in Machine
  BY DEF TypeOK
<1>4. ASSUME Executes(c, client[c]), lost' = lost, InGame(c) PROVE [Replicas!Next]_FaithfulWorld
  <2>1. PICK m : m = [client[c] EXCEPT !.queue = Tail(@)]
    OBVIOUS
  <2>2. CliBecomes(c, m) /\ m.world = client[c].world
    BY <1>3, <1>4, <2>1 DEF Executes, Machine
  <2>3. QED
    BY <1>2, <1>4, <2>2
<1>5. CASE CliExecuteCheck(c)
  <2>1. \/ Leave(c, "desync")
        \/ Executes(c, client[c]) /\ lost' = lost /\ InGame(c)
    BY <1>5 DEF CliExecuteCheck, CliExecute
  <2>2. QED
    BY <1>1, <1>4, <2>1
<1>6. CASE CliExecuteTool(c)
  <2> DEFINE cmd == Head(client[c].queue)
             x == Done(client[c].step, cmd.tool)
             z == [[client[c] EXCEPT !.world = Append(@, x)] EXCEPT !.queue = Tail(@)]
  <2>1. \/ Leave(c, "late") \/ Leave(c, "desync")
        \/ Executes(c, client[c]) /\ lost' = lost
        \/ CliBecomes(c, z) /\ lost' = lost
    BY <1>6 DEF CliExecuteTool, Executes
  <2>2. InGame(c)
    BY <1>6 DEF CliExecuteTool, CliExecute
  <2>3. z.world = Append(client[c].world, x)
    BY <1>3 DEF Machine
  <2>4. x \in Entry
    <3>1. cmd \in WorldCmd /\ cmd.kind = "tool" /\ client[c].step \in Nat
      BY <1>3, <1>6 DEF CliExecuteTool, CliExecute, Due, Machine
    <3>2. cmd.tool \in Tool
      BY <3>1 DEF WorldCmd, ToolCmd, SyncCmd, CheckCmd
    <3>3. QED
      BY <3>1, <3>2 DEF Done, Entry
  <2> HIDE DEF z, x
  <2>5. CASE CliBecomes(c, z) /\ lost' = lost
    BY <2>2, <2>3, <2>4, <2>5, BecomesReplica
  <2>6. QED
    BY <1>1, <1>4, <2>1, <2>2, <2>5
<1>7. CASE CliExecuteSync(c)
  <2> DEFINE cmd == Head(client[c].queue)
             x == Done(client[c].step, Reload)
             z == [client[c] EXCEPT !.world = Append(@, x), !.queue = <<>>, !.paused = TRUE,
                                    !.barrier = client[c].step, !.map = cmd.newMap]
  <2>1. \/ Leave(c, "late")
        \/ Executes(c, client[c]) /\ lost' = lost
        \/ CliBecomes(c, z) /\ (lost' = lost \/ lost' = lost \cup {c})
    BY <1>7 DEF CliExecuteSync
  <2>2. InGame(c)
    BY <1>7 DEF CliExecuteSync, CliExecute
  <2>3. z.world = Append(client[c].world, x)
    BY <1>3 DEF Machine
  <2>4. x \in Entry
    BY <1>3 DEF Done, Entry, Machine
  <2> HIDE DEF z, x
  <2>5. CASE CliBecomes(c, z) /\ (lost' = lost \/ lost' = lost \cup {c})
    BY <2>2, <2>3, <2>4, <2>5, BecomesReplica
  <2>6. QED
    BY <1>1, <1>4, <2>1, <2>2, <2>5
<1>8. CASE CliFrame(c)
  <2> DEFINE m == client[c]
             z == [m EXCEPT !.step = @ + 1, !.chk = SetChecklist(@, m.step + 1, m.world)]
  <2>1. CliBecomes(c, z) /\ lost' = lost /\ InGame(c)
    BY <1>8 DEF CliFrame
  <2>2. z.world = client[c].world
    BY <1>3 DEF Machine
  <2> HIDE DEF z, m
  <2>3. QED
    BY <1>2, <2>1, <2>2
<1>9. QED
  BY <1>5, <1>6, <1>7, <1>8 DEF CliRun

\* The server does the next command of its queue, or reloads its world.
LEMMA ServerReplica ==
    ASSUME TypeOK, Alike, Alike', SrvExecuteTool \/ \E d, n : SrvReload(d, n)
    PROVE  [Replicas!Next]_FaithfulWorld
<1>1. sStep \in Nat /\ sQueue \in Seq(WorldCmd)
  BY DEF TypeOK
<1>2. CASE SrvExecuteTool
  <2>1. PICK x : x = Done(sStep, Head(sQueue).tool)
    OBVIOUS
  <2>2. /\ sWorld' = sWorld \/ sWorld' = Append(sWorld, x)
        /\ UNCHANGED <<client, glitches, lost>>
    BY <1>2, <2>1 DEF SrvExecuteTool, ghostVars
  <2>3. x \in Entry
    <3>1. Head(sQueue) \in WorldCmd /\ Head(sQueue).kind = "tool"
      BY <1>1, <1>2 DEF SrvExecuteTool, SrvExecute, Due
    <3>2. Head(sQueue).tool \in Tool
      BY <3>1 DEF WorldCmd, ToolCmd, SyncCmd, CheckCmd
    <3>3. QED
      BY <1>1, <2>1, <3>2 DEF Done, Entry
  <2>4. QED
    BY <2>2, <2>3, ServerTurn
<1>3. ASSUME NEW d, NEW n, SrvReload(d, n) PROVE [Replicas!Next]_FaithfulWorld
  <2>1. PICK x : x = Done(sStep, Reload)
    OBVIOUS
  <2>2. sWorld' = Append(sWorld, x) /\ UNCHANGED <<client, glitches, lost>>
    BY <1>3, <2>1 DEF SrvReload
  <2>3. x \in Entry
    BY <1>1, <2>1 DEF Done, Entry
  <2>4. QED
    BY <2>2, <2>3, ServerTurn
<1>4. QED
  BY <1>2, <1>3

\* Every step of the game is a step of the replicas, or none.
LEMMA ReplicaStep ==
    TypeOK /\ GamesSent /\ WorldInv /\ Alike /\ Alike' /\ [Next]_vars => [Replicas!Next]_FaithfulWorld
<1> SUFFICES ASSUME TypeOK, GamesSent, WorldInv, Alike, Alike', [Next]_vars
             PROVE  [Replicas!Next]_FaithfulWorld
  OBVIOUS
<1> USE DEF serverVars, ghostVars
<1>1. CASE UNCHANGED vars
  BY <1>1, QuietTurn DEF vars
<1>2. CASE SrvFlush \/ SrvFrame \/ SrvIdle \/ \E t \in Tool : SrvTool(t)
  BY <1>2, QuietTurn DEF SrvFlush, SrvFrame, SrvIdle, SrvTool
<1>3. CASE SrvExecuteTool \/ SrvExecuteSync
  BY <1>3, ServerReplica DEF SrvExecuteSync
<1>4. CASE SrvForceSync
  <2>1. SrvReload(NoClient, nextMap) \/ UNCHANGED <<client, sWorld, glitches, lost>>
    BY <1>4 DEF SrvForceSync
  <2>2. QED
    BY <2>1, ServerReplica, QuietTurn
<1>5. ASSUME NEW c \in Client, SrvReceive(c) PROVE [Replicas!Next]_FaithfulWorld
  <2>1. UNCHANGED <<client, sWorld, glitches, lost>>
    <3>1. CASE SrvReceiveJoin(c)
      BY <3>1 DEF SrvReceiveJoin
    <3>2. CASE SrvReceiveTool(c)
      BY <3>2 DEF SrvReceiveTool, Kick, RemoveClient
    <3>3. CASE SrvReceiveReady(c) \/ SrvReceiveEOF(c)
      BY <3>3 DEF SrvReceiveReady, SrvReceiveEOF, Kick, RemoveClient
    <3>4. QED
      BY <1>5, <3>1, <3>2, <3>3 DEF SrvReceive
  <2>2. QED
    BY <2>1, QuietTurn
<1>6. ASSUME NEW c \in Client, Connect(c) PROVE [Replicas!Next]_FaithfulWorld
  <2>1. client'[c] = Outside("waitJoin", 0) /\ \A d \in Client : d # c => client'[d] = client[d]
    BY <1>6 DEF Connect, TypeOK
  <2>2. ~InGame(c)' /\ Others(c) /\ sWorld' = sWorld
    BY <1>6, <2>1 DEF Connect, InGame, Outside, Reset, Others, IsClean
  <2>3. QED
    BY <2>2, ClientTurn
<1>7. ASSUME NEW c \in Client, CliQuit(c) PROVE [Replicas!Next]_FaithfulWorld
  BY <1>7, LeaveReplica DEF CliQuit
<1>8. ASSUME NEW c \in Client, Diverge(c) PROVE [Replicas!Next]_FaithfulWorld
  <2>1. \A d \in Client : d # c => client'[d] = client[d]
    BY <1>8 DEF Diverge, TypeOK
  <2>2. ~IsClean(c)' /\ Others(c) /\ sWorld' = sWorld
    BY <1>8, <2>1 DEF Diverge, Others, IsClean
  <2>3. QED
    BY <2>2, ClientTurn
<1>9. ASSUME NEW c \in Client, NEW t \in Tool, CliTool(c, t) PROVE [Replicas!Next]_FaithfulWorld
  BY <1>9, QuietTurn DEF CliTool
<1>10. ASSUME NEW c \in Client, CliReceive(c) \/ CliRun(c) PROVE [Replicas!Next]_FaithfulWorld
  BY <1>10, ReceiveReplica, RunReplica
<1>11. QED
  BY <1>1, <1>2, <1>3, <1>4, <1>5, <1>6, <1>7, <1>8, <1>9, <1>10 DEF Next, SrvStep

\* At first there is only the server.
LEMMA ReplicaInit == Init => Replicas!Init
  BY DEF Init, Replicas!Init, FaithfulWorld, Faithful, Outside, Reset

\* The network game implements a replicated world, for any number of clients,
\* joins, tools and divergences: every step of a machine is a step of the abstract
\* specification, or none, as the log of the server tells.
THEOREM RefinementTheorem == Spec => ImplementsReplicatedWorld
<1>1. TypeOK /\ LockstepInv /\ WorldInv => Alike
  BY ReplicasAlike
<1>2. Spec => []GamesSent
  BY GamesInit, GamesStep, TypeCorrect, LockstepInvariant, PTL DEF Spec
<1>3. Spec => Replicas!Init
  BY ReplicaInit DEF Spec
<1>4. Spec => [][Replicas!Next]_FaithfulWorld
  BY <1>1, <1>2, ReplicaStep, WorldInvariant, TypeCorrect, LockstepInvariant, PTL DEF Spec
<1>5. QED
  BY <1>3, <1>4 DEF ImplementsReplicatedWorld, Replicas!Spec

-----------------------------------------------------------------------------
(* The map counters that the server remembers. *)

\* A map counter is remembered, or it is older than all that are, when the server
\* remembers as many as it can.
Recalled(x, maps) ==
    \/ \E i \in DOMAIN maps : maps[i] = x
    \/ Len(maps) = MaxMapCounters /\ \A i \in DOMAIN maps : x < maps[i]

\* Counters that an NWC_READY may tell: newest first.
Descending(maps) ==
    /\ maps \in Seq(Nat) /\ Len(maps) <= MaxMapCounters
    /\ \A i, j \in DOMAIN maps : i < j => maps[j] < maps[i]

\* A new counter comes first, the others follow, but for the oldest one, if there
\* was no room.
LEMMA CounterFacts ==
    ASSUME Descending(allMaps), NEW y \in Nat
    PROVE  \E z \in Nat : /\ z = Len(allMaps) + 1 \/ (z = MaxMapCounters /\ z = Len(allMaps))
                          /\ z >= 1 /\ z <= Len(allMaps) + 1 /\ z <= MaxMapCounters
                          /\ AppendMapCounter(y) \in Seq(Nat) /\ Len(AppendMapCounter(y)) = z
                          /\ DOMAIN AppendMapCounter(y) = 1 .. z
                          /\ AppendMapCounter(y)[1] = y
                          /\ \A i \in 2 .. z : /\ i - 1 \in DOMAIN allMaps
                                               /\ AppendMapCounter(y)[i] = allMaps[i - 1]
<1>1. allMaps \in Seq(Nat) /\ Len(allMaps) <= MaxMapCounters /\ Len(allMaps) \in Nat /\ DOMAIN allMaps = 1 .. Len(allMaps)
  BY DEF Descending
<1>2. MaxMapCounters \in Nat /\ MaxMapCounters > 0
  BY BoundsAssumption
<1>3. PICK z : z = IF Len(allMaps) = MaxMapCounters THEN MaxMapCounters ELSE Len(allMaps) + 1
  OBVIOUS
<1>4. z \in Nat /\ z >= 1 /\ z <= Len(allMaps) + 1 /\ z <= MaxMapCounters
      /\ (z = Len(allMaps) + 1 \/ (z = MaxMapCounters /\ z = Len(allMaps)))
  <2>1. PICK l \in Nat : l = Len(allMaps)
    BY <1>1
  <2>2. l <= MaxMapCounters /\ z = IF l = MaxMapCounters THEN MaxMapCounters ELSE l + 1
    BY <1>1, <1>3, <2>1
  <2>3. z \in Nat /\ z >= 1 /\ z <= l + 1 /\ z <= MaxMapCounters /\ (z = l + 1 \/ (z = MaxMapCounters /\ z = l))
    BY ONLY <1>2, <2>2, l \in Nat
  <2>4. QED
    BY <2>1, <2>3
<1>5. /\ AppendMapCounter(y) \in Seq(Nat) /\ Len(AppendMapCounter(y)) = z
      /\ DOMAIN AppendMapCounter(y) = 1 .. z /\ AppendMapCounter(y)[1] = y
      /\ \A i \in 2 .. z : i - 1 \in DOMAIN allMaps /\ AppendMapCounter(y)[i] = allMaps[i - 1]
  <2> DEFINE q == <<y>> \o allMaps
  <2>a. PICK r : r = AppendMapCounter(y)
    OBVIOUS
  <2>1. /\ q \in Seq(Nat) /\ Len(q) = Len(allMaps) + 1 /\ q[1] = y
        /\ \A i \in 2 .. Len(allMaps) + 1 : q[i] = allMaps[i - 1]
    BY <1>1
  <2>2. r = SubSeq(q, 1, z)
    BY <1>3, <2>a DEF AppendMapCounter
  <2> HIDE DEF q
  <2>b. z \in Nat /\ z >= 1 /\ z <= Len(allMaps) + 1
    BY <1>4
  <2>3. /\ r \in Seq(Nat) /\ Len(r) = z /\ DOMAIN r = 1 .. z /\ \A i \in 1 .. z : r[i] = q[i]
    BY <1>1, <2>b, <2>1, <2>2
  <2>4. 1 \in 1 .. z /\ \A i \in 2 .. z : i \in 1 .. z /\ i \in 2 .. Len(allMaps) + 1 /\ i - 1 \in 1 .. Len(allMaps)
    BY <1>1, <2>b
  <2>5. QED
    BY <1>1, <2>a, <2>1, <2>3, <2>4
<1>6. QED
  BY <1>4, <1>5

\* What was recalled is recalled when a newer counter comes.
LEMMA RecalledNew ==
    ASSUME Descending(allMaps), NEW y \in Nat, \A i \in DOMAIN allMaps : allMaps[i] < y,
           NEW x \in Nat, Recalled(x, allMaps)
    PROVE  Recalled(x, AppendMapCounter(y))
<1>1. PICK z \in Nat : /\ z = Len(allMaps) + 1 \/ (z = MaxMapCounters /\ z = Len(allMaps))
                       /\ z >= 1 /\ z <= Len(allMaps) + 1 /\ z <= MaxMapCounters
                       /\ AppendMapCounter(y) \in Seq(Nat) /\ Len(AppendMapCounter(y)) = z
                       /\ DOMAIN AppendMapCounter(y) = 1 .. z
                       /\ AppendMapCounter(y)[1] = y
                       /\ \A i \in 2 .. z : /\ i - 1 \in DOMAIN allMaps
                                            /\ AppendMapCounter(y)[i] = allMaps[i - 1]
  BY CounterFacts
<1>2. PICK r : r = AppendMapCounter(y)
  OBVIOUS
<1>3. /\ allMaps \in Seq(Nat) /\ Len(allMaps) \in Nat /\ DOMAIN allMaps = 1 .. Len(allMaps)
      /\ Len(allMaps) <= MaxMapCounters /\ \A i \in DOMAIN allMaps : allMaps[i] \in Nat
      /\ \A i, j \in DOMAIN allMaps : i < j => allMaps[j] < allMaps[i]
  BY DEF Descending
<1>4. MaxMapCounters \in Nat /\ MaxMapCounters > 0
  BY BoundsAssumption
<1>5. Len(r) = z /\ DOMAIN r = 1 .. z /\ r[1] = y
      /\ \A i \in 2 .. z : i - 1 \in DOMAIN allMaps /\ r[i] = allMaps[i - 1]
  BY <1>1, <1>2
<1>6. ASSUME NEW i \in DOMAIN allMaps, allMaps[i] = x PROVE Recalled(x, r)
  <2>1. CASE i + 1 <= z
    <3>1. i + 1 \in 2 .. z /\ i + 1 \in 1 .. z /\ (i + 1) - 1 = i
      BY <1>3, <2>1
    <3>2. r[i + 1] = x
      BY <1>5, <1>6, <3>1
    <3>3. QED
      BY <1>5, <3>1, <3>2 DEF Recalled
  <2>2. CASE ~(i + 1 <= z)
    <3>a. i \in Nat /\ i <= Len(allMaps) /\ Len(allMaps) \in Nat
      BY <1>3
    <3>b. z # Len(allMaps) + 1
      BY ONLY z \in Nat, <2>2, <3>a
    <3>1. z = MaxMapCounters
      BY <1>1, <3>b
    <3>2. ASSUME NEW j \in 1 .. z PROVE x < r[j]
      <4>1. CASE j = 1
        BY <1>5, <1>6, <4>1
      <4>2. CASE j # 1
        <5>1. j \in 2 .. z /\ j - 1 < i
          BY <1>3, <2>2, <4>2
        <5>2. QED
          BY <1>3, <1>5, <1>6, <5>1
      <4>3. QED
        BY <4>1, <4>2
    <3>3. QED
      BY <1>5, <3>1, <3>2 DEF Recalled
  <2>3. QED
    BY <2>1, <2>2
<1>7. ASSUME Len(allMaps) = MaxMapCounters, \A i \in DOMAIN allMaps : x < allMaps[i] PROVE Recalled(x, r)
  <2>1. z = MaxMapCounters
    BY <1>1, <1>3, <1>4, <1>7
  <2>2. x < y
    <3>1. 1 \in DOMAIN allMaps
      BY <1>3, <1>4, <1>7
    <3>2. x < allMaps[1] /\ allMaps[1] < y /\ allMaps[1] \in Nat
      BY <1>3, <1>7, <3>1
    <3>3. QED
      BY <3>2
  <2>3. ASSUME NEW j \in 1 .. z PROVE x < r[j]
    <3>1. CASE j = 1
      BY <1>5, <2>2, <3>1
    <3>2. CASE j # 1
      <4>1. j \in 2 .. z
        BY <3>2
      <4>2. QED
        BY <1>5, <1>7, <4>1
    <3>3. QED
      BY <3>1, <3>2
  <2>4. QED
    BY <1>5, <2>1, <2>3 DEF Recalled
<1>8. QED
  BY <1>2, <1>6, <1>7 DEF Recalled

-----------------------------------------------------------------------------
(* What an NWC_READY tells. *)

\* The next NWC_SYNC of the queue q leads into the world x, at step s or before.
NextSync(q, x, s) ==
    \E i \in DOMAIN q : /\ q[i].kind = "sync" /\ q[i].newMap = x /\ q[i].step <= s
                        /\ \A j \in DOMAIN q : j < i => q[j].kind # "sync"

\* A client that entered the world x at step s did so after the server or, at
\* most, before its next NWC_SYNC.
Entered(x, s, maps, q) == x \in Nat /\ (Recalled(x, maps) \/ NextSync(q, x, s))

\* An open connection on which an NWC_READY is under way is that of a player, who
\* entered its world, if it is clean.
ReadyInv(c) ==
    Active(c) => \A i \in DOMAIN toServer[c] : toServer[c][i].kind = "ready" =>
        /\ slot[c] = "playing"
        /\ IsClean(c) => Entered(toServer[c][i].map, toServer[c][i].step, allMaps, sQueue)

\* The client m has not heard of the step s, so it has not told of it.
Behind(m, tc, ts, s) ==
    /\ m.barrier < s
    /\ \A i \in DOMAIN tc : Clock(tc[i]) < s
    /\ \A i \in DOMAIN ts : ts[i].kind = "ready" => ts[i].step < s

\* While the server receives, no client has heard of its step if that has a
\* command that is still to be executed.
Unheard ==
    /\ \A i \in DOMAIN sQueue : sQueue[i].step > 0
    /\ loop = "receive" /\ Due(sQueue, sStep) =>
          \A c \in Client : Behind(client[c], toClient[c], toServer[c], sStep)

\* The queue grows at its end.
LEMMA NextSyncAppend ==
    ASSUME NEW q \in Seq(WorldCmd), NEW cmd \in WorldCmd, NEW x, NEW s, NextSync(q, x, s)
    PROVE  NextSync(Append(q, cmd), x, s)
<1>1. /\ DOMAIN Append(q, cmd) = DOMAIN q \cup {Len(q) + 1}
      /\ \A i \in DOMAIN q : Append(q, cmd)[i] = q[i] /\ i < Len(q) + 1
  BY AppendFacts
<1>2. PICK i \in DOMAIN q : /\ q[i].kind = "sync" /\ q[i].newMap = x /\ q[i].step <= s
                            /\ \A j \in DOMAIN q : j < i => q[j].kind # "sync"
  BY DEF NextSync
<1>3. ASSUME NEW j \in DOMAIN Append(q, cmd), j < i PROVE j \in DOMAIN q
  <2>1. i \in Nat /\ i < Len(q) + 1 /\ Len(q) \in Nat
    BY <1>1
  <2>2. j # Len(q) + 1
    BY ONLY <1>3, <2>1
  <2>3. QED
    BY <1>1, <1>3, <2>2
<1>4. QED
  BY <1>1, <1>2, <1>3 DEF NextSync

\* A command at the front of the queue is executed: it was the NWC_SYNC, or that
\* is still to come.
LEMMA NextSyncTail ==
    ASSUME NEW q \in Seq(WorldCmd), q # <<>>, NEW x, NEW s, NextSync(q, x, s)
    PROVE  /\ Head(q).kind = "sync" => Head(q).newMap = x
           /\ Head(q).kind # "sync" => NextSync(Tail(q), x, s)
           /\ Sorted(q) /\ s \in Nat => Due(q, s)
<1>1. /\ Head(q) = q[1] /\ 1 \in DOMAIN q /\ Tail(q) \in Seq(WorldCmd) /\ Len(Tail(q)) = Len(q) - 1
      /\ \A i \in DOMAIN Tail(q) : i + 1 \in DOMAIN q /\ Tail(q)[i] = q[i + 1]
  BY TailFacts
<1>2. PICK i \in DOMAIN q : /\ q[i].kind = "sync" /\ q[i].newMap = x /\ q[i].step <= s
                            /\ \A j \in DOMAIN q : j < i => q[j].kind # "sync"
  BY DEF NextSync
<1>3. i \in Nat /\ i >= 1 /\ i <= Len(q) /\ Len(q) \in Nat
  OBVIOUS
<1>4. i = 1 \/ 1 < i
  BY <1>3
<1>5. ASSUME Head(q).kind = "sync" PROVE Head(q).newMap = x
  BY <1>1, <1>2, <1>4, <1>5
<1>6. ASSUME Head(q).kind # "sync" PROVE NextSync(Tail(q), x, s)
  <2>1. i # 1
    BY <1>1, <1>2, <1>6
  <2>2. PICK k \in Nat : i = k + 1 /\ k >= 1 /\ k <= Len(q) - 1
    BY <1>3, <2>1
  <2>3. k \in DOMAIN Tail(q)
    BY <1>1, <2>2
  <2>4. \A j \in DOMAIN Tail(q) : j < k => j + 1 < i
    BY <1>1, <2>2
  <2>5. QED
    BY <1>1, <1>2, <2>2, <2>3, <2>4 DEF NextSync
<1>7. ASSUME Sorted(q), s \in Nat PROVE Due(q, s)
  <2>1. q[1].step <= q[i].step
    BY <1>1, <1>3, <1>7 DEF Sorted
  <2>2. q[1].step \in Nat /\ q[i].step \in Nat
    <3>1. q[1] \in WorldCmd /\ q[i] \in WorldCmd
      BY <1>1
    <3>2. QED
      BY <3>1, ClockFacts
  <2>3. q[1].step <= s
    BY <1>2, <1>7, <2>1, <2>2
  <2>4. QED
    BY <1>1, <2>3 DEF Due
<1>8. QED
  BY <1>5, <1>6, <1>7

\* The NWC_READYs under way are old ones.
LEMMA ReadyKept ==
    ASSUME NEW c \in Client, ReadyInv(c),
           Active(c)' => \A i \in DOMAIN toServer'[c] : toServer'[c][i].kind = "ready" =>
              /\ \E j \in DOMAIN toServer[c] : toServer'[c][i] = toServer[c][j]
              /\ Active(c) /\ (slot[c] = "playing" => slot'[c] = "playing")
              /\ IsClean(c)' => IsClean(c),
           \A x, s : Entered(x, s, allMaps, sQueue) => Entered(x, s, allMaps', sQueue')
    PROVE  ReadyInv(c)'
<1> SUFFICES ASSUME Active(c)', NEW i \in DOMAIN toServer'[c], toServer'[c][i].kind = "ready"
             PROVE  /\ slot'[c] = "playing"
                    /\ IsClean(c)' => Entered(toServer'[c][i].map, toServer'[c][i].step, allMaps', sQueue')
  BY DEF ReadyInv
<1>1. PICK j \in DOMAIN toServer[c] : toServer'[c][i] = toServer[c][j]
  OBVIOUS
<1>2. Active(c) /\ (slot[c] = "playing" => slot'[c] = "playing") /\ (IsClean(c)' => IsClean(c))
  OBVIOUS
<1>3. QED
  BY <1>1, <1>2 DEF ReadyInv

\* The first NWC_SYNC that the server has still to do, according to the log, is the
\* first one of its queue.
LEMMA NextSyncFound ==
    ASSUME TypeOK, NEW L \in Seq(LogCmd), ServerWorldInv(L), NEW n \in 0 .. Len(L),
           n + 1 \in DOMAIN L, n + 1 > Len(sWorld), L[n + 1].kind = "sync"
    PROVE  NextSync(sQueue, L[n + 1].newMap, L[n + 1].step)
<1>1. /\ sQueue \in Seq(ServerPacket) /\ Len(sWorld) \in 0 .. Len(L) /\ sMap \in Nat
      /\ \A i \in DOMAIN L : i > Len(sWorld) => L[i].map = sMap
  BY ServerFacts
<1>2. /\ LogOK(L) /\ sMap = MapAt(L, Len(sWorld)) /\ Follow(sQueue, L, Len(sWorld), Nat)
      /\ \A i \in DOMAIN sQueue : sQueue[i].map = sMap
  BY DEF ServerWorldInv, At, StreamOK
<1>3. PICK f \in [DOMAIN sQueue -> 0 .. Len(L)] :
         /\ FollowBy(f, sQueue, L, Len(sWorld), Nat)
         /\ \A p \in DOMAIN sQueue : f[p] \in Nat /\ (f[p] # 0 => f[p] \in DOMAIN L)
  BY <1>1, <1>2, FollowFacts
<1>4. Len(L) \in Nat /\ DOMAIN L = 1 .. Len(L) /\ \A i \in DOMAIN L : L[i].step \in Nat
  BY LogFacts
<1>5. PICK p \in DOMAIN sQueue : f[p] = n + 1
  BY <1>3, <1>4 DEF FollowBy
<1>6. f[p] # 0 /\ sQueue[p] = L[n + 1] /\ L[n + 1].map = sMap
  BY <1>1, <1>3, <1>4, <1>5 DEF FollowBy
<1>7. L[n + 1].step <= L[n + 1].step
  BY <1>4
<1>8. MapAt(L, n) = sMap
  BY <1>2, <1>6, LogNext
<1>9. ASSUME NEW k \in 1 .. n, L[k].kind = "sync" PROVE L[k].map # sMap
  <2>1. L[k].map < MapAt(L, n)
    BY <1>2, <1>9, MapGrows
  <2>2. QED
    BY <1>1, <1>8, <2>1
<1>10. ASSUME NEW j \in DOMAIN sQueue, j < p, sQueue[j].kind = "sync" PROVE FALSE
  <2>1. Stamped(sQueue[j]) /\ sQueue[j].step \in Nat /\ sQueue[j].map = sMap
    <3>1. sQueue[j].step \in Nat
      BY ServerFacts
    <3>2. QED
      BY <1>2, <1>10, <3>1 DEF Stamped
  <2>2. \A b \in DOMAIN sQueue : b < p /\ f[b] # 0 => f[b] \in 1 .. n
    <3>1. ASSUME NEW b \in DOMAIN sQueue, b < p, f[b] # 0 PROVE f[b] \in 1 .. n
      <4>1. f[b] < f[p]
        BY <1>3, <1>6, <3>1 DEF FollowBy
      <4>2. f[b] \in Nat
        BY <1>3
      <4>3. QED
        BY <1>5, <3>1, <4>1, <4>2
    <3>2. QED
      BY <3>1
  <2>3. CASE f[j] # 0
    <3>1. sQueue[j] = L[f[j]]
      BY <1>3, <2>3 DEF FollowBy
    <3>2. QED
      BY <1>9, <1>10, <2>1, <2>2, <2>3, <3>1
  <2>4. CASE f[j] = 0
    <3>1. PICK k \in DOMAIN L : /\ L[k].kind = "sync" /\ L[k].map = sMap
                                /\ k <= Len(sWorld) \/ \E b \in DOMAIN sQueue : b < j /\ f[b] = k
      BY <1>3, <2>1, <2>4 DEF FollowBy
    <3>2. CASE k <= Len(sWorld)
      <4>1. k \in 1 .. n
        BY <1>1, <1>4, <3>1, <3>2
      <4>2. QED
        BY <1>9, <3>1, <4>1
    <3>3. CASE \E b \in DOMAIN sQueue : b < j /\ f[b] = k
      <4>1. PICK b \in DOMAIN sQueue : b < j /\ f[b] = k
        BY <3>3
      <4>2. b < p /\ f[b] # 0
        <5>1. b \in Nat /\ j \in Nat /\ p \in Nat /\ k # 0
          BY <1>1, <1>4
        <5>2. QED
          BY <1>10, <4>1, <5>1
      <4>3. QED
        BY <1>9, <2>2, <3>1, <4>1, <4>2
    <3>4. QED
      BY <3>1, <3>2, <3>3
  <2>5. QED
    BY <2>3, <2>4
<1>11. QED
  BY <1>5, <1>6, <1>7, <1>10 DEF NextSync

\* A clean client that executes an NWC_SYNC enters a world that the server has
\* entered, or is about to.
LEMMA EnterSync ==
    ASSUME TypeOK, LockstepInv, WorldInv, NEW c \in Client, InGame(c), IsClean(c),
           NEW x, client[c].queue # <<>>, x = Head(client[c].queue), x.kind = "sync",
           x.step = client[c].step, x.map = client[c].map
    PROVE  Entered(x.newMap, client[c].step, allMaps, sQueue)
<1>1. PICK L \in Seq(LogCmd), reach \in [Client -> Nat] : WInv(L, reach)
  BY DEF WorldInv
<1> DEFINE tc == toClient[c]
           sq == sendq[c]
           ts == toServer[c]
           m == client[c]
           N == Near(c, reach[c])
<1>2. /\ LogOK(L) /\ Downward(N) /\ m.step \in N /\ m.step \in Nat /\ m.queue \in Seq(WorldCmd)
      /\ m \in Machine /\ tc \in Seq(ServerPacket) /\ sq \in Seq(ServerPacket)
      /\ Plays(L, N, sStep, m, tc, sq, ts)
  BY <1>1, TurnFacts
<1>3. ServerWorldInv(L)
  BY <1>1 DEF WInv
<1> HIDE DEF N, m, tc, sq, ts
<1>4. m.queue # <<>> /\ x = m.queue[1] /\ x.step = m.step /\ x.map = m.map
  <2>1. m.queue # <<>> /\ x = Head(m.queue) /\ x.step = m.step /\ x.map = m.map
    BY DEF m
  <2>2. QED
    BY <1>2, <2>1, TailFacts
<1>5. Settled(L, N, sStep, m, (m.queue \o tc) \o sq)
  BY <1>2, <1>4 DEF Plays, Loading
<1>6. PICK n \in 0 .. Len(L) : /\ At(L, n, m.world, m.map, m.step)
                               /\ StreamOK(L, (m.queue \o tc) \o sq, n, N, sStep)
  BY <1>5 DEF Settled
<1>7. PICK P \in Seq(ServerPacket) : P = (m.queue \o tc) \o sq /\ P # <<>> /\ P[1] = x
  <2>1. m.queue \in Seq(ServerPacket) /\ m.queue \o tc \in Seq(ServerPacket) /\ (m.queue \o tc) \o sq \in Seq(ServerPacket)
    BY <1>2, LinkTypes
  <2>2. (m.queue \o tc)[1] = x /\ m.queue \o tc # <<>>
    BY <1>2, <1>4, <2>1, ConcatLaws
  <2>3. ((m.queue \o tc) \o sq)[1] = x /\ (m.queue \o tc) \o sq # <<>>
    BY <1>2, <2>1, <2>2, ConcatLaws
  <2>4. QED
    BY <2>1, <2>3
<1>8. n + 1 \in 0 .. Len(L) /\ n + 1 \in DOMAIN L /\ x = L[n + 1]
  <2>1. Stamped(P[1]) /\ P[1].step \in N /\ P[1].map = MapAt(L, n)
    BY <1>2, <1>4, <1>6, <1>7 DEF Stamped, At
  <2>2. StreamOK(L, P, n, N, sStep)
    BY <1>6, <1>7
  <2>3. QED
    BY <1>2, <1>7, <2>1, <2>2, StreamExecute
<1>9. x.newMap \in Nat /\ Len(L) \in Nat /\ DOMAIN L = 1 .. Len(L)
  BY <1>8, LogFacts
<1>10. CASE n + 1 <= Len(sWorld)
  <2>1. Remembers(L, Len(sWorld), allMaps) /\ Len(sWorld) \in 0 .. Len(L)
    BY <1>3 DEF ServerWorldInv, At
  <2>2. n + 1 \in 0 .. Len(sWorld) /\ n + 1 # 0
    BY <1>8, <1>9, <1>10, <2>1
  <2>3. MapAt(L, n + 1) = x.newMap
    BY <1>8, <2>2 DEF MapAt, NextMap
  <2>4. Recalled(x.newMap, allMaps)
    BY <2>1, <2>2, <2>3 DEF Remembers, Recalled
  <2>5. QED
    BY <1>9, <2>4 DEF Entered
<1>11. CASE ~(n + 1 <= Len(sWorld))
  <2>1. n + 1 > Len(sWorld)
    <3>1. Len(sWorld) \in 0 .. Len(L)
      BY <1>3 DEF ServerWorldInv, At
    <3>2. QED
      BY <1>9, <1>11, <3>1
  <2>2. NextSync(sQueue, x.newMap, x.step)
    BY <1>3, <1>8, <2>1, NextSyncFound
  <2>3. QED
    BY <1>4, <1>9, <2>2 DEF Entered, m
<1>12. QED
  BY <1>10, <1>11

\* A client in a game whose connection is open is one of the players.
LEMMA PlayerPlays ==
    ASSUME WorldInv, NEW c \in Client, InGame(c), Active(c), TypeOK
    PROVE  slot[c] = "playing"
<1>1. slot[c] # "connected"
  BY DEF WorldInv, WInv, SeatInv, Awaits
<1>2. slot[c] \in {"inactive", "connected", "playing"}
  BY DEF TypeOK
<1>3. QED
  BY <1>1, <1>2 DEF Active

-----------------------------------------------------------------------------
(* What the clients do to it. *)

\* The client c goes on: it hears no clock but those on the wire, and what it tells
\* is no NWC_READY, or that of a world that it enters.
Moves(c) ==
    /\ UNCHANGED <<sStep, sQueue, loop, allMaps>>
    /\ \A d \in Client \ {c} :
          /\ client'[d] = client[d] /\ toClient'[d] = toClient[d] /\ toServer'[d] = toServer[d]
          /\ slot'[d] = slot[d] /\ (IsClean(d)' => IsClean(d))
    /\ \/ client'[c].barrier <= client[c].barrier \/ client'[c].barrier = 0
       \/ \E i \in DOMAIN toClient[c] : client'[c].barrier = Clock(toClient[c][i])
    /\ \A i \in DOMAIN toClient'[c] : \E j \in DOMAIN toClient[c] : toClient'[c][i] = toClient[c][j]
    /\ \A i \in DOMAIN toServer'[c] : toServer'[c][i].kind = "ready" =>
          /\ slot'[c] = slot[c] /\ (IsClean(c)' => IsClean(c))
          /\ \/ \E j \in DOMAIN toServer[c] : toServer'[c][i] = toServer[c][j]
             \/ /\ toServer'[c][i].step <= client[c].barrier
                /\ Active(c) => slot[c] = "playing"
                /\ IsClean(c) => Entered(toServer'[c][i].map, toServer'[c][i].step, allMaps, sQueue)

\* The invariants survive it.
LEMMA MovesKeep ==
    ASSUME TypeOK, TypeOK', LockstepInv, Unheard, \A d \in Client : ReadyInv(d), NEW c \in Client, Moves(c)
    PROVE  Unheard' /\ \A d \in Client : ReadyInv(d)'
<1>1. UNCHANGED <<sStep, sQueue, loop, allMaps>>
  BY DEF Moves
<1>2. ASSUME NEW d \in Client \ {c} PROVE ReadyInv(d)'
  <2>1. ReadyInv(d) /\ toServer'[d] = toServer[d] /\ slot'[d] = slot[d] /\ (IsClean(d)' => IsClean(d))
    BY <1>2 DEF Moves
  <2>2. QED
    BY <1>1, <2>1 DEF ReadyInv, Active
<1>3. ReadyInv(c)'
  <2>1. SUFFICES ASSUME Active(c)', NEW i \in DOMAIN toServer'[c], toServer'[c][i].kind = "ready"
                 PROVE  /\ slot'[c] = "playing"
                        /\ IsClean(c)' => Entered(toServer'[c][i].map, toServer'[c][i].step, allMaps', sQueue')
    BY DEF ReadyInv
  <2>2. slot'[c] = slot[c] /\ (IsClean(c)' => IsClean(c)) /\ Active(c)
    BY <2>1 DEF Moves, Active
  <2>3. CASE \E j \in DOMAIN toServer[c] : toServer'[c][i] = toServer[c][j]
    BY <1>1, <2>1, <2>2, <2>3 DEF ReadyInv
  <2>4. CASE ~\E j \in DOMAIN toServer[c] : toServer'[c][i] = toServer[c][j]
    BY <1>1, <2>1, <2>2, <2>4 DEF Moves
  <2>5. QED
    BY <2>3, <2>4
<1>4. Unheard'
  <2>1. \A i \in DOMAIN sQueue' : sQueue'[i].step > 0
    BY <1>1 DEF Unheard
  <2>2. SUFFICES ASSUME loop' = "receive", Due(sQueue', sStep'), NEW d \in Client
                 PROVE  Behind(client'[d], toClient'[d], toServer'[d], sStep')
    BY <2>1 DEF Unheard
  <2>3. loop = "receive" /\ Due(sQueue, sStep)
    BY <1>1, <2>2
  <2>4. Behind(client[d], toClient[d], toServer[d], sStep)
    BY <2>3 DEF Unheard
  <2>5. CASE d # c
    BY <1>1, <2>4, <2>5 DEF Moves
  <2>6. CASE d = c
    <3>1. sStep \in Nat /\ sStep > 0 /\ client[c].barrier \in Nat /\ client'[c].barrier \in Nat
      <4>1. sStep \in Nat /\ client[c].barrier \in Nat
        BY ClientTypes
      <4>2. client' \in [Client -> Machine]
        BY DEF TypeOK
      <4>3. client'[c] \in Machine
        BY <4>2
      <4>4. client'[c].barrier \in Nat
        BY <4>3 DEF Machine
      <4>5. sQueue \in Seq(WorldCmd) /\ sQueue # <<>> /\ Head(sQueue).step <= sStep
        BY <2>3 DEF Due, TypeOK
      <4>6. Head(sQueue) \in WorldCmd /\ Head(sQueue) = sQueue[1] /\ 1 \in DOMAIN sQueue
        BY <4>5, TailFacts
      <4>7. Head(sQueue).step > 0 /\ Head(sQueue).step \in Nat
        BY <4>6, ClockFacts DEF Unheard
      <4>8. QED
        BY <4>1, <4>4, <4>5, <4>7
    <3>2. client'[c].barrier < sStep
      <4>1. \/ client'[c].barrier <= client[c].barrier \/ client'[c].barrier = 0
            \/ \E i \in DOMAIN toClient[c] : client'[c].barrier = Clock(toClient[c][i])
        BY DEF Moves
      <4>2. client[c].barrier < sStep /\ \A i \in DOMAIN toClient[c] : Clock(toClient[c][i]) < sStep
        BY <2>4, <2>6 DEF Behind
      <4>3. QED
        BY <3>1, <4>1, <4>2
    <3>3. \A i \in DOMAIN toClient'[c] : Clock(toClient'[c][i]) < sStep
      BY <2>4, <2>6 DEF Behind, Moves
    <3>4. ASSUME NEW i \in DOMAIN toServer'[c], toServer'[c][i].kind = "ready" PROVE toServer'[c][i].step < sStep
      <4>1. client[c].barrier < sStep
        BY <2>4, <2>6 DEF Behind
      <4>2. CASE \E j \in DOMAIN toServer[c] : toServer'[c][i] = toServer[c][j]
        BY <2>4, <2>6, <3>4, <4>2 DEF Behind
      <4>3. CASE ~\E j \in DOMAIN toServer[c] : toServer'[c][i] = toServer[c][j]
        <5>1. toServer'[c][i].step <= client[c].barrier
          BY <3>4, <4>3 DEF Moves
        <5>2. toServer' \in [Client -> Seq(ClientPacket)]
          BY DEF TypeOK
        <5>3. toServer'[c][i] \in ClientPacket
          BY <5>2
        <5>4. toServer'[c][i].step \in Nat
          BY <3>4, <5>3, ClockFacts
        <5>5. QED
          BY <3>1, <4>1, <5>1, <5>4
      <4>4. QED
        BY <4>2, <4>3
    <3>5. QED
      BY <1>1, <2>6, <3>2, <3>3, <3>4 DEF Behind
  <2>7. QED
    BY <2>5, <2>6
<1>5. QED
  BY <1>2, <1>3, <1>4

\* A client leaves.
LEMMA LeaveMoves ==
    ASSUME TypeOK, NEW c \in Client, NEW reason, LeaveNow(c, reason),
           UNCHANGED <<serverVars, glitches, lost>>
    PROVE  Moves(c)
<1> USE DEF serverVars
<1>1. /\ client'[c] = Outside("offline", 0) /\ toClient'[c] = <<>> /\ toServer'[c] = Append(toServer[c], EOF)
      /\ \A d \in Client \ {c} : /\ toClient'[d] = toClient[d] /\ toServer'[d] = toServer[d]
                                 /\ client'[d] = client[d]
  BY DEF LeaveNow, TypeOK
<1>2. client'[c].barrier = 0 /\ DOMAIN toClient'[c] = {}
  BY <1>1 DEF Outside, Reset
<1>3. \A d \in Client : IsClean(d)' <=> IsClean(d)
  BY DEF IsClean
<1>4. ASSUME NEW i \in DOMAIN toServer'[c], toServer'[c][i].kind = "ready"
      PROVE  \E j \in DOMAIN toServer[c] : toServer'[c][i] = toServer[c][j]
  <2>1. toServer[c] \in Seq(ClientPacket) /\ EOF \in ClientPacket /\ EOF.kind = "eof"
    BY ClientTypes DEF EOF, ClientPacket
  <2>2. i \in DOMAIN toServer[c] \/ toServer'[c][i] = EOF
    BY <1>1, <1>4, <2>1, AppendFacts
  <2>3. QED
    BY <1>1, <1>4, <2>1, <2>2, AppendFacts
<1>5. QED
  BY <1>1, <1>2, <1>3, <1>4 DEF Moves

\* A client takes a packet off the wire, or none, and tells nothing.
LEMMA HearMoves ==
    ASSUME TypeOK, NEW c \in Client, NEW n, CliBecomes(c, n), UNCHANGED toServer,
           \A d \in Client : IsClean(d)' => IsClean(d),
           UNCHANGED toClient \/ (toClient[c] # <<>> /\ CliTake(c)),
           \/ n.barrier <= client[c].barrier \/ n.barrier = 0
           \/ \E i \in DOMAIN toClient[c] : n.barrier = Clock(toClient[c][i])
    PROVE  Moves(c)
<1> USE DEF serverVars
<1>1. /\ client'[c] = n /\ UNCHANGED <<serverVars, toServer>>
      /\ \A d \in Client \ {c} : client'[d] = client[d] /\ toClient'[d] = toClient[d]
  BY DEF CliBecomes, CliTake, TypeOK
<1>2. ASSUME NEW i \in DOMAIN toClient'[c] PROVE \E j \in DOMAIN toClient[c] : toClient'[c][i] = toClient[c][j]
  <2>1. CASE UNCHANGED toClient
    BY <1>2, <2>1
  <2>2. CASE toClient[c] # <<>> /\ CliTake(c)
    <3>1. toClient'[c] = Tail(toClient[c]) /\ toClient[c] \in Seq(ServerPacket)
      BY <2>2 DEF CliTake, TypeOK
    <3>2. QED
      BY <1>2, <2>2, <3>1, TailFacts
  <2>3. QED
    BY <2>1, <2>2
<1>3. QED
  BY <1>1, <1>2 DEF Moves

\* Joining.
LEMMA JoinMoves ==
    ASSUME TypeOK, NEW c \in Client, CliJoin(c) \/ CliSync(c) \/ CliGame(c) \/ CliDiscard(c)
    PROVE  Moves(c)
<1> USE DEF serverVars, ghostVars
<1>1. ASSUME NEW n, n.barrier = 0, CliTake(c), toClient[c] # <<>>, CliBecomes(c, n), UNCHANGED <<toServer, lost>>
      PROVE  Moves(c)
  <2>1. \A d \in Client : IsClean(d)' => IsClean(d)
    BY <1>1 DEF CliBecomes, IsClean
  <2>2. UNCHANGED toServer
    BY <1>1
  <2>3. QED
    BY <1>1, <2>1, <2>2, HearMoves
<1>2. ASSUME Leave(c, "ok") PROVE Moves(c)
  BY <1>2, LeaveMoves DEF Leave
<1>3. \A st, m : Outside(st, m).barrier = 0
  BY DEF Outside, Reset
<1>4. \A m, w : Loaded(m, w).barrier = 0
  BY DEF Loaded, Reset
<1>5. CASE CliJoin(c)
  <2>1. CASE Head(toClient[c]).answer
    BY <1>1, <1>3, <1>5, <2>1 DEF CliJoin, CliHead
  <2>2. CASE ~Head(toClient[c]).answer
    BY <1>2, <1>5, <2>2 DEF CliJoin
  <2>3. QED
    BY <2>1, <2>2
<1>6. CASE CliSync(c)
  BY <1>1, <1>3, <1>6 DEF CliSync, CliHead
<1>7. CASE CliGame(c)
  BY <1>1, <1>4, <1>7 DEF CliGame, CliHead
<1>8. CASE CliDiscard(c)
  <2>1. CASE Head(toClient[c]).kind \in {"game", "eof"}
    BY <1>2, <1>8, <2>1 DEF CliDiscard
  <2>2. CASE Head(toClient[c]).kind \notin {"game", "eof"}
    <3>1. /\ toClient[c] # <<>> /\ CliTake(c)
          /\ UNCHANGED <<sStep, sQueue, loop, allMaps, slot, toServer, client, glitches, lost>>
      BY <1>8, <2>2 DEF CliDiscard
    <3>2. \A d \in Client : IsClean(d)' => IsClean(d)
      BY <3>1 DEF IsClean
    <3>3. \A d \in Client \ {c} : toClient'[d] = toClient[d]
      BY <3>1 DEF CliTake, TypeOK
    <3>4. \A i \in DOMAIN toClient'[c] : \E j \in DOMAIN toClient[c] : toClient'[c][i] = toClient[c][j]
      <4>1. toClient'[c] = Tail(toClient[c]) /\ toClient[c] \in Seq(ServerPacket)
        BY <3>1 DEF CliTake, TypeOK
      <4>2. QED
        BY <3>1, <4>1, TailFacts
    <3>5. client[c].barrier <= client[c].barrier
      BY ClientTypes
    <3>6. QED
      BY <3>1, <3>2, <3>3, <3>4, <3>5 DEF Moves
  <2>3. QED
    BY <2>1, <2>2
<1>9. QED
  BY <1>5, <1>6, <1>7, <1>8

\* Hearing the packets of a game.
LEMMA PacketMoves ==
    ASSUME TypeOK, NEW c \in Client, CliStep(c) \/ CliCommand(c) \/ CliReady(c) \/ CliEOF(c)
    PROVE  Moves(c)
<1> USE DEF serverVars, ghostVars
<1> DEFINE m == client[c]
           p == Head(toClient[c])
<1>1. ASSUME NEW n, n.barrier = m.barrier \/ n.barrier = Clock(p),
             CliTake(c), toClient[c] # <<>>, CliBecomes(c, n), UNCHANGED <<toServer, lost>>
      PROVE  Moves(c)
  <2>1. \A d \in Client : IsClean(d)' => IsClean(d)
    BY <1>1 DEF CliBecomes, IsClean
  <2>2. UNCHANGED toServer
    BY <1>1
  <2>3. toClient[c] \in Seq(ServerPacket) /\ m.barrier <= m.barrier
    BY ClientTypes
  <2>4. 1 \in DOMAIN toClient[c] /\ p = toClient[c][1]
    BY <1>1, <2>3, TailFacts
  <2>5. \/ n.barrier <= m.barrier
        \/ \E i \in DOMAIN toClient[c] : n.barrier = Clock(toClient[c][i])
    BY <1>1, <2>3, <2>4
  <2>6. QED
    BY <1>1, <2>1, <2>2, <2>5, HearMoves
<1>2. ASSUME NEW reason, Leave(c, reason) PROVE Moves(c)
  BY <1>2, LeaveMoves DEF Leave
<1>3. m \in Machine
  BY ClientTypes
<1>4. CASE CliStep(c)
  <2>1. PICK n : n = [client[c] EXCEPT !.barrier = IF @ < p.step THEN p.step ELSE @]
    OBVIOUS
  <2>2. CliTake(c) /\ toClient[c] # <<>> /\ p.kind = "step" /\ CliBecomes(c, n) /\ UNCHANGED <<toServer, lost>>
    BY <1>4, <2>1 DEF CliStep, CliHead
  <2>3. n.barrier = m.barrier \/ n.barrier = Clock(p)
    BY <1>3, <2>1, <2>2 DEF Machine, Clock
  <2>4. QED
    BY <1>1, <2>2, <2>3
<1>5. CASE CliCommand(c)
  <2>1. PICK k : k = IF p.kind = "check" /\ client[c].barrier < p.srvStep
                     THEN [client[c] EXCEPT !.barrier = p.srvStep] ELSE client[c]
    OBVIOUS
  <2>2. k.barrier = m.barrier \/ k.barrier = Clock(p)
    BY <1>3, <2>1 DEF Machine, Clock
  <2>3. k \in [DOMAIN m -> UNION {{k[f]} : f \in DOMAIN m}] /\ "queue" \in DOMAIN m /\ "barrier" \in DOMAIN m
    BY <1>3, <2>1 DEF Machine
  <2>4. [k EXCEPT !.queue = CommandQueueAppend(@, p)].barrier = k.barrier
    BY <2>3
  <2>5. toClient[c] # <<>>
    BY <1>5 DEF CliCommand, CliHead
  <2>6. \/ Leave(c, "late")
        \/ /\ CliTake(c) /\ UNCHANGED <<toServer, lost>>
           /\ CliBecomes(c, k) \/ CliBecomes(c, [k EXCEPT !.queue = CommandQueueAppend(@, p)])
    BY <1>5, <2>1 DEF CliCommand
  <2>7. QED
    BY <1>1, <1>2, <2>2, <2>4, <2>5, <2>6
<1>6. CASE CliReady(c)
  <2>1. CASE p.map = client[c].map
    <3>1. PICK n : n = [client[c] EXCEPT
                       !.step = p.step, !.barrier = p.step, !.paused = FALSE,
                       !.chk = SetChecklist(@, p.step, p.chk)]
      OBVIOUS
    <3>2. n.barrier = p.step
      BY <1>3, <3>1 DEF Machine
    <3>3. CliTake(c) /\ toClient[c] # <<>> /\ p.kind = "ready" /\ CliBecomes(c, n) /\ UNCHANGED <<toServer, lost>>
      BY <1>6, <2>1, <3>1 DEF CliReady, CliHead
    <3>4. n.barrier = Clock(p)
      BY <3>2, <3>3 DEF Clock
    <3>5. QED
      BY <1>1, <3>3, <3>4
  <2>2. CASE p.map # client[c].map
    BY <1>2, <1>6, <2>2 DEF CliReady
  <2>3. QED
    BY <2>1, <2>2
<1>7. CASE CliEOF(c)
  BY <1>2, <1>7 DEF CliEOF
<1>8. QED
  BY <1>4, <1>5, <1>6, <1>7

\* Executing commands.
LEMMA RunMoves ==
    ASSUME TypeOK, LockstepInv, WorldInv, NEW c \in Client, CliRun(c)
    PROVE  Moves(c)
<1> USE DEF serverVars, ghostVars
<1> DEFINE m == client[c]
<1>1. ASSUME NEW n, n.barrier = m.barrier, UNCHANGED toClient, CliBecomes(c, n), UNCHANGED <<toServer, lost>>
      PROVE  Moves(c)
  <2>1. \A d \in Client : IsClean(d)' => IsClean(d)
    BY <1>1 DEF CliBecomes, IsClean
  <2>2. UNCHANGED toServer
    BY <1>1
  <2>3. n.barrier <= m.barrier
    BY <1>1, ClientTypes
  <2>4. QED
    BY <1>1, <2>1, <2>2, <2>3, HearMoves
<1>2. ASSUME NEW reason, Leave(c, reason) PROVE Moves(c)
  BY <1>2, LeaveMoves DEF Leave
<1>3. m \in Machine /\ m.step \in Nat /\ m.barrier \in Nat /\ m.step <= m.barrier /\ m.queue \in Seq(WorldCmd)
      /\ m.chk \in [0 .. ChecklistCount - 1 -> World] /\ m.world \in World
  <2>1. m \in Machine /\ m.step \in Nat /\ m.barrier \in Nat /\ m.queue \in Seq(WorldCmd)
    BY ClientTypes
  <2>2. m.step <= m.barrier
    BY DEF LockstepInv, ClientInv, MachineInv
  <2>3. QED
    BY <2>1, <2>2 DEF Machine
<1>4. ASSUME Executes(c, m), UNCHANGED <<toServer, lost>> PROVE Moves(c)
  <2>1. PICK n : n = [m EXCEPT !.queue = Tail(@)]
    OBVIOUS
  <2>2. n.barrier = m.barrier
    BY <1>3, <2>1 DEF Machine
  <2>3. CliBecomes(c, n) /\ UNCHANGED toClient
    BY <1>4, <2>1 DEF Executes
  <2>4. QED
    BY <1>1, <1>4, <2>2, <2>3
<1>5. CASE CliExecuteCheck(c)
  BY <1>2, <1>4, <1>5 DEF CliExecuteCheck
<1>6. CASE CliExecuteTool(c)
  <2>1. PICK k : k = [m EXCEPT !.world = Append(@, Done(m.step, Head(m.queue).tool))]
    OBVIOUS
  <2>2. PICK n : n = [k EXCEPT !.queue = Tail(@)]
    OBVIOUS
  <2>3. n.barrier = m.barrier
    BY <1>3, <2>1, <2>2 DEF Machine
  <2>4. \/ Leave(c, "late") \/ Leave(c, "desync")
        \/ Executes(c, m) /\ UNCHANGED <<toServer, lost>>
        \/ CliBecomes(c, n) /\ UNCHANGED toClient /\ UNCHANGED <<toServer, lost>>
    BY <1>6, <2>1, <2>2 DEF CliExecuteTool, Executes
  <2>5. QED
    BY <1>1, <1>2, <1>4, <2>3, <2>4
<1>7. CASE CliExecuteSync(c)
  <2> DEFINE x == Head(m.queue)
             r == ReadyPacket(m.step, x.newMap, LCHKLST(m.chk, m.step))
  <2>1. PICK n : n = [m EXCEPT !.world = Append(@, Done(m.step, Reload)), !.queue = <<>>, !.paused = TRUE,
                               !.barrier = m.step, !.map = x.newMap]
    OBVIOUS
  <2>2. \/ Leave(c, "late")
        \/ Executes(c, m) /\ UNCHANGED <<toServer, lost>>
        \/ /\ ~Past(c) /\ ~AnotherWorld(c) /\ CliBecomes(c, n) /\ UNCHANGED toClient
           /\ toServer' = [toServer EXCEPT ![c] = Append(@, r)]
           /\ lost \subseteq lost'
    BY <1>7, <2>1 DEF CliExecuteSync
  <2>3. CASE /\ ~Past(c) /\ ~AnotherWorld(c) /\ CliBecomes(c, n) /\ UNCHANGED toClient
             /\ toServer' = [toServer EXCEPT ![c] = Append(@, r)]
             /\ lost \subseteq lost'
    <3>1. InGame(c) /\ m.queue # <<>> /\ x.step <= m.step /\ x.kind = "sync" /\ x \in WorldCmd /\ x.step \in Nat
      <4>1. InGame(c) /\ m.queue # <<>> /\ x.step <= m.step /\ x.kind = "sync"
        BY <1>7 DEF CliExecuteSync, CliExecute, Due
      <4>2. x \in WorldCmd
        BY <1>3, <4>1, TailFacts
      <4>3. QED
        BY <4>1, <4>2, ClockFacts
    <3>2. x.step = m.step /\ x.map = m.map
      <4>1. ~(x.step < m.step) /\ x.map = m.map
        BY <2>3 DEF Past, AnotherWorld
      <4>2. QED
        BY <1>3, <3>1, <4>1
    <3>3. n.barrier = m.step /\ n.barrier <= m.barrier
      BY <1>3, <2>1 DEF Machine
    <3>4. /\ \A d \in Client : IsClean(d)' => IsClean(d)
          /\ UNCHANGED <<sStep, sQueue, loop, allMaps, slot>>
      BY <2>3 DEF CliBecomes, IsClean
    <3>5. /\ client'[c] = n /\ toClient'[c] = toClient[c] /\ toServer'[c] = Append(toServer[c], r)
          /\ \A d \in Client \ {c} : client'[d] = client[d] /\ toClient'[d] = toClient[d] /\ toServer'[d] = toServer[d]
      BY <2>3 DEF CliBecomes, TypeOK
    <3>6. toServer[c] \in Seq(ClientPacket) /\ r \in ClientPacket /\ r.step = m.step /\ r.map = x.newMap
      <4>1. x.newMap \in Nat
        BY <3>1 DEF WorldCmd, ToolCmd, SyncCmd, CheckCmd
      <4>2. LCHKLST(m.chk, m.step) \in World
        BY <1>3, RingFacts
      <4>3. r \in ClientPacket
        BY <1>3, <4>1, <4>2, PacketFacts
      <4>4. QED
        BY <4>3, ClientTypes DEF ReadyPacket
    <3>7. ASSUME NEW i \in DOMAIN toServer'[c], toServer'[c][i].kind = "ready"
          PROVE  \/ \E j \in DOMAIN toServer[c] : toServer'[c][i] = toServer[c][j]
                 \/ /\ toServer'[c][i].step <= m.barrier
                    /\ Active(c) => slot[c] = "playing"
                    /\ IsClean(c) => Entered(toServer'[c][i].map, toServer'[c][i].step, allMaps, sQueue)
      <4>1. PICK u : u = Append(toServer[c], r)
        OBVIOUS
      <4>2. (i \in DOMAIN toServer[c] /\ u[i] = toServer[c][i]) \/ u[i] = r
        BY <3>5, <3>6, <3>7, <4>1, AppendFacts
      <4>3. toServer'[c][i] = u[i]
        BY <3>5, <4>1
      <4>4. CASE u[i] = r
        <5>1. Active(c) => slot[c] = "playing"
          BY <3>1, PlayerPlays
        <5>2. IsClean(c) => Entered(x.newMap, m.step, allMaps, sQueue)
          BY <3>1, <3>2, EnterSync
        <5>3. QED
          BY <1>3, <3>6, <4>3, <4>4, <5>1, <5>2
      <4>5. QED
        BY <4>2, <4>3, <4>4
    <3>8. QED
      BY <3>3, <3>4, <3>5, <3>7 DEF Moves
  <2>4. QED
    BY <1>2, <1>4, <2>2, <2>3
<1>8. CASE CliFrame(c)
  <2>1. PICK n : n = [m EXCEPT !.step = @ + 1, !.chk = SetChecklist(@, m.step + 1, m.world)]
    OBVIOUS
  <2>2. n.barrier = m.barrier
    BY <1>3, <2>1 DEF Machine
  <2>3. CliBecomes(c, n) /\ UNCHANGED <<toClient, toServer, lost>>
    BY <1>8, <2>1 DEF CliFrame
  <2>4. QED
    BY <1>1, <2>2, <2>3
<1>9. QED
  BY <1>5, <1>6, <1>7, <1>8 DEF CliRun

\* Connecting, quitting, a tool, and a simulation that diverges.
LEMMA WorkMoves ==
    ASSUME TypeOK, NEW c \in Client,
           Connect(c) \/ CliQuit(c) \/ Diverge(c) \/ \E t \in Tool : CliTool(c, t)
    PROVE  Moves(c)
<1> USE DEF serverVars, wireVars
<1>1. client[c] \in Machine /\ client[c].barrier \in Nat /\ client[c].barrier <= client[c].barrier
      /\ toServer[c] \in Seq(ClientPacket)
  BY ClientTypes
<1>2. CASE CliQuit(c)
  BY <1>2, LeaveMoves DEF CliQuit
<1>3. CASE Connect(c)
  <2>1. /\ client'[c] = Outside("waitJoin", 0) /\ toClient'[c] = <<>> /\ toServer'[c] = <<[kind |-> "join"]>>
        /\ UNCHANGED <<sStep, sQueue, loop, allMaps>>
        /\ \A d \in Client \ {c} : client'[d] = client[d] /\ toClient'[d] = toClient[d] /\ toServer'[d] = toServer[d]
                                   /\ slot'[d] = slot[d] /\ (IsClean(d)' => IsClean(d))
    BY <1>3 DEF Connect, TypeOK, IsClean
  <2>2. client'[c].barrier = 0 /\ DOMAIN toClient'[c] = {}
    BY <2>1 DEF Outside, Reset
  <2>3. \A i \in DOMAIN toServer'[c] : toServer'[c][i].kind # "ready"
    BY <2>1
  <2>4. QED
    BY <2>1, <2>2, <2>3 DEF Moves
<1>4. CASE Diverge(c)
  <2>1. /\ client'[c].barrier = client[c].barrier /\ UNCHANGED <<sStep, sQueue, loop, allMaps, slot, toClient, toServer>>
        /\ \A d \in Client \ {c} : client'[d] = client[d]
        /\ \A d \in Client : IsClean(d)' => IsClean(d)
    BY <1>1, <1>4 DEF Diverge, TypeOK, IsClean, Machine
  <2>2. QED
    BY <1>1, <2>1 DEF Moves
<1>5. ASSUME NEW t \in Tool, CliTool(c, t) PROVE Moves(c)
  <2>1. PICK x : x = ToolPacket(client[c].step, client[c].map, t, client[c].step, LCHKLST(client[c].chk, client[c].step))
    OBVIOUS
  <2>2. x \in ClientPacket /\ x.kind = "tool"
    <3>1. /\ client[c].step \in Nat /\ client[c].map \in Nat /\ client[c].world \in World
          /\ client[c].chk \in [0 .. ChecklistCount - 1 -> World]
      BY <1>1 DEF Machine
    <3>2. LCHKLST(client[c].chk, client[c].step) \in World
      BY <3>1, RingFacts
    <3>3. QED
      BY <2>1, <3>1, <3>2, PacketFacts DEF ToolPacket
  <2>3. /\ toServer'[c] = Append(toServer[c], x) /\ UNCHANGED <<sStep, sQueue, loop, allMaps, slot, toClient, client, glitches, lost>>
        /\ \A d \in Client \ {c} : toServer'[d] = toServer[d]
    BY <1>5, <2>1 DEF CliTool, TypeOK
  <2>4. ASSUME NEW i \in DOMAIN toServer'[c], toServer'[c][i].kind = "ready"
        PROVE  \E j \in DOMAIN toServer[c] : toServer'[c][i] = toServer[c][j]
    <3>1. i \in DOMAIN toServer[c] \/ toServer'[c][i] = x
      BY <1>1, <2>2, <2>3, <2>4, AppendFacts
    <3>2. QED
      BY <1>1, <2>2, <2>3, <2>4, <3>1, AppendFacts
  <2>5. \A d \in Client : IsClean(d)' => IsClean(d)
    BY <2>3 DEF IsClean
  <2>6. QED
    BY <1>1, <2>3, <2>4, <2>5 DEF Moves
<1>6. QED
  BY <1>2, <1>3, <1>4, <1>5

-----------------------------------------------------------------------------
(* What the server does to it. *)

\* What the server's queue and its counters are like.
LEMMA QueueFacts ==
    ASSUME TypeOK, LockstepInv, WorldInv
    PROVE  /\ sQueue \in Seq(WorldCmd) /\ sStep \in Nat /\ Sorted(sQueue) /\ Descending(allMaps)
           /\ \A i \in DOMAIN sQueue : /\ sQueue[i].step \in Nat
                                       /\ sStep <= sQueue[i].step /\ sQueue[i].step <= sStep + 1
           /\ sMap \in Nat /\ \A i \in DOMAIN allMaps : allMaps[i] <= sMap
<1>1. PICK L \in Seq(LogCmd), reach \in [Client -> Nat] : WInv(L, reach)
  BY DEF WorldInv
<1>2. ServerWorldInv(L)
  BY <1>1 DEF WInv
<1>3. /\ sQueue \in Seq(WorldCmd) /\ sStep \in Nat /\ sMap \in Nat
      /\ \A i \in DOMAIN sQueue : sQueue[i].step \in Nat /\ sQueue[i].step <= sStep + 1
  BY <1>2, ServerFacts
<1>4. Sorted(sQueue) /\ \A i \in DOMAIN sQueue : sQueue[i].step >= sStep
  BY DEF LockstepInv, ServerInv
<1>5. Descending(allMaps) /\ \A i \in DOMAIN allMaps : allMaps[i] <= sMap
  BY <1>2 DEF ServerWorldInv, At, Remembers, Descending
<1>6. \A i \in DOMAIN sQueue : sStep <= sQueue[i].step
  BY <1>3, <1>4
<1>7. QED
  BY <1>3, <1>4, <1>5, <1>6

\* The server reads a packet, or issues a command: it answers nothing later than
\* what it hears, and stamps for the next step.
LEMMA ServerHears ==
    ASSUME TypeOK, LockstepInv, WorldInv, Unheard, \A d \in Client : ReadyInv(d),
           UNCHANGED <<sStep, allMaps, loop, client, glitches, lost>>,
           \/ sQueue' = sQueue
           \/ \E x \in WorldCmd : x.step = sStep + 1 /\ sQueue' = CommandQueueAppend(sQueue, x),
           \A d \in Client :
              /\ slot'[d] = slot[d] \/ slot'[d] = "inactive"
              /\ \A i \in DOMAIN toServer'[d] : \E j \in DOMAIN toServer[d] : toServer'[d][i] = toServer[d][j]
              /\ \A i \in DOMAIN toClient'[d] :
                    \/ \E j \in DOMAIN toClient[d] : toClient'[d][i] = toClient[d][j]
                    \/ Clock(toClient'[d][i]) = 0
                    \/ \E j \in DOMAIN toServer[d] : toServer[d][j].kind = "ready" /\ toClient'[d][i] = toServer[d][j]
    PROVE  Unheard' /\ \A d \in Client : ReadyInv(d)'
<1>1. /\ sQueue \in Seq(WorldCmd) /\ sStep \in Nat
      /\ \A i \in DOMAIN sQueue : sQueue[i].step \in Nat /\ sQueue[i].step <= sStep + 1
  BY QueueFacts
<1>2. sQueue' = sQueue \/ \E x \in WorldCmd : x.step = sStep + 1 /\ sQueue' = Append(sQueue, x)
  <2>1. ASSUME NEW x \in WorldCmd, x.step = sStep + 1, sQueue' = CommandQueueAppend(sQueue, x)
        PROVE  sQueue' = Append(sQueue, x)
    BY <1>1, <2>1, QueueAppendLast
  <2>2. QED
    BY <2>1
<1>3. \A x, s : Entered(x, s, allMaps, sQueue) => Entered(x, s, allMaps', sQueue')
  BY <1>1, <1>2, NextSyncAppend DEF Entered
<1>4. ASSUME NEW d \in Client PROVE ReadyInv(d)'
  <2>1. IsClean(d)' => IsClean(d)
    BY DEF IsClean
  <2>2. Active(d)' => slot'[d] = slot[d] /\ Active(d)
    BY DEF Active
  <2>3. QED
    BY <1>3, <2>1, <2>2, ReadyKept
<1>5. (\A i \in DOMAIN sQueue' : sQueue'[i].step > 0) /\ (Due(sQueue', sStep') => Due(sQueue, sStep))
  <2>1. CASE sQueue' = sQueue
    BY <2>1 DEF Unheard
  <2>2. ASSUME NEW x \in WorldCmd, x.step = sStep + 1, sQueue' = Append(sQueue, x)
        PROVE  (\A i \in DOMAIN sQueue' : sQueue'[i].step > 0) /\ (Due(sQueue', sStep') => Due(sQueue, sStep))
    <3>1. /\ DOMAIN sQueue' = DOMAIN sQueue \cup {Len(sQueue) + 1} /\ sQueue' \in Seq(WorldCmd)
          /\ \A i \in DOMAIN sQueue : sQueue'[i] = sQueue[i]
          /\ sQueue'[Len(sQueue) + 1] = x
      BY <1>1, <2>2, AppendFacts
    <3>2. x.step > 0 /\ ~(x.step <= sStep)
      BY <1>1, <2>2
    <3>3. \A i \in DOMAIN sQueue' : sQueue'[i].step > 0
      BY <3>1, <3>2 DEF Unheard
    <3>4. ASSUME Due(sQueue', sStep') PROVE Due(sQueue, sStep)
      <4>1. sQueue'[1].step <= sStep
        <5>1. sQueue' # <<>> /\ Head(sQueue').step <= sStep
          BY <3>4 DEF Due
        <5>2. QED
          BY <3>1, <5>1
      <4>2. sQueue # <<>>
        <5>1. SUFFICES ASSUME sQueue = <<>> PROVE FALSE
          OBVIOUS
        <5>2. Len(sQueue) + 1 = 1
          BY <5>1
        <5>3. QED
          BY <3>1, <3>2, <4>1, <5>2
      <4>3. 1 \in DOMAIN sQueue /\ Head(sQueue) = sQueue[1]
        BY <1>1, <4>2, TailFacts
      <4>4. QED
        BY <3>1, <4>1, <4>2, <4>3 DEF Due
    <3>5. QED
      BY <3>3, <3>4
  <2>3. QED
    BY <1>2, <2>1, <2>2
<1>6. Unheard'
  <2>1. SUFFICES ASSUME loop' = "receive", Due(sQueue', sStep'), NEW d \in Client
                 PROVE  Behind(client'[d], toClient'[d], toServer'[d], sStep')
    BY <1>5 DEF Unheard
  <2>2. Due(sQueue, sStep) /\ Behind(client[d], toClient[d], toServer[d], sStep)
    BY <1>5, <2>1 DEF Unheard
  <2>3. 0 < sStep
    <3>1. 1 \in DOMAIN sQueue /\ Head(sQueue) = sQueue[1] /\ sQueue[1].step <= sStep
      <4>1. sQueue # <<>> /\ Head(sQueue).step <= sStep
        BY <2>2 DEF Due
      <4>2. QED
        BY <1>1, <4>1, TailFacts
    <3>2. sQueue[1].step > 0 /\ sQueue[1].step \in Nat
      BY <1>1, <3>1 DEF Unheard
    <3>3. QED
      BY <1>1, <3>1, <3>2
  <2>4. ASSUME NEW i \in DOMAIN toClient'[d] PROVE Clock(toClient'[d][i]) < sStep
    <3>1. CASE \E j \in DOMAIN toClient[d] : toClient'[d][i] = toClient[d][j]
      BY <2>2, <3>1 DEF Behind
    <3>2. CASE Clock(toClient'[d][i]) = 0
      BY <2>3, <3>2
    <3>3. CASE \E j \in DOMAIN toServer[d] : toServer[d][j].kind = "ready" /\ toClient'[d][i] = toServer[d][j]
      BY <2>2, <3>3 DEF Behind, Clock
    <3>4. QED
      BY <3>1, <3>2, <3>3
  <2>5. \A i \in DOMAIN toServer'[d] : toServer'[d][i].kind = "ready" => toServer'[d][i].step < sStep
    BY <2>2 DEF Behind
  <2>6. QED
    BY <2>2, <2>4, <2>5 DEF Behind
<1>7. QED
  BY <1>4, <1>6

\* The server closes a connection.
LEMMA RemoveKeeps ==
    ASSUME TypeOK, LockstepInv, WorldInv, Unheard, \A d \in Client : ReadyInv(d),
           NEW c \in Client, RemoveClient(c)
    PROVE  Unheard' /\ \A d \in Client : ReadyInv(d)'
<1>1. UNCHANGED <<sStep, sQueue, allMaps, loop, client, glitches, lost>>
  BY DEF RemoveClient
<1>2. ASSUME NEW d \in Client
      PROVE  /\ slot'[d] = slot[d] \/ slot'[d] = "inactive"
             /\ \A i \in DOMAIN toServer'[d] : \E j \in DOMAIN toServer[d] : toServer'[d][i] = toServer[d][j]
             /\ \A i \in DOMAIN toClient'[d] :
                   (\E j \in DOMAIN toClient[d] : toClient'[d][i] = toClient[d][j]) \/ Clock(toClient'[d][i]) = 0
  <2>1. CASE d # c
    BY <2>1 DEF RemoveClient, TypeOK
  <2>2. CASE d = c
    <3>1. slot'[d] = "inactive" /\ toServer'[d] = <<>> /\ toClient'[d] = Append(toClient[d], EOF)
      BY <2>2 DEF RemoveClient, TypeOK
    <3>2. toClient[d] \in Seq(ServerPacket) /\ EOF \in ServerPacket /\ Clock(EOF) = 0
      BY ClientTypes DEF EOF, ServerPacket, Clock
    <3>3. PICK u : u = Append(toClient[d], EOF)
      OBVIOUS
    <3>4. \A i \in DOMAIN u : (i \in DOMAIN toClient[d] /\ u[i] = toClient[d][i]) \/ u[i] = EOF
      BY <3>2, <3>3, AppendFacts
    <3>5. DOMAIN toServer'[d] = {}
      BY <3>1
    <3>6. QED
      BY <3>1, <3>2, <3>3, <3>4, <3>5
  <2>3. QED
    BY <2>1, <2>2
<1>3. QED
  BY <1>1, <1>2, ServerHears

\* The server reads a packet.
LEMMA ReceiveKeeps ==
    ASSUME TypeOK, LockstepInv, WorldInv, Unheard, \A d \in Client : ReadyInv(d),
           NEW c \in Client, SrvReceive(c)
    PROVE  Unheard' /\ \A d \in Client : ReadyInv(d)'
<1> USE DEF serverVars, ghostVars
<1>1. /\ toServer[c] \in Seq(ClientPacket) /\ toClient[c] \in Seq(ServerPacket) /\ sStep \in Nat
      /\ toServer[c] # <<>>
  BY ClientTypes DEF SrvReceive, SrvReceiveJoin, SrvReceiveTool, SrvReceiveReady, SrvReceiveEOF, Received
<1>2. ASSUME TakePacket(c), NEW d \in Client
      PROVE  \A i \in DOMAIN toServer'[d] : \E j \in DOMAIN toServer[d] : toServer'[d][i] = toServer[d][j]
  <2>1. CASE d # c
    BY <1>2, <2>1 DEF TakePacket, TypeOK
  <2>2. CASE d = c
    <3>1. toServer'[d] = Tail(toServer[c])
      BY <1>2, <2>2 DEF TakePacket, TypeOK
    <3>2. QED
      BY <1>1, <2>2, <3>1, TailFacts
  <2>3. QED
    BY <2>1, <2>2
<1>3. CASE SrvReceiveJoin(c)
  <2>1. /\ TakePacket(c) /\ UNCHANGED <<sStep, allMaps, loop, slot, client, glitches, lost>>
    BY <1>3 DEF SrvReceiveJoin
  <2>2. PICK a : a = [kind |-> "join", answer |-> pending = NoClient]
    OBVIOUS
  <2>3. SyncPacket(c) \in WorldCmd /\ SyncPacket(c).step = sStep + 1 /\ Clock(SyncPacket(c)) = 0
        /\ a \in ServerPacket /\ Clock(a) = 0 /\ SyncPacket(c) \in ServerPacket
    <3>1. SyncPacket(c) \in WorldCmd /\ SyncPacket(c) \in ServerPacket
      BY CommandFacts
    <3>2. a \in ServerPacket /\ Clock(a) = 0
      BY <2>2, PacketFacts DEF Clock, ServerPacket
    <3>3. QED
      BY <3>1, <3>2 DEF SyncPacket, Clock
  <2>4. sQueue' = sQueue \/ sQueue' = CommandQueueAppend(sQueue, SyncPacket(c))
    BY <1>3 DEF SrvReceiveJoin, AcceptJoin, Broadcast
  <2>5. /\ \A d \in Client \ {c} : toClient'[d] = toClient[d]
        /\ toClient'[c] = toClient[c] \o <<a>> \/ toClient'[c] = toClient[c] \o <<a>> \o <<SyncPacket(c)>>
    BY <1>3, <2>2 DEF SrvReceiveJoin, TypeOK
  <2>6. ASSUME NEW i \in DOMAIN toClient'[c]
        PROVE  (\E j \in DOMAIN toClient[c] : toClient'[c][i] = toClient[c][j]) \/ Clock(toClient'[c][i]) = 0
    <3>1. PICK u : u = Append(toClient[c], a)
      OBVIOUS
    <3>2. u \in Seq(ServerPacket) /\ \A k \in DOMAIN u : (k \in DOMAIN toClient[c] /\ u[k] = toClient[c][k]) \/ u[k] = a
      BY <1>1, <2>3, <3>1, AppendFacts
    <3>3. PICK v : v = Append(u, SyncPacket(c))
      OBVIOUS
    <3>4. \A k \in DOMAIN v : (k \in DOMAIN u /\ v[k] = u[k]) \/ v[k] = SyncPacket(c)
      BY <2>3, <3>2, <3>3, AppendFacts
    <3>5. toClient'[c] = u \/ toClient'[c] = v
      <4>1. toClient[c] \o <<a>> = u
        BY <1>1, <2>3, <3>1
      <4>2. u \o <<SyncPacket(c)>> = v
        BY <2>3, <3>2, <3>3
      <4>3. QED
        BY <2>5, <4>1, <4>2
    <3>6. QED
      BY <2>3, <2>6, <3>2, <3>4, <3>5
  <2>7. QED
    BY <1>2, <2>1, <2>3, <2>4, <2>5, <2>6, ServerHears
<1>4. CASE SrvReceiveTool(c)
  <2>1. CASE Kick(c, "kicked")
    BY <2>1, RemoveKeeps DEF Kick
  <2>2. PICK x : x = ToolPacket(sStep + 1, sMap, Head(toServer[c]).tool, sStep, LCHKLST(sChk, sStep))
    OBVIOUS
  <2>3. CASE ~Kick(c, "kicked")
    <3>1. /\ TakePacket(c) /\ UNCHANGED <<sStep, allMaps, loop, slot, toClient, client, glitches, lost>>
          /\ sQueue' = sQueue \/ sQueue' = CommandQueueAppend(sQueue, x)
      BY <1>4, <2>2, <2>3 DEF SrvReceiveTool, Broadcast
    <3>2. x \in WorldCmd /\ x.step = sStep + 1
      <4>1. Head(toServer[c]) \in ClientPacket /\ Head(toServer[c]).kind = "tool"
        BY <1>1, <1>4, TailFacts DEF SrvReceiveTool, Received
      <4>2. Head(toServer[c]).tool \in Tool
        BY <4>1, KindFacts DEF ToolCmd
      <4>3. QED
        BY <2>2, <4>2, CommandFacts DEF ToolPacket
    <3>3. QED
      BY <1>2, <3>1, <3>2, ServerHears
  <2>4. QED
    BY <2>1, <2>3
<1>5. CASE SrvReceiveReady(c)
  <2>1. CASE Kick(c, "kicked") \/ Kick(c, "forgotten")
    BY <2>1, RemoveKeeps DEF Kick
  <2>2. CASE ~(Kick(c, "kicked") \/ Kick(c, "forgotten"))
    <3>1. PICK r : r = Head(toServer[c])
      OBVIOUS
    <3>2. r \in ServerPacket /\ r = toServer[c][1] /\ 1 \in DOMAIN toServer[c] /\ r.kind = "ready"
      <4>1. r \in ClientPacket /\ r.kind = "ready" /\ r = toServer[c][1] /\ 1 \in DOMAIN toServer[c]
        BY <1>1, <1>5, <3>1, TailFacts DEF SrvReceiveReady, Received
      <4>2. QED
        BY <4>1, KindFacts DEF ServerPacket
    <3>3. /\ TakePacket(c) /\ UNCHANGED <<sStep, sQueue, allMaps, loop, slot, client, glitches, lost>>
          /\ toClient' = [toClient EXCEPT ![c] = Append(@, r)]
      BY <1>5, <2>2, <3>1 DEF SrvReceiveReady, EchoReady
    <3>4. toClient'[c] = Append(toClient[c], r) /\ \A d \in Client \ {c} : toClient'[d] = toClient[d]
      BY <3>3 DEF TypeOK
    <3>5. PICK u : u = Append(toClient[c], r)
      OBVIOUS
    <3>6. \A k \in DOMAIN u : (k \in DOMAIN toClient[c] /\ u[k] = toClient[c][k]) \/ u[k] = r
      BY <1>1, <3>2, <3>5, AppendFacts
    <3>7. ASSUME NEW d \in Client, NEW i \in DOMAIN toClient'[d]
          PROVE  \/ \E j \in DOMAIN toClient[d] : toClient'[d][i] = toClient[d][j]
                 \/ \E j \in DOMAIN toServer[d] : toServer[d][j].kind = "ready" /\ toClient'[d][i] = toServer[d][j]
      <4>1. CASE d # c
        BY <3>4, <3>7, <4>1
      <4>2. CASE d = c
        BY <3>2, <3>4, <3>5, <3>6, <3>7, <4>2
      <4>3. QED
        BY <4>1, <4>2
    <3>8. QED
      BY <1>2, <3>3, <3>7, ServerHears
  <2>3. QED
    BY <2>1, <2>2
<1>6. CASE SrvReceiveEOF(c)
  BY <1>6, RemoveKeeps DEF SrvReceiveEOF
<1>7. QED
  BY <1>3, <1>4, <1>5, <1>6 DEF SrvReceive

\* The server enters a new world: it had no players, or it did the NWC_SYNC at the
\* front of its queue.
LEMMA ReloadKeeps ==
    ASSUME TypeOK, LockstepInv, PausedOnlyWhenEmpty, WorldInv, \A d \in Client : ReadyInv(d),
           SrvExecuteSync \/ (SrvForceSync /\ sPaused)
    PROVE  Unheard' /\ \A d \in Client : ReadyInv(d)'
<1>1. PICK b, y : b \in Client \cup {NoClient} /\ SrvReload(b, y)
             /\ \/ SrvExecuteSync /\ b = Head(sQueue).client /\ y = Head(sQueue).newMap
                \/ SrvForceSync /\ sPaused
  <2>1. CASE SrvExecuteSync
    <3>1. sQueue # <<>> /\ Head(sQueue).kind = "sync" /\ SrvReload(Head(sQueue).client, Head(sQueue).newMap)
      BY <2>1 DEF SrvExecuteSync, SrvExecute, Due
    <3>2. Head(sQueue) \in WorldCmd
      BY <3>1, QueueFacts, TailFacts
    <3>3. Head(sQueue).client \in Client \cup {NoClient}
      BY <3>1, <3>2 DEF WorldCmd, ToolCmd, SyncCmd, CheckCmd
    <3>4. QED
      BY <2>1, <3>1, <3>3
  <2>2. CASE SrvForceSync /\ sPaused
    BY <2>2 DEF SrvForceSync
  <2>3. QED
    BY <2>1, <2>2
<1>2. /\ sQueue' = <<>> /\ allMaps' = AppendMapCounter(y)
      /\ UNCHANGED <<toServer, client, glitches, lost>>
  BY <1>1 DEF SrvReload
<1>3. Unheard'
  BY <1>2 DEF Unheard, Due
<1>4. ASSUME NEW d \in Client PROVE /\ IsClean(d)' <=> IsClean(d)
                                    /\ Active(d)' <=> Active(d)
                                    /\ slot[d] = "playing" => slot'[d] = "playing"
  <2>1. slot'[d] = slot[d] \/ (slot[d] # "inactive" /\ slot'[d] = "playing")
    BY <1>1 DEF SrvReload, TypeOK
  <2>2. QED
    BY <1>2, <2>1 DEF Active, IsClean
<1>5. CASE SrvForceSync /\ sPaused
  <2>1. \A d \in Client : slot[d] # "playing"
    BY <1>5 DEF PausedOnlyWhenEmpty, GetPlayingClients
  <2>2. ASSUME NEW d \in Client, Active(d)', NEW i \in DOMAIN toServer'[d] PROVE toServer'[d][i].kind # "ready"
    BY <1>2, <1>4, <2>1, <2>2 DEF ReadyInv
  <2>3. QED
    BY <1>3, <2>2 DEF ReadyInv
<1>6. CASE SrvExecuteSync /\ y = Head(sQueue).newMap
  <2>1. PICK L \in Seq(LogCmd), reach \in [Client -> Nat] : WInv(L, reach)
    BY DEF WorldInv
  <2>2. ServerWorldInv(L) /\ Due(sQueue, sStep) /\ Head(sQueue).kind = "sync" /\ sQueue # <<>>
    BY <1>6, <2>1 DEF WInv, SrvExecuteSync, SrvExecute, Due
  <2>3. Descending(allMaps) /\ sQueue \in Seq(WorldCmd) /\ sMap \in Nat /\ \A i \in DOMAIN allMaps : allMaps[i] <= sMap
    BY QueueFacts
  <2>4. y \in Nat /\ sMap < y
    <3>1. PICK x : x = Head(sQueue)
      OBVIOUS
    <3>2. PICK n : n = Len(sWorld)
      OBVIOUS
    <3>3. Stamped(x)
      BY <2>2, <3>1 DEF Stamped
    <3>4. x.map = sMap /\ n + 1 \in DOMAIN L /\ x = L[n + 1]
      BY <2>2, <3>1, <3>2, <3>3, ServerNext
    <3>5. x.map < x.newMap
      BY <2>2, <3>1, <3>4 DEF ServerWorldInv, LogOK
    <3>6. x.newMap \in Nat
      BY <2>2, <3>1, <3>4, LogFacts
    <3>7. QED
      BY <1>6, <3>1, <3>4, <3>5, <3>6
  <2>5. \A i \in DOMAIN allMaps : allMaps[i] < y
    <3>1. \A i \in DOMAIN allMaps : allMaps[i] \in Nat
      BY <2>3 DEF Descending
    <3>2. QED
      BY <2>3, <2>4, <3>1
  <2>6. Recalled(y, AppendMapCounter(y))
    <3>1. PICK z \in Nat : /\ z >= 1 /\ DOMAIN AppendMapCounter(y) = 1 .. z
                           /\ AppendMapCounter(y)[1] = y
      BY <2>3, <2>4, CounterFacts
    <3>2. 1 \in 1 .. z
      BY <3>1
    <3>3. QED
      BY <3>1, <3>2 DEF Recalled
  <2>7. \A x, s : Entered(x, s, allMaps, sQueue) => Entered(x, s, allMaps', sQueue')
    <3>1. ASSUME NEW x, NEW s, Entered(x, s, allMaps, sQueue) PROVE Entered(x, s, allMaps', sQueue')
      <4>1. CASE Recalled(x, allMaps)
        BY <1>2, <2>3, <2>4, <2>5, <3>1, <4>1, RecalledNew DEF Entered
      <4>2. CASE NextSync(sQueue, x, s)
        <5>1. x = y
          BY <1>6, <2>2, <2>3, <4>2, NextSyncTail
        <5>2. QED
          BY <1>2, <2>4, <2>6, <5>1 DEF Entered
      <4>3. QED
        BY <3>1, <4>1, <4>2 DEF Entered
    <3>2. QED
      BY <3>1
  <2>8. ASSUME NEW d \in Client PROVE ReadyInv(d)'
    BY <1>2, <1>4, <2>7, <2>8, ReadyKept
  <2>9. QED
    BY <1>3, <2>8
<1>7. QED
  BY <1>1, <1>5, <1>6

\* The rest of the server's pass, and what it issues.
LEMMA PassKeeps ==
    ASSUME TypeOK, LockstepInv, WorldInv, Unheard, \A d \in Client : ReadyInv(d),
           \/ SrvFlush \/ SrvExecuteTool \/ SrvFrame \/ SrvIdle
           \/ (SrvForceSync /\ ~sPaused) \/ \E t \in Tool : SrvTool(t)
    PROVE  Unheard' /\ \A d \in Client : ReadyInv(d)'
<1> USE DEF ghostVars, wireVars
<1>1. ASSUME UNCHANGED <<allMaps, slot, toServer, client, glitches, lost>>,
             \A x, s : Entered(x, s, allMaps, sQueue) => Entered(x, s, allMaps, sQueue')
      PROVE  \A d \in Client : ReadyInv(d)'
  <2>1. ASSUME NEW d \in Client PROVE ReadyInv(d)'
    <3>1. (Active(d)' <=> Active(d)) /\ (IsClean(d)' <=> IsClean(d))
      BY <1>1 DEF Active, IsClean
    <3>2. QED
      BY <1>1, <3>1 DEF ReadyInv
  <2>2. QED
    BY <2>1
<1>2. CASE SrvFlush
  <2>1. /\ UNCHANGED <<sQueue, allMaps, slot, toServer, client, glitches, lost>> /\ loop' = "execute"
    BY <1>2 DEF SrvFlush
  <2>2. QED
    BY <1>1, <2>1 DEF Unheard
<1>3. CASE SrvIdle
  <2>1. /\ UNCHANGED <<sStep, sQueue, allMaps, slot, toServer, client, glitches, lost>> /\ ~Due(sQueue, sStep)
    BY <1>3 DEF SrvIdle
  <2>2. QED
    BY <1>1, <2>1 DEF Unheard
<1>4. CASE SrvExecuteTool
  <2>1. /\ UNCHANGED <<allMaps, slot, toServer, client, glitches, lost, loop>> /\ loop = "execute"
        /\ sQueue' = Tail(sQueue) /\ sQueue # <<>> /\ Head(sQueue).kind = "tool" /\ sQueue \in Seq(WorldCmd)
    BY <1>4, QueueFacts DEF SrvExecuteTool, SrvExecute, Due
  <2>2. \A x, s : Entered(x, s, allMaps, sQueue) => Entered(x, s, allMaps, sQueue')
    BY <2>1, NextSyncTail DEF Entered
  <2>3. \A i \in DOMAIN sQueue' : sQueue'[i].step > 0
    BY <2>1, TailFacts DEF Unheard
  <2>4. QED
    BY <1>1, <2>1, <2>2, <2>3 DEF Unheard
<1>5. CASE SrvFrame
  <2>1. /\ UNCHANGED <<sQueue, allMaps, slot, toClient, toServer, client, glitches, lost>> /\ sStep' = sStep + 1
    BY <1>5 DEF SrvFrame
  <2>2. ASSUME NEW d \in Client PROVE Behind(client[d], toClient[d], toServer[d], sStep + 1)
    <3>1. /\ client[d].barrier \in Nat /\ client[d].barrier <= sStep /\ sStep \in Nat
          /\ toClient[d] \in Seq(ServerPacket) /\ toServer[d] \in Seq(ClientPacket)
      BY ClientTypes DEF LockstepInv, ClientInv, MachineInv
    <3>2. /\ \A i \in DOMAIN toClient[d] : Clock(toClient[d][i]) <= sStep
          /\ \A i \in DOMAIN toServer[d] : toServer[d][i].kind = "ready" => toServer[d][i].step <= sStep
      BY DEF LockstepInv, ClientInv, ChannelInv, StreamInv
    <3>3. /\ \A i \in DOMAIN toClient[d] : Clock(toClient[d][i]) \in Nat
          /\ \A i \in DOMAIN toServer[d] : toServer[d][i].kind = "ready" => toServer[d][i].step \in Nat
      BY <3>1, ClockFacts
    <3>4. \A k \in Nat : k <= sStep => k < sStep + 1
      BY <3>1
    <3>5. QED
      BY <3>1, <3>2, <3>3, <3>4 DEF Behind
  <2>3. QED
    BY <1>1, <2>1, <2>2 DEF Unheard
<1>6. CASE SrvForceSync /\ ~sPaused
  <2>1. /\ UNCHANGED <<sStep, allMaps, loop, slot, toClient, toServer, client, glitches, lost>>
        /\ sQueue' = CommandQueueAppend(sQueue, SyncPacket(NoClient))
    BY <1>6 DEF SrvForceSync, Broadcast
  <2>2. SyncPacket(NoClient) \in WorldCmd /\ SyncPacket(NoClient).step = sStep + 1
    BY CommandFacts DEF SyncPacket
  <2>3. QED
    BY <2>1, <2>2, ServerHears
<1>7. ASSUME NEW t \in Tool, SrvTool(t) PROVE Unheard' /\ \A d \in Client : ReadyInv(d)'
  <2>1. PICK x : x = ToolPacket(sStep + 1, sMap, t, sStep, LCHKLST(sChk, sStep))
    OBVIOUS
  <2>2. /\ UNCHANGED <<sStep, allMaps, loop, slot, toClient, toServer, client, glitches, lost>>
        /\ sQueue' = CommandQueueAppend(sQueue, x)
    BY <1>7, <2>1 DEF SrvTool, Broadcast
  <2>3. x \in WorldCmd /\ x.step = sStep + 1
    BY <2>1, CommandFacts DEF ToolPacket
  <2>4. QED
    BY <2>2, <2>3, ServerHears
<1>8. QED
  BY <1>2, <1>3, <1>4, <1>5, <1>6, <1>7

\* Every step keeps them.
LEMMA ReadyStep ==
    /\ TypeOK /\ TypeOK' /\ LockstepInv /\ PausedOnlyWhenEmpty /\ WorldInv
    /\ Unheard /\ (\A d \in Client : ReadyInv(d)) /\ [Next]_vars
    => Unheard' /\ \A d \in Client : ReadyInv(d)'
<1> SUFFICES ASSUME TypeOK, TypeOK', LockstepInv, PausedOnlyWhenEmpty, WorldInv,
                    Unheard, \A d \in Client : ReadyInv(d), [Next]_vars
             PROVE  Unheard' /\ \A d \in Client : ReadyInv(d)'
  OBVIOUS
<1>1. CASE UNCHANGED vars
  <2>1. UNCHANGED <<sStep, sQueue, loop, allMaps, slot, toClient, toServer, client, glitches, lost>>
    BY <1>1 DEF vars, serverVars, wireVars, ghostVars
  <2>2. ASSUME NEW d \in Client PROVE ReadyInv(d)'
    BY <2>1 DEF ReadyInv, Active, IsClean
  <2>3. QED
    BY <2>1, <2>2 DEF Unheard
<1>2. CASE SrvExecuteSync \/ (SrvForceSync /\ sPaused)
  BY <1>2, ReloadKeeps
<1>3. CASE \/ SrvFlush \/ SrvExecuteTool \/ SrvFrame \/ SrvIdle
           \/ (SrvForceSync /\ ~sPaused) \/ \E t \in Tool : SrvTool(t)
  BY <1>3, PassKeeps
<1>4. ASSUME NEW c \in Client, SrvReceive(c) PROVE Unheard' /\ \A d \in Client : ReadyInv(d)'
  BY <1>4, ReceiveKeeps
<1>5. ASSUME NEW c \in Client, CliReceive(c) PROVE Unheard' /\ \A d \in Client : ReadyInv(d)'
  <2>1. Moves(c)
    BY <1>5, JoinMoves, PacketMoves DEF CliReceive
  <2>2. QED
    BY <2>1, MovesKeep
<1>6. ASSUME NEW c \in Client, CliRun(c) \/ Connect(c) \/ CliQuit(c) \/ Diverge(c) \/ \E t \in Tool : CliTool(c, t)
      PROVE  Unheard' /\ \A d \in Client : ReadyInv(d)'
  <2>1. Moves(c)
    BY <1>6, RunMoves, WorkMoves
  <2>2. QED
    BY <2>1, MovesKeep
<1>7. QED
  BY <1>1, <1>2, <1>3, <1>4, <1>5, <1>6 DEF Next, SrvStep

\* Nothing is under way, and nothing is to be executed.
LEMMA ReadyInit == Init => Unheard /\ \A d \in Client : ReadyInv(d)
<1>1. ASSUME Init PROVE Unheard /\ \A d \in Client : ReadyInv(d)
  <2>1. sQueue = <<>> /\ \A d \in Client : slot[d] = "inactive"
    BY <1>1 DEF Init
  <2>2. QED
    BY <2>1 DEF Unheard, ReadyInv, Active, Due
<1>2. QED
  BY <1>1

\* Only its NWC_READY can get a client disconnected for its map counter.
LEMMA OnlyReadyForgets ==
    ASSUME TypeOK, [Next]_vars, NEW c \in Client, IsClean(c), why[c] # "forgotten", why'[c] = "forgotten"
    PROVE  SrvReceiveReady(c) /\ Kick(c, "forgotten")
<1> USE DEF serverVars, wireVars, ghostVars
<1>1. CASE UNCHANGED vars \/ SrvStep \/ SrvForceSync \/ \E t \in Tool : SrvTool(t)
  <2>1. why' = why
    BY <1>1 DEF vars, SrvStep, SrvFlush, SrvExecuteTool, SrvExecuteSync, SrvFrame, SrvIdle, SrvForceSync,
                SrvTool, SrvReload
  <2>2. QED
    BY <2>1
<1>2. ASSUME NEW d \in Client, NEW reason, why' = [why EXCEPT ![d] = reason], reason # "forgotten" PROVE FALSE
  BY <1>2 DEF TypeOK
<1>3. ASSUME NEW d \in Client, NEW reason, LeaveNow(d, reason), reason \in {"ok", "late", "desync", "map"} PROVE FALSE
  BY <1>3 DEF LeaveNow, TypeOK
<1>4. ASSUME NEW d \in Client, SrvReceive(d) PROVE SrvReceiveReady(c) /\ Kick(c, "forgotten")
  <2>1. CASE SrvReceiveReady(d)
    <3>1. Kick(d, "kicked") \/ Kick(d, "forgotten") \/ why' = why
      BY <2>1 DEF SrvReceiveReady
    <3>2. Kick(d, "forgotten")
      BY <1>2, <3>1 DEF Kick
    <3>3. why' = [why EXCEPT ![d] = "forgotten"]
      BY <3>2 DEF Kick
    <3>4. d = c
      BY <3>3 DEF TypeOK
    <3>5. QED
      BY <2>1, <3>2, <3>4
  <2>2. CASE SrvReceiveTool(d)
    <3>1. Kick(d, "kicked") \/ why' = why
      BY <2>2 DEF SrvReceiveTool
    <3>2. QED
      BY <1>2, <3>1 DEF Kick
  <2>3. CASE SrvReceiveJoin(d) \/ SrvReceiveEOF(d)
    <3>1. why' = why
      BY <2>3 DEF SrvReceiveJoin, SrvReceiveEOF
    <3>2. QED
      BY <3>1
  <2>4. QED
    BY <1>4, <2>1, <2>2, <2>3 DEF SrvReceive
<1>5. ASSUME NEW d \in Client, CliReceive(d) \/ CliRun(d) PROVE FALSE
  <2>1. \/ why' = why
        \/ \E reason \in {"ok", "late", "desync", "map"} : LeaveNow(d, reason)
    <3>1. CASE CliJoin(d) \/ CliSync(d) \/ CliGame(d) \/ CliDiscard(d) \/ CliStep(d) \/ CliEOF(d)
      BY <3>1 DEF CliJoin, CliSync, CliGame, CliDiscard, CliStep, CliEOF, Leave, CliBecomes
    <3>2. CASE CliCommand(d) \/ CliReady(d)
      BY <3>2 DEF CliCommand, CliReady, Leave, CliBecomes
    <3>3. CASE CliRun(d)
      BY <3>3 DEF CliRun, CliExecuteCheck, CliExecuteTool, CliExecuteSync, CliFrame, Leave, Executes, CliBecomes
    <3>4. QED
      BY <1>5, <3>1, <3>2, <3>3 DEF CliReceive
  <2>2. QED
    BY <1>3, <2>1
<1>6. ASSUME NEW d \in Client, Connect(d) \/ CliQuit(d) \/ Diverge(d) \/ \E t \in Tool : CliTool(d, t) PROVE FALSE
  <2>1. CASE Connect(d)
    BY <1>2, <2>1 DEF Connect
  <2>2. CASE CliQuit(d)
    BY <1>3, <2>2 DEF CliQuit
  <2>3. CASE Diverge(d) \/ \E t \in Tool : CliTool(d, t)
    BY <2>3 DEF Diverge, CliTool
  <2>4. QED
    BY <1>6, <2>1, <2>2, <2>3
<1>7. QED
  BY <1>1, <1>4, <1>5, <1>6 DEF Next

\* A clean client is disconnected for its map counter only because that is older
\* than all that nwc_ready_t remembers, when it remembers as many as it can: its
\* NWC_READY never overtakes the server's own NWC_SYNC.
THEOREM ForgottenIsOldTheorem == Spec => ForgottenIsOld
<1> DEFINE Old(c) == /\ Len(allMaps) = MaxMapCounters
                     /\ \A i \in DOMAIN allMaps : Head(toServer[c]).map < allMaps[i]
           Forgets(c) == IsClean(c) /\ why[c] # "forgotten" /\ why'[c] = "forgotten"
           I == Unheard /\ \A d \in Client : ReadyInv(d)
<1>1. ASSUME TypeOK, LockstepInv, WorldInv, I, [Next]_vars, NEW c \in Client, Forgets(c)
      PROVE  Old(c)
  <2>1. SrvReceiveReady(c) /\ IsClean(c)
    BY <1>1, OnlyReadyForgets
  <2>2. PICK r : r = Head(toServer[c])
    OBVIOUS
  <2>3. /\ toServer[c] # <<>> /\ r.kind = "ready" /\ loop = "receive" /\ Active(c)
    BY <2>1, <2>2 DEF SrvReceiveReady, Received, Active
  <2>4. toServer[c] \in Seq(ClientPacket) /\ r = toServer[c][1] /\ 1 \in DOMAIN toServer[c] /\ r \in ClientPacket
    <3>1. toServer[c] \in Seq(ClientPacket)
      BY <1>1, ClientTypes
    <3>2. QED
      BY <2>2, <2>3, <3>1, TailFacts
  <2>5. Entered(r.map, r.step, allMaps, sQueue)
    BY <1>1, <2>1, <2>3, <2>4 DEF ReadyInv
  <2>6. ~\E i \in DOMAIN allMaps : allMaps[i] = r.map
    <3>1. why' # why
      BY <1>1
    <3>2. Kick(c, "forgotten") /\ SrvReceiveReady(c)
      BY <1>1, OnlyReadyForgets
    <3>3. ~Kick(c, "kicked")
      <4>1. "kicked" # "forgotten"
        OBVIOUS
      <4>2. SUFFICES ASSUME Kick(c, "kicked") PROVE FALSE
        OBVIOUS
      <4>3. why'[c] = "kicked"
        BY <1>1, <4>2 DEF Kick, TypeOK
      <4>4. QED
        BY <1>1, <4>3
    <3>4. SUFFICES ASSUME \E i \in DOMAIN allMaps : allMaps[i] = r.map PROVE FALSE
      OBVIOUS
    <3>5. why' = why
      BY <2>1, <2>2, <3>3, <3>4 DEF SrvReceiveReady, ghostVars
    <3>6. QED
      BY <3>1, <3>5
  <2>7. CASE Recalled(r.map, allMaps)
    BY <2>2, <2>6, <2>7 DEF Recalled
  <2>8. CASE NextSync(sQueue, r.map, r.step)
    <3>1. /\ sQueue \in Seq(WorldCmd) /\ sStep \in Nat /\ Sorted(sQueue)
          /\ \A i \in DOMAIN sQueue : sQueue[i].step \in Nat /\ sStep <= sQueue[i].step
      BY <1>1, QueueFacts
    <3>2. r.step \in Nat /\ r.step <= sStep
      <4>1. r.step \in Nat
        BY <2>3, <2>4, ClockFacts
      <4>2. r.step <= sStep
        BY <1>1, <2>3, <2>4 DEF LockstepInv, ClientInv, ChannelInv
      <4>3. QED
        BY <4>1, <4>2
    <3>3. sQueue # <<>>
      BY <2>8 DEF NextSync
    <3>4. Due(sQueue, r.step)
      BY <2>8, <3>1, <3>2, <3>3, NextSyncTail
    <3>5. Head(sQueue).step <= r.step /\ Head(sQueue).step \in Nat /\ sStep <= Head(sQueue).step
      <4>1. Head(sQueue) = sQueue[1] /\ 1 \in DOMAIN sQueue
        BY <3>1, <3>3, TailFacts
      <4>2. QED
        BY <3>1, <3>4, <4>1 DEF Due
    <3>6. Due(sQueue, sStep)
      <4>1. Head(sQueue).step <= sStep
        BY <3>1, <3>2, <3>5
      <4>2. QED
        BY <3>3, <4>1 DEF Due
    <3>7. r.step < sStep
      BY <1>1, <2>3, <2>4, <3>6 DEF Unheard, Behind
    <3>8. QED
      BY <3>1, <3>2, <3>5, <3>7
  <2>9. QED
    BY <2>5, <2>7, <2>8 DEF Entered
<1>2. TypeOK /\ LockstepInv /\ WorldInv /\ I /\ [Next]_vars => [\A c \in Client : Forgets(c) => Old(c)]_vars
  BY <1>1
<1>3. [\A c \in Client : Forgets(c) => Old(c)]_vars =>
      [\A c \in Client : IsClean(c) /\ why[c] # "forgotten" /\ why'[c] = "forgotten" =>
          /\ Len(allMaps) = MaxMapCounters
          /\ \A i \in DOMAIN allMaps : Head(toServer[c]).map < allMaps[i]]_vars
  OBVIOUS
<1>4. Init => I
  BY ReadyInit
<1>5. TypeOK /\ TypeOK' /\ LockstepInv /\ PausedOnlyWhenEmpty /\ WorldInv /\ I /\ [Next]_vars => I'
  BY ReadyStep
<1> HIDE DEF Old, Forgets, I
<1>6. Spec => ForgottenIsOld
  BY <1>2, <1>3, <1>4, <1>5, WorldInvariant, TypeInit, TypeStep, LockstepInit, LockstepStep,
     PausedOnlyWhenEmptyTheorem, PTL DEF Spec, ForgottenIsOld
<1>7. QED
  BY <1>6

=============================================================================
