------------------------------ MODULE CommandLog ------------------------------
(***************************************************************************)
(* The log of the commands of a network game: those the server has done    *)
(* and those it will do of what is queued.  Every world and every checklist *)
(* is that of a prefix of the log.  What is on its way to a client, behind *)
(* its own queue, follows the log: the commands of the log that the client *)
(* has not done yet are all there, in order, and every other one is        *)
(* superseded by an NWC_SYNC before it, so that its map counter is wrong    *)
(* by the time it comes up.  The lemmas of this module say how that         *)
(* survives what happens to the log and to the packets; SameWorldProofs     *)
(* applies them to the steps of the game.                                  *)
(***************************************************************************)
EXTENDS LockstepProofs, SequenceTheorems

-----------------------------------------------------------------------------
(* The log. *)

LogCmd == ToolCmd \cup SyncCmd
IsCommand(p) == p.kind \in {"tool", "sync", "check"}

\* What a command does to the world, and the map counter it leaves behind.
What(x) == IF x.kind = "sync" THEN Reload ELSE x.tool
NextMap(x) == IF x.kind = "sync" THEN x.newMap ELSE x.map

\* After the first n commands of the log L: the map counter and the world.
MapAt(L, n) == IF n = 0 THEN 1 ELSE NextMap(L[n])
WorldOf(L, n) == [i \in 1 .. n |-> Done(L[i].step, What(L[i]))]

\* The commands of the log are in the order of their steps, each is of the world
\* that the one before it left, and an NWC_SYNC leaves a newer one.
LogOK(L) ==
    /\ \A i \in DOMAIN L : /\ L[i].map = MapAt(L, i - 1)
                           /\ L[i].kind = "sync" => L[i].map < L[i].newMap
    /\ \A i, j \in DOMAIN L : i < j => NextMap(L[i]) <= L[j].map /\ L[i].step <= L[j].step

\* w is the checklist of step s: it was taken before the commands of that step.
Chk(L, s, w) ==
    IF s = 0 THEN w = Blank
    ELSE \E k \in 0 .. Len(L) : /\ w = WorldOf(L, k)
                                /\ \A i \in 1 .. k : L[i].step < s
                                /\ \A i \in k + 1 .. Len(L) : L[i].step >= s

\* The packets P lead along the log L from its position n.  f is the position in
\* the log of each packet, 0 of one that is none of its commands: of the steps in
\* N, a command is of the log, or superseded by an NWC_SYNC of the same world,
\* done already or met before; the order is that of the log; none is missing.
FollowBy(f, P, L, n, N) ==
    /\ \A p \in DOMAIN P : f[p] # 0 => f[p] > n /\ Stamped(P[p]) /\ P[p] = L[f[p]]
    /\ \A p \in DOMAIN P : Stamped(P[p]) /\ P[p].step \in N /\ f[p] = 0 =>
          \E k \in DOMAIN L :
             /\ L[k].kind = "sync" /\ L[k].map = P[p].map /\ L[k].step <= P[p].step
             /\ k <= n \/ \E b \in DOMAIN P : b < p /\ f[b] = k
    /\ \A p, r \in DOMAIN P : p < r /\ f[p] # 0 /\ f[r] # 0 => f[p] < f[r]
    /\ \A i \in DOMAIN L : i > n /\ L[i].step \in N => \E p \in DOMAIN P : f[p] = i
Follow(P, L, n, N) == \E f \in [DOMAIN P -> 0 .. Len(L)] : FollowBy(f, P, L, n, N)

\* Steps that are near: with a step, all the earlier ones.
Downward(N) == N \subseteq Nat /\ \A s \in N, r \in Nat : r <= s => r \in N

-----------------------------------------------------------------------------
(* Worlds and checklists. *)

\* The commands of the log are typed, and so are their maps and their steps.
LEMMA LogFacts ==
    ASSUME NEW L \in Seq(LogCmd)
    PROVE  /\ Len(L) \in Nat /\ DOMAIN L = 1 .. Len(L)
           /\ \A i \in DOMAIN L : /\ L[i] \in LogCmd /\ L[i] \in WorldCmd
                                  /\ L[i].step \in Nat /\ L[i].map \in Nat /\ Stamped(L[i])
                                  /\ NextMap(L[i]) \in Nat
                                  /\ What(L[i]) \in Tool \cup {Reload}
                                  /\ L[i].kind = "sync" => L[i].newMap \in Nat
           /\ \A n \in 0 .. Len(L) : MapAt(L, n) \in Nat
<1>1. \A x \in LogCmd : /\ x \in WorldCmd /\ x.step \in Nat /\ x.map \in Nat /\ Stamped(x)
                        /\ NextMap(x) \in Nat /\ What(x) \in Tool \cup {Reload}
                        /\ x.kind = "sync" => x.newMap \in Nat
  BY DEF LogCmd, ToolCmd, SyncCmd, WorldCmd, Stamped, NextMap, What
<1>2. /\ Len(L) \in Nat /\ DOMAIN L = 1 .. Len(L) /\ \A i \in DOMAIN L : L[i] \in LogCmd
  OBVIOUS
<1>3. \A n \in 0 .. Len(L) : MapAt(L, n) \in Nat
  BY <1>1, <1>2 DEF MapAt
<1>4. QED
  BY <1>1, <1>2, <1>3

\* The world of a prefix of the log has the length of the prefix, and depends on
\* nothing else.
LEMMA WorldOfFacts ==
    ASSUME NEW L \in Seq(LogCmd), NEW n \in 0 .. Len(L)
    PROVE  /\ WorldOf(L, n) \in World /\ Len(WorldOf(L, n)) = n
           /\ \A i \in 1 .. n : WorldOf(L, n)[i] = Done(L[i].step, What(L[i]))
           /\ \A M : (\A i \in 1 .. n : M[i] = L[i]) => WorldOf(M, n) = WorldOf(L, n)
<1>1. n \in Nat /\ \A i \in 1 .. n : i \in DOMAIN L
  OBVIOUS
<1>2. \A i \in 1 .. n : Done(L[i].step, What(L[i])) \in Entry
  BY <1>1, LogFacts DEF Done, Entry
<1>3. WorldOf(L, n) \in Seq(Entry) /\ Len(WorldOf(L, n)) = n
  BY <1>1, <1>2 DEF WorldOf
<1>4. QED
  BY <1>3 DEF WorldOf, World

\* Doing the next command of the log.
LEMMA WorldOfNext ==
    ASSUME NEW L \in Seq(LogCmd), NEW n \in 0 .. Len(L), n < Len(L)
    PROVE  Append(WorldOf(L, n), Done(L[n + 1].step, What(L[n + 1]))) = WorldOf(L, n + 1)
<1> DEFINE e == Done(L[n + 1].step, What(L[n + 1]))
           a == Append(WorldOf(L, n), e)
           b == WorldOf(L, n + 1)
<1>1. /\ n \in Nat /\ n + 1 \in 0 .. Len(L) /\ WorldOf(L, n) \in Seq(Entry)
      /\ Len(WorldOf(L, n)) = n
  BY WorldOfFacts DEF World
<1>2. e \in Entry
  BY <1>1, LogFacts DEF Done, Entry
<1>3. b \in Seq(Entry) /\ Len(b) = n + 1 /\ \A i \in 1 .. n + 1 : b[i] = Done(L[i].step, What(L[i]))
  BY <1>1, WorldOfFacts DEF World
<1>4. \A i \in 1 .. n : WorldOf(L, n)[i] = Done(L[i].step, What(L[i]))
  BY WorldOfFacts
<1> HIDE DEF b
<1>5. a \in Seq(Entry) /\ Len(a) = n + 1 /\ \A i \in 1 .. n + 1 : a[i] = b[i]
  <2> DEFINE w == WorldOf(L, n)
  <2>1. w \in Seq(Entry) /\ Len(w) = n /\ \A i \in 1 .. n : w[i] = b[i]
    BY <1>1, <1>3, <1>4
  <2>2. e = b[n + 1]
    BY <1>1, <1>3
  <2> HIDE DEF w, e
  <2>3. Append(w, e) \in Seq(Entry) /\ Len(Append(w, e)) = n + 1
        /\ \A i \in 1 .. n + 1 : Append(w, e)[i] = b[i]
    BY <1>1, <1>2, <2>1, <2>2
  <2>4. QED
    BY <2>3 DEF w, e
<1> HIDE DEF a
<1>6. a = b
  BY <1>1, <1>3, <1>5
<1>7. QED
  BY <1>6 DEF a, b

\* Two checklists of the same step are the same.
LEMMA ChkUnique ==
    ASSUME NEW L \in Seq(LogCmd), NEW s \in Nat, NEW v, NEW w, Chk(L, s, v), Chk(L, s, w)
    PROVE  v = w
<1>1. CASE s = 0
  BY <1>1 DEF Chk
<1>2. CASE s # 0
  <2>1. PICK j \in 0 .. Len(L) : /\ v = WorldOf(L, j) /\ \A i \in 1 .. j : L[i].step < s
                                 /\ \A i \in j + 1 .. Len(L) : L[i].step >= s
    BY <1>2 DEF Chk
  <2>2. PICK k \in 0 .. Len(L) : /\ w = WorldOf(L, k) /\ \A i \in 1 .. k : L[i].step < s
                                 /\ \A i \in k + 1 .. Len(L) : L[i].step >= s
    BY <1>2 DEF Chk
  <2>3. \A i \in 1 .. Len(L) : L[i].step \in Nat
    BY LogFacts
  <2>4. ~(j < k)
    <3> SUFFICES ASSUME j < k PROVE FALSE
      OBVIOUS
    <3>1. j + 1 \in 1 .. k /\ j + 1 \in j + 1 .. Len(L) /\ j + 1 \in 1 .. Len(L)
      OBVIOUS
    <3>2. QED
      BY <2>1, <2>2, <2>3, <3>1
  <2>5. ~(k < j)
    <3> SUFFICES ASSUME k < j PROVE FALSE
      OBVIOUS
    <3>1. k + 1 \in 1 .. j /\ k + 1 \in k + 1 .. Len(L) /\ k + 1 \in 1 .. Len(L)
      OBVIOUS
    <3>2. QED
      BY <2>1, <2>2, <2>3, <3>1
  <2>6. QED
    BY <2>1, <2>2, <2>4, <2>5
<1>3. QED
  BY <1>1, <1>2

\* The log M is L up to k, and behind that both have commands of later steps.
Revises(M, L, k, s) ==
    /\ k \in 0 .. Len(L) /\ k <= Len(M)
    /\ \A i \in 1 .. k : M[i] = L[i]
    /\ \A i \in k + 1 .. Len(L) : L[i].step >= s
    /\ \A i \in k + 1 .. Len(M) : M[i].step >= s

\* A checklist taken before the log was revised is still right.
LEMMA ChkKept ==
    ASSUME NEW L \in Seq(LogCmd), NEW M \in Seq(LogCmd), NEW k, NEW z \in Nat, Revises(M, L, k, z),
           NEW s \in Nat, s <= z, NEW w, Chk(L, s, w)
    PROVE  Chk(M, s, w)
<1>1. CASE s = 0
  BY <1>1 DEF Chk
<1>2. CASE s # 0
  <2>1. PICK j \in 0 .. Len(L) : /\ w = WorldOf(L, j) /\ \A i \in 1 .. j : L[i].step < s
                                 /\ \A i \in j + 1 .. Len(L) : L[i].step >= s
    BY <1>2 DEF Chk
  <2>2. /\ k \in Nat /\ k <= Len(L) /\ k <= Len(M) /\ Len(L) \in Nat /\ Len(M) \in Nat
        /\ \A i \in 1 .. Len(L) : L[i].step \in Nat
        /\ \A i \in 1 .. Len(M) : M[i].step \in Nat
    BY LogFacts DEF Revises
  <2>3. j <= k
    <3> SUFFICES ASSUME k < j PROVE FALSE
      BY <2>2
    <3>1. k + 1 \in 1 .. j /\ k + 1 \in k + 1 .. Len(L) /\ k + 1 \in 1 .. Len(L)
      BY <2>2
    <3>2. QED
      BY <2>1, <2>2, <3>1 DEF Revises
  <2>4. \A i \in 1 .. j : i \in 1 .. k /\ M[i] = L[i]
    BY <2>2, <2>3 DEF Revises
  <2>5. w = WorldOf(M, j)
    BY <2>1, <2>4, WorldOfFacts
  <2>6. \A i \in j + 1 .. Len(M) : M[i].step >= s
    <3> SUFFICES ASSUME NEW i \in j + 1 .. Len(M) PROVE M[i].step >= s
      OBVIOUS
    <3>1. CASE i <= k
      <4>1. i \in 1 .. k /\ i \in j + 1 .. Len(L)
        BY <2>2, <3>1
      <4>2. QED
        BY <2>1, <4>1 DEF Revises
    <3>2. CASE i > k
      <4>1. i \in k + 1 .. Len(M) /\ i \in 1 .. Len(M)
        BY <2>2, <3>2
      <4>2. QED
        BY <2>2, <4>1 DEF Revises
    <3>3. QED
      BY <2>2, <3>1, <3>2
  <2>7. j \in 0 .. Len(M)
    BY <2>2, <2>3
  <2>8. QED
    BY <1>2, <2>1, <2>4, <2>5, <2>6, <2>7 DEF Chk
<1>3. QED
  BY <1>1, <1>2

-----------------------------------------------------------------------------
(* How the log grows. *)

\* The first k commands of the log.
Cut(L, k) == [i \in 1 .. k |-> L[i]]

\* Cutting the log.
LEMMA CutFacts ==
    ASSUME NEW L \in Seq(LogCmd), NEW k \in 0 .. Len(L)
    PROVE  /\ Cut(L, k) \in Seq(LogCmd) /\ Len(Cut(L, k)) = k
           /\ \A i \in 1 .. k : Cut(L, k)[i] = L[i]
           /\ LogOK(L) => LogOK(Cut(L, k))
           /\ \A n \in 0 .. k : MapAt(Cut(L, k), n) = MapAt(L, n)
<1>1. k \in Nat /\ \A i \in 1 .. k : i \in DOMAIN L /\ L[i] \in LogCmd
  OBVIOUS
<1>2. /\ Cut(L, k) \in Seq(LogCmd) /\ Len(Cut(L, k)) = k
      /\ \A i \in 1 .. k : Cut(L, k)[i] = L[i]
  BY <1>1 DEF Cut
<1>3. \A n \in 0 .. k : MapAt(Cut(L, k), n) = MapAt(L, n)
  BY <1>1, <1>2 DEF MapAt
<1>4. ASSUME LogOK(L) PROVE LogOK(Cut(L, k))
  <2> DEFINE M == Cut(L, k)
  <2>1. DOMAIN M = 1 .. k /\ \A i \in 1 .. k : M[i] = L[i] /\ i \in DOMAIN L /\ i - 1 \in 0 .. k
    BY <1>1, <1>2
  <2>2. \A i \in 1 .. k : MapAt(M, i - 1) = MapAt(L, i - 1)
    BY <1>3, <2>1
  <2> HIDE DEF M
  <2>3. LogOK(M)
    BY <1>4, <2>1, <2>2 DEF LogOK
  <2>4. QED
    BY <2>3 DEF M
<1>5. QED
  BY <1>2, <1>3, <1>4

\* A new command at the end of the log.
LEMMA LogAppend ==
    ASSUME NEW L \in Seq(LogCmd), LogOK(L), NEW x \in LogCmd, x.map = MapAt(L, Len(L)),
           x.kind = "sync" => x.map < x.newMap,
           \A i \in DOMAIN L : L[i].step <= x.step
    PROVE  /\ Append(L, x) \in Seq(LogCmd) /\ LogOK(Append(L, x)) /\ Len(Append(L, x)) = Len(L) + 1
           /\ Append(L, x)[Len(L) + 1] = x /\ \A i \in DOMAIN L : Append(L, x)[i] = L[i]
           /\ \A n \in 0 .. Len(L) : MapAt(Append(L, x), n) = MapAt(L, n)
<1> DEFINE M == Append(L, x)
           z == Len(L)
<1>1. /\ M \in Seq(LogCmd) /\ Len(M) = z + 1 /\ M[z + 1] = x /\ \A i \in 1 .. z : M[i] = L[i]
      /\ z \in Nat /\ DOMAIN L = 1 .. z
  OBVIOUS
<1> HIDE DEF M
<1>2. \A n \in 0 .. z : MapAt(M, n) = MapAt(L, n)
  BY <1>1 DEF MapAt
<1>3. \A i \in 1 .. z : NextMap(L[i]) <= x.map
  <2> SUFFICES ASSUME NEW i \in 1 .. z PROVE NextMap(L[i]) <= x.map
    OBVIOUS
  <2>1. x.map = NextMap(L[z]) /\ z \in DOMAIN L
    BY <1>1 DEF MapAt
  <2>2. /\ NextMap(L[i]) \in Nat /\ L[z].map \in Nat /\ NextMap(L[z]) \in Nat
        /\ L[z].kind = "sync" => L[z].newMap \in Nat
    BY <1>1, <2>1, LogFacts
  <2>3. L[z].map <= NextMap(L[z])
    BY <1>1, <2>1, <2>2 DEF LogOK, NextMap
  <2>4. CASE i = z
    BY <2>1, <2>2, <2>4
  <2>5. CASE i < z
    <3>1. NextMap(L[i]) <= L[z].map
      BY <1>1, <2>1, <2>5 DEF LogOK
    <3>2. QED
      BY <2>1, <2>2, <2>3, <3>1
  <2>6. i < z \/ i = z
    OBVIOUS
  <2>7. QED
    BY <2>4, <2>5, <2>6
<1>4. ASSUME NEW i \in 1 .. z + 1
      PROVE  M[i].map = MapAt(M, i - 1) /\ (M[i].kind = "sync" => M[i].map < M[i].newMap)
  <2>1. CASE i = z + 1
    <3>1. i - 1 = z /\ z \in 0 .. z
      BY <1>1, <2>1
    <3>2. QED
      BY <1>1, <1>2, <2>1, <3>1
  <2>2. CASE i \in 1 .. z
    <3>1. i - 1 \in 0 .. z
      BY <1>1, <2>2
    <3>2. QED
      BY <1>1, <1>2, <2>2, <3>1 DEF LogOK
  <2>3. QED
    BY <1>1, <2>1, <2>2
<1>5. ASSUME NEW i \in 1 .. z + 1, NEW j \in 1 .. z + 1, i < j
      PROVE  NextMap(M[i]) <= M[j].map /\ M[i].step <= M[j].step
  <2>1. i \in 1 .. z /\ M[i] = L[i]
    BY <1>1, <1>5
  <2>2. CASE j = z + 1
    BY <1>1, <1>3, <2>1, <2>2
  <2>3. CASE j \in 1 .. z
    BY <1>1, <1>5, <2>1, <2>3 DEF LogOK
  <2>4. QED
    BY <1>1, <2>2, <2>3
<1>6. LogOK(M)
  <2>1. DOMAIN M = 1 .. z + 1
    BY <1>1
  <2>2. QED
    BY <1>4, <1>5, <2>1 DEF LogOK
<1>7. QED
  BY <1>1, <1>2, <1>6 DEF M

\* The next command of the log is of the world that was reached.
LEMMA LogNext ==
    ASSUME NEW L \in Seq(LogCmd), LogOK(L), NEW n \in 0 .. Len(L), n + 1 \in DOMAIN L
    PROVE  L[n + 1].map = MapAt(L, n)
<1>1. L[n + 1].map = MapAt(L, (n + 1) - 1)
  BY DEF LogOK
<1>2. (n + 1) - 1 = n
  OBVIOUS
<1>3. QED
  BY <1>1, <1>2

\* The map counter never returns to that of an NWC_SYNC in the log.
LEMMA MapGrows ==
    ASSUME NEW L \in Seq(LogCmd), LogOK(L), NEW n \in 0 .. Len(L), NEW k \in 1 .. n
    PROVE  /\ NextMap(L[k]) <= MapAt(L, n) /\ L[k].map <= NextMap(L[k])
           /\ L[k].kind = "sync" => L[k].map < MapAt(L, n)
<1>1. /\ n \in DOMAIN L /\ k \in DOMAIN L /\ MapAt(L, n) = NextMap(L[n]) /\ n \in Nat /\ k \in Nat
  BY LogFacts DEF MapAt
<1>2. /\ L[k].map \in Nat /\ NextMap(L[k]) \in Nat /\ L[n].map \in Nat /\ NextMap(L[n]) \in Nat
  BY <1>1, LogFacts
<1>3. \A i \in {k, n} : L[i].map <= NextMap(L[i]) /\ (L[i].kind = "sync" => L[i].map < NextMap(L[i]))
  <2>1. \A i \in DOMAIN L : L[i].kind = "sync" => L[i].map < L[i].newMap /\ NextMap(L[i]) = L[i].newMap
    BY DEF LogOK, NextMap
  <2>2. \A i \in DOMAIN L : L[i].kind # "sync" => NextMap(L[i]) = L[i].map
    BY DEF NextMap
  <2>3. QED
    BY <1>1, <1>2, <2>1, <2>2
<1>4. CASE k = n
  BY <1>1, <1>2, <1>3, <1>4
<1>5. CASE k < n
  <2>1. NextMap(L[k]) <= L[n].map
    BY <1>1, <1>5 DEF LogOK
  <2>2. QED
    BY <1>1, <1>2, <1>3, <2>1
<1>6. QED
  BY <1>1, <1>4, <1>5

-----------------------------------------------------------------------------
(* What is on its way follows the log. *)

\* What FollowBy says of positions.
LEMMA FollowFacts ==
    ASSUME NEW P \in Seq(ServerPacket), NEW L \in Seq(LogCmd), NEW n \in 0 .. Len(L), NEW N,
           Follow(P, L, n, N)
    PROVE  \E f \in [DOMAIN P -> 0 .. Len(L)] :
              /\ FollowBy(f, P, L, n, N)
              /\ \A p \in DOMAIN P : f[p] \in Nat /\ (f[p] # 0 => f[p] \in DOMAIN L)
<1>1. PICK f \in [DOMAIN P -> 0 .. Len(L)] : FollowBy(f, P, L, n, N)
  BY DEF Follow
<1>2. \A p \in DOMAIN P : f[p] \in 0 .. Len(L)
  OBVIOUS
<1>3. \A i \in 0 .. Len(L) : i \in Nat /\ (i # 0 => i \in DOMAIN L)
  BY LogFacts
<1>4. QED
  BY <1>1, <1>2, <1>3

\* Packets of another kind come and go; commands go if their steps are not near.
\* g tells where the commands of Q are in P.
LEMMA FollowCarry ==
    ASSUME NEW P \in Seq(ServerPacket), NEW Q \in Seq(ServerPacket),
           NEW L \in Seq(LogCmd), NEW n \in 0 .. Len(L), NEW N, NEW O,
           Downward(O), O \subseteq N, Follow(P, L, n, N), NEW g,
           \A i \in DOMAIN Q : Stamped(Q[i]) => g[i] \in DOMAIN P /\ Q[i] = P[g[i]],
           \A i, j \in DOMAIN Q : i < j /\ Stamped(Q[i]) /\ Stamped(Q[j]) => g[i] < g[j],
           \A p \in DOMAIN P : Stamped(P[p]) /\ P[p].step \in O =>
              \E i \in DOMAIN Q : Stamped(Q[i]) /\ g[i] = p
    PROVE  Follow(Q, L, n, O)
<1>1. PICK f \in [DOMAIN P -> 0 .. Len(L)] :
         /\ FollowBy(f, P, L, n, N)
         /\ \A p \in DOMAIN P : f[p] \in Nat /\ (f[p] # 0 => f[p] \in DOMAIN L)
  BY FollowFacts
<1> DEFINE h == [i \in DOMAIN Q |-> IF Stamped(Q[i]) THEN f[g[i]] ELSE 0]
<1>2. h \in [DOMAIN Q -> 0 .. Len(L)]
  <2>1. 0 \in 0 .. Len(L)
    BY LogFacts
  <2>2. QED
    BY <2>1
<1>3. \A i \in DOMAIN Q : h[i] = IF Stamped(Q[i]) THEN f[g[i]] ELSE 0
  OBVIOUS
<1> HIDE DEF h
<1>4. /\ \A i \in DOMAIN Q : i \in Nat
      /\ \A p \in DOMAIN P : p \in Nat
  BY ONLY P \in Seq(ServerPacket), Q \in Seq(ServerPacket)
<1>5. \A i \in DOMAIN Q : h[i] # 0 => h[i] > n /\ Stamped(Q[i]) /\ Q[i] = L[h[i]]
  BY <1>1, <1>3 DEF FollowBy
<1>6. \A p \in DOMAIN P : f[p] # 0 => Stamped(P[p]) /\ P[p] = L[f[p]] /\ P[p].step = L[f[p]].step
  BY <1>1 DEF FollowBy
<1>7. ASSUME NEW i \in DOMAIN Q, Stamped(Q[i]), Q[i].step \in O, h[i] = 0
      PROVE  \E k \in DOMAIN L :
                /\ L[k].kind = "sync" /\ L[k].map = Q[i].map /\ L[k].step <= Q[i].step
                /\ k <= n \/ \E b \in DOMAIN Q : b < i /\ h[b] = k
  <2>1. g[i] \in DOMAIN P /\ Q[i] = P[g[i]] /\ Stamped(P[g[i]]) /\ P[g[i]].step \in N /\ f[g[i]] = 0
    BY <1>3, <1>7
  <2>2. PICK k \in DOMAIN L :
           /\ L[k].kind = "sync" /\ L[k].map = P[g[i]].map /\ L[k].step <= P[g[i]].step
           /\ k <= n \/ \E b \in DOMAIN P : b < g[i] /\ f[b] = k
    BY <1>1, <2>1 DEF FollowBy
  <2>3. CASE k <= n
    BY <2>1, <2>2, <2>3
  <2>4. ASSUME NEW b \in DOMAIN P, b < g[i], f[b] = k
        PROVE  \E a \in DOMAIN Q : a < i /\ h[a] = k
    <3>1. k # 0 /\ L[k].step \in Nat
      BY LogFacts
    <3>2. Stamped(P[b]) /\ P[b].step \in O
      <4>1. Stamped(P[b]) /\ P[b].step = L[k].step
        BY <1>6, <2>4, <3>1
      <4>2. L[k].step \in O
        BY <1>7, <2>1, <2>2, <3>1 DEF Downward
      <4>3. QED
        BY <4>1, <4>2
    <3>3. PICK a \in DOMAIN Q : Stamped(Q[a]) /\ g[a] = b
      BY <3>2
    <3>4. a < i
      <4>1. ~(i < a) /\ i # a
        BY <1>4, <1>7, <2>1, <2>4, <3>3
      <4>2. QED
        BY <1>4, <4>1
    <3>5. QED
      BY <1>3, <2>4, <3>3, <3>4
  <2>5. QED
    BY <2>1, <2>2, <2>3, <2>4
<1>8. ASSUME NEW i \in DOMAIN Q, NEW j \in DOMAIN Q, i < j, h[i] # 0, h[j] # 0
      PROVE  h[i] < h[j]
  <2>1. /\ Stamped(Q[i]) /\ Stamped(Q[j]) /\ h[i] = f[g[i]] /\ h[j] = f[g[j]]
        /\ g[i] \in DOMAIN P /\ g[j] \in DOMAIN P /\ g[i] < g[j]
    BY <1>3, <1>8
  <2>2. QED
    BY <1>1, <1>8, <2>1 DEF FollowBy
<1>9. ASSUME NEW k \in DOMAIN L, k > n, L[k].step \in O
      PROVE  \E i \in DOMAIN Q : h[i] = k
  <2>1. PICK p \in DOMAIN P : f[p] = k
    BY <1>1, <1>9 DEF FollowBy
  <2>2. k # 0
    BY LogFacts
  <2>3. Stamped(P[p]) /\ P[p].step \in O
    BY <1>6, <1>9, <2>1, <2>2
  <2>4. PICK i \in DOMAIN Q : Stamped(Q[i]) /\ g[i] = p
    BY <2>3
  <2>5. QED
    BY <1>3, <2>1, <2>4
<1>10. FollowBy(h, Q, L, n, O)
  BY <1>5, <1>7, <1>8, <1>9 DEF FollowBy
<1>11. QED
  BY <1>2, <1>10 DEF Follow

\* A command is queued that the log gets, too.
LEMMA FollowSend ==
    ASSUME NEW P \in Seq(ServerPacket), NEW L \in Seq(LogCmd), NEW n \in 0 .. Len(L), NEW N,
           Follow(P, L, n, N), NEW x \in LogCmd
    PROVE  Follow(Append(P, x), Append(L, x), n, N)
<1>1. PICK f \in [DOMAIN P -> 0 .. Len(L)] :
         /\ FollowBy(f, P, L, n, N)
         /\ \A p \in DOMAIN P : f[p] \in Nat /\ (f[p] # 0 => f[p] \in DOMAIN L)
  BY FollowFacts
<1> DEFINE M == Append(L, x)
           Q == Append(P, x)
           y == Len(L) + 1
           z == Len(P) + 1
           h == [i \in DOMAIN Q |-> IF i = z THEN y ELSE f[i]]
<1>2. /\ Len(L) \in Nat /\ Len(P) \in Nat /\ y \in Nat /\ z \in Nat /\ n < y /\ y # 0
      /\ Len(M) = y /\ DOMAIN M = DOMAIN L \cup {y} /\ DOMAIN Q = DOMAIN P \cup {z}
      /\ M[y] = x /\ Q[z] = x /\ Stamped(x)
      /\ \A i \in DOMAIN L : M[i] = L[i] /\ i < y /\ i \in Nat
      /\ \A p \in DOMAIN P : Q[p] = P[p] /\ p < z /\ p \in Nat
  <2>1. Stamped(x)
    BY DEF LogCmd, ToolCmd, SyncCmd, Stamped
  <2>2. QED
    BY <2>1
<1>3. /\ h[z] = y /\ \A p \in DOMAIN P : h[p] = f[p]
      /\ h \in [DOMAIN Q -> 0 .. y]
  <2>1. \A p \in DOMAIN P : f[p] \in 0 .. y /\ p # z
    BY <1>2
  <2>2. y \in 0 .. y /\ z \in DOMAIN Q /\ DOMAIN P \subseteq DOMAIN Q
    BY <1>2
  <2> HIDE DEF y, z, Q
  <2>3. \A p \in DOMAIN Q : p = z \/ p \in DOMAIN P
    BY <1>2
  <2>4. QED
    BY <2>1, <2>2, <2>3
<1> HIDE DEF M, Q, y, z, h
<1>4. \A p \in DOMAIN Q : h[p] # 0 => h[p] > n /\ Stamped(Q[p]) /\ Q[p] = M[h[p]]
  <2>1. \A p \in DOMAIN P : f[p] # 0 => f[p] > n /\ Stamped(P[p]) /\ P[p] = L[f[p]] /\ f[p] \in DOMAIN L
    BY <1>1 DEF FollowBy
  <2>2. QED
    BY <1>2, <1>3, <2>1
<1>5. ASSUME NEW p \in DOMAIN Q, Stamped(Q[p]), Q[p].step \in N, h[p] = 0
      PROVE  \E k \in DOMAIN M :
                /\ M[k].kind = "sync" /\ M[k].map = Q[p].map /\ M[k].step <= Q[p].step
                /\ k <= n \/ \E b \in DOMAIN Q : b < p /\ h[b] = k
  <2>1. p \in DOMAIN P /\ Q[p] = P[p] /\ f[p] = 0
    BY <1>2, <1>3, <1>5
  <2>2. PICK k \in DOMAIN L :
           /\ L[k].kind = "sync" /\ L[k].map = P[p].map /\ L[k].step <= P[p].step
           /\ k <= n \/ \E b \in DOMAIN P : b < p /\ f[b] = k
    BY <1>1, <1>5, <2>1 DEF FollowBy
  <2>3. k \in DOMAIN M /\ M[k] = L[k]
    BY <1>2
  <2>4. (\E b \in DOMAIN P : b < p /\ f[b] = k) => \E b \in DOMAIN Q : b < p /\ h[b] = k
    BY <1>2, <1>3
  <2>5. QED
    BY <2>1, <2>2, <2>3, <2>4
<1>6. ASSUME NEW p \in DOMAIN Q, NEW r \in DOMAIN Q, p < r, h[p] # 0, h[r] # 0
      PROVE  h[p] < h[r]
  <2>1. p \in DOMAIN P /\ h[p] = f[p] /\ f[p] \in DOMAIN L
    BY <1>1, <1>2, <1>3, <1>6
  <2>2. CASE r = z
    BY <1>2, <1>3, <2>1, <2>2
  <2>3. CASE r \in DOMAIN P
    BY <1>1, <1>3, <1>6, <2>1, <2>3 DEF FollowBy
  <2>4. QED
    BY <1>2, <2>2, <2>3
<1>7. ASSUME NEW i \in DOMAIN M, i > n, M[i].step \in N
      PROVE  \E p \in DOMAIN Q : h[p] = i
  <2>1. CASE i = y
    BY <1>2, <1>3, <2>1
  <2>2. CASE i \in DOMAIN L
    <3>1. PICK p \in DOMAIN P : f[p] = i
      BY <1>1, <1>2, <1>7, <2>2 DEF FollowBy
    <3>2. QED
      BY <1>2, <1>3, <3>1
  <2>3. QED
    BY <1>2, <2>1, <2>2
<1>8. FollowBy(h, Q, M, n, N)
  BY <1>4, <1>5, <1>6, <1>7 DEF FollowBy
<1>9. Follow(Q, M, n, N)
  BY <1>2, <1>3, <1>8 DEF Follow
<1>10. QED
  BY <1>9 DEF M, Q

\* A command is queued behind an NWC_SYNC of the same world, which is of the log
\* and near: it is superseded.
LEMMA FollowSuperseded ==
    ASSUME NEW P \in Seq(ServerPacket), NEW L \in Seq(LogCmd), NEW n \in 0 .. Len(L), NEW N,
           Follow(P, L, n, N), NEW x \in LogCmd,
           NEW k \in DOMAIN L, L[k].kind = "sync", L[k].map = x.map, L[k].step <= x.step,
           L[k].step \in N
    PROVE  Follow(Append(P, x), L, n, N)
<1>1. PICK f \in [DOMAIN P -> 0 .. Len(L)] :
         /\ FollowBy(f, P, L, n, N)
         /\ \A p \in DOMAIN P : f[p] \in Nat /\ (f[p] # 0 => f[p] \in DOMAIN L)
  BY FollowFacts
<1> DEFINE Q == Append(P, x)
           z == Len(P) + 1
           h == [i \in DOMAIN Q |-> IF i = z THEN 0 ELSE f[i]]
<1>2. /\ Len(P) \in Nat /\ z \in Nat /\ DOMAIN Q = DOMAIN P \cup {z} /\ Q[z] = x
      /\ \A p \in DOMAIN P : Q[p] = P[p] /\ p < z /\ p \in Nat
  <2>1. x \in ServerPacket
    BY DEF LogCmd, WorldCmd, ServerPacket
  <2>2. DOMAIN Q = DOMAIN P \cup {z} /\ Q[z] = x /\ \A p \in DOMAIN P : Q[p] = P[p] /\ p < z
    BY ONLY <2>1, P \in Seq(ServerPacket), AppendFacts
  <2>3. Len(P) \in Nat /\ z \in Nat /\ \A p \in DOMAIN P : p \in Nat
    BY ONLY P \in Seq(ServerPacket)
  <2>4. QED
    BY ONLY <2>2, <2>3
<1>3. /\ h[z] = 0 /\ \A p \in DOMAIN P : h[p] = f[p]
      /\ h \in [DOMAIN Q -> 0 .. Len(L)]
  <2>1. 0 \in 0 .. Len(L) /\ \A p \in DOMAIN P : f[p] \in 0 .. Len(L) /\ p # z
    BY <1>2, LogFacts
  <2> HIDE DEF z, Q
  <2>2. QED
    BY <1>2, <2>1
<1> HIDE DEF Q, z, h
<1>4. \A p \in DOMAIN Q : h[p] # 0 => h[p] > n /\ Stamped(Q[p]) /\ Q[p] = L[h[p]]
  BY <1>1, <1>2, <1>3 DEF FollowBy
<1>5. k <= n \/ \E b \in DOMAIN P : f[b] = k
  <2>1. k \in Nat /\ n \in Nat
    BY LogFacts
  <2>2. QED
    BY <1>1, <2>1 DEF FollowBy
<1>6. ASSUME NEW p \in DOMAIN Q, Stamped(Q[p]), Q[p].step \in N, h[p] = 0
      PROVE  \E j \in DOMAIN L :
                /\ L[j].kind = "sync" /\ L[j].map = Q[p].map /\ L[j].step <= Q[p].step
                /\ j <= n \/ \E b \in DOMAIN Q : b < p /\ h[b] = j
  <2>1. CASE p = z
    <3>1. k <= n \/ \E b \in DOMAIN Q : b < p /\ h[b] = k
      BY <1>2, <1>3, <1>5, <2>1
    <3>2. QED
      BY <1>2, <2>1, <3>1
  <2>2. CASE p \in DOMAIN P
    <3>1. Q[p] = P[p] /\ f[p] = 0
      BY <1>2, <1>3, <1>6, <2>2
    <3>2. PICK j \in DOMAIN L :
             /\ L[j].kind = "sync" /\ L[j].map = P[p].map /\ L[j].step <= P[p].step
             /\ j <= n \/ \E b \in DOMAIN P : b < p /\ f[b] = j
      BY <1>1, <1>6, <2>2, <3>1 DEF FollowBy
    <3>3. (\E b \in DOMAIN P : b < p /\ f[b] = j) => \E b \in DOMAIN Q : b < p /\ h[b] = j
      BY <1>2, <1>3
    <3>4. QED
      BY <3>1, <3>2, <3>3
  <2>3. QED
    BY <1>2, <2>1, <2>2
<1>7. \A p, r \in DOMAIN Q : p < r /\ h[p] # 0 /\ h[r] # 0 => h[p] < h[r]
  BY <1>1, <1>2, <1>3 DEF FollowBy
<1>8. \A i \in DOMAIN L : i > n /\ L[i].step \in N => \E p \in DOMAIN Q : h[p] = i
  <2>1. \A i \in DOMAIN L : i > n /\ L[i].step \in N => \E p \in DOMAIN P : f[p] = i
    BY <1>1 DEF FollowBy
  <2>2. QED
    BY <1>2, <1>3, <2>1
<1>9. FollowBy(h, Q, L, n, N)
  BY <1>4, <1>6, <1>7, <1>8 DEF FollowBy
<1>10. Follow(Q, L, n, N)
  BY <1>3, <1>9 DEF Follow
<1>11. QED
  BY <1>10 DEF Q

\* The log changes where it is not near.
LEMMA FollowRevised ==
    ASSUME NEW P \in Seq(ServerPacket), NEW L \in Seq(LogCmd), NEW M \in Seq(LogCmd),
           NEW k, NEW s \in Nat, Revises(M, L, k, s), NEW n \in 0 .. Len(L), n <= k, NEW N,
           \A r \in N : r < s, N \subseteq Nat, Follow(P, L, n, N)
    PROVE  Follow(P, M, n, N)
<1>1. PICK f \in [DOMAIN P -> 0 .. Len(L)] :
         /\ FollowBy(f, P, L, n, N)
         /\ \A p \in DOMAIN P : f[p] \in Nat /\ (f[p] # 0 => f[p] \in DOMAIN L)
  BY FollowFacts
<1> DEFINE h == [p \in DOMAIN P |-> IF f[p] <= k THEN f[p] ELSE 0]
<1>2. /\ k \in Nat /\ k <= Len(L) /\ k <= Len(M) /\ n \in Nat
      /\ Len(L) \in Nat /\ Len(M) \in Nat /\ DOMAIN L = 1 .. Len(L) /\ DOMAIN M = 1 .. Len(M)
      /\ \A i \in 1 .. k : M[i] = L[i] /\ i \in DOMAIN L /\ i \in DOMAIN M
      /\ \A i \in DOMAIN L : L[i].step \in Nat
      /\ \A i \in DOMAIN M : M[i].step \in Nat
  BY LogFacts DEF Revises
<1>3. ASSUME NEW i \in DOMAIN L, L[i].step \in N PROVE i \in 1 .. k
  <2>1. i \in 1 .. Len(L) /\ L[i].step \in Nat /\ L[i].step < s
    BY <1>2, <1>3
  <2>2. i \in k + 1 .. Len(L) => L[i].step >= s
    BY DEF Revises
  <2>3. QED
    BY <1>2, <2>1, <2>2
<1>4. ASSUME NEW i \in DOMAIN M, M[i].step \in N PROVE i \in 1 .. k
  <2>1. i \in 1 .. Len(M) /\ M[i].step \in Nat /\ M[i].step < s
    BY <1>2, <1>4
  <2>2. i \in k + 1 .. Len(M) => M[i].step >= s
    BY DEF Revises
  <2>3. QED
    BY <1>2, <2>1, <2>2
<1>5. \A p \in DOMAIN P : /\ h[p] = IF f[p] <= k THEN f[p] ELSE 0
                          /\ h[p] \in 0 .. Len(M)
                          /\ h[p] # 0 => h[p] = f[p] /\ h[p] \in 1 .. k
                          /\ f[p] \in 1 .. k => h[p] = f[p]
  <2> SUFFICES ASSUME NEW p \in DOMAIN P
               PROVE  /\ h[p] = IF f[p] <= k THEN f[p] ELSE 0
                      /\ h[p] \in 0 .. Len(M)
                      /\ h[p] # 0 => h[p] = f[p] /\ h[p] \in 1 .. k
                      /\ f[p] \in 1 .. k => h[p] = f[p]
    OBVIOUS
  <2>1. h[p] = (IF f[p] <= k THEN f[p] ELSE 0) /\ f[p] \in Nat
    BY <1>1
  <2> HIDE DEF h
  <2>2. k \in Nat /\ Len(M) \in Nat /\ k <= Len(M)
    BY <1>2
  <2>3. QED
    BY <2>1, <2>2
<1>6. h \in [DOMAIN P -> 0 .. Len(M)]
  BY <1>5
<1> HIDE DEF h
<1>7. \A p \in DOMAIN P : h[p] # 0 => h[p] > n /\ Stamped(P[p]) /\ P[p] = M[h[p]]
  BY <1>1, <1>2, <1>5 DEF FollowBy
<1>8. ASSUME NEW p \in DOMAIN P, Stamped(P[p]), P[p].step \in N, h[p] = 0
      PROVE  \E j \in DOMAIN M :
                /\ M[j].kind = "sync" /\ M[j].map = P[p].map /\ M[j].step <= P[p].step
                /\ j <= n \/ \E b \in DOMAIN P : b < p /\ h[b] = j
  <2>1. f[p] = 0
    <3> SUFFICES ASSUME f[p] # 0 PROVE FALSE
      OBVIOUS
    <3>1. f[p] \in DOMAIN L /\ P[p] = L[f[p]]
      BY <1>1 DEF FollowBy
    <3>2. f[p] \in 1 .. k
      BY <1>3, <1>8, <3>1
    <3>3. QED
      BY <1>2, <1>5, <1>8, <3>2
  <2>2. PICK j \in DOMAIN L :
           /\ L[j].kind = "sync" /\ L[j].map = P[p].map /\ L[j].step <= P[p].step
           /\ j <= n \/ \E b \in DOMAIN P : b < p /\ f[b] = j
    BY <1>1, <1>8, <2>1 DEF FollowBy
  <2>3. j \in 1 .. k
    <3>1. P[p].step \in Nat /\ P[p].step < s
      BY <1>8
    <3>2. L[j].step \in Nat /\ L[j].step <= P[p].step
      BY <1>2, <2>2
    <3>3. L[j].step < s
      BY <3>1, <3>2
    <3>4. QED
      BY <1>2, <3>2, <3>3 DEF Revises
  <2>4. QED
    BY <1>2, <1>5, <2>2, <2>3
<1>9. \A p, r \in DOMAIN P : p < r /\ h[p] # 0 /\ h[r] # 0 => h[p] < h[r]
  BY <1>1, <1>5 DEF FollowBy
<1>10. ASSUME NEW i \in DOMAIN M, i > n, M[i].step \in N
       PROVE  \E p \in DOMAIN P : h[p] = i
  <2>1. i \in 1 .. k /\ L[i] = M[i] /\ i \in DOMAIN L
    BY <1>2, <1>4, <1>10
  <2>2. PICK p \in DOMAIN P : f[p] = i
    BY <1>1, <1>10, <2>1 DEF FollowBy
  <2>3. QED
    BY <1>5, <2>1, <2>2
<1>11. FollowBy(h, P, M, n, N)
  BY <1>7, <1>8, <1>9, <1>10 DEF FollowBy
<1>12. QED
  BY <1>6, <1>11 DEF Follow

\* A near command of the log that has not been done is on its way.
LEMMA FollowFound ==
    ASSUME NEW P \in Seq(ServerPacket), NEW L \in Seq(LogCmd), NEW n \in 0 .. Len(L), NEW N,
           Follow(P, L, n, N), NEW i \in DOMAIN L, i > n, L[i].step \in N
    PROVE  \E p \in DOMAIN P : Stamped(P[p]) /\ P[p] = L[i]
<1>1. PICK f \in [DOMAIN P -> 0 .. Len(L)] : FollowBy(f, P, L, n, N)
  BY DEF Follow
<1>2. PICK p \in DOMAIN P : f[p] = i
  BY <1>1 DEF FollowBy
<1>3. i # 0
  BY LogFacts
<1>4. QED
  BY <1>1, <1>2, <1>3 DEF FollowBy

\* When nothing is left to be done, nothing needs to be on its way.
LEMMA FollowNothing ==
    ASSUME NEW P \in Seq(ServerPacket), NEW L \in Seq(LogCmd), NEW N,
           \A p \in DOMAIN P : ~Stamped(P[p])
    PROVE  Follow(P, L, Len(L), N)
<1> DEFINE f == [p \in DOMAIN P |-> 0]
<1>1. f \in [DOMAIN P -> 0 .. Len(L)] /\ \A p \in DOMAIN P : f[p] = 0
  BY LogFacts
<1> HIDE DEF f
<1>2. \A i \in DOMAIN L : ~(i > Len(L))
  BY LogFacts
<1>3. FollowBy(f, P, L, Len(L), N)
  BY <1>1, <1>2 DEF FollowBy
<1>4. QED
  BY <1>1, <1>3 DEF Follow

\* The first packet is taken away: none of the log, or the next one of it.
LEMMA FollowTail ==
    ASSUME NEW P \in Seq(ServerPacket), P # <<>>, NEW L \in Seq(LogCmd), NEW n \in 0 .. Len(L),
           NEW N, NEW f \in [DOMAIN P -> 0 .. Len(L)], FollowBy(f, P, L, n, N),
           NEW k \in 0 .. Len(L), (f[1] = 0 /\ k = n) \/ (f[1] = n + 1 /\ k = n + 1)
    PROVE  Follow(Tail(P), L, k, N)
<1> DEFINE Q == Tail(P)
           h == [p \in DOMAIN Q |-> f[p + 1]]
<1>1. /\ \A p \in DOMAIN Q : p \in Nat /\ p + 1 \in DOMAIN P /\ Q[p] = P[p + 1] /\ p + 1 # 1 /\ 1 < p + 1
      /\ \A p \in DOMAIN P : p # 1 => p - 1 \in DOMAIN Q /\ (p - 1) + 1 = p
      /\ 1 \in DOMAIN P /\ \A p \in DOMAIN P : p \in Nat
  OBVIOUS
<1>2. h \in [DOMAIN Q -> 0 .. Len(L)] /\ \A p \in DOMAIN Q : h[p] = f[p + 1]
  BY <1>1
<1>3. /\ n \in Nat /\ k \in Nat /\ \A p \in DOMAIN P : f[p] \in Nat
      /\ \A i \in DOMAIN L : i \in Nat /\ i # 0
  BY LogFacts
<1> HIDE DEF Q, h
<1>4. ASSUME NEW p \in DOMAIN Q, h[p] # 0 PROVE h[p] > k /\ Stamped(Q[p]) /\ Q[p] = L[h[p]]
  <2>1. PICK r \in DOMAIN P : r = p + 1 /\ Q[p] = P[r] /\ h[p] = f[r] /\ 1 < r
    BY <1>1, <1>2
  <2>2. f[r] > n /\ Stamped(P[r]) /\ P[r] = L[f[r]]
    BY <1>4, <2>1 DEF FollowBy
  <2>3. f[1] # 0 => f[1] < f[r]
    BY <1>1, <1>4, <2>1 DEF FollowBy
  <2>4. f[r] > k
    <3>1. f[1] \in Nat /\ f[r] \in Nat /\ n \in Nat /\ k \in Nat
      BY <1>1, <1>3
    <3>2. QED
      BY <2>2, <2>3, <3>1
  <2>5. QED
    BY <2>1, <2>2, <2>4
<1>5. ASSUME NEW p \in DOMAIN Q, Stamped(Q[p]), Q[p].step \in N, h[p] = 0
      PROVE  \E j \in DOMAIN L :
                /\ L[j].kind = "sync" /\ L[j].map = Q[p].map /\ L[j].step <= Q[p].step
                /\ j <= k \/ \E b \in DOMAIN Q : b < p /\ h[b] = j
  <2>1. PICK r \in DOMAIN P : r = p + 1 /\ Q[p] = P[r] /\ h[p] = f[r]
    BY <1>1, <1>2
  <2>2. PICK j \in DOMAIN L :
           /\ L[j].kind = "sync" /\ L[j].map = Q[p].map /\ L[j].step <= Q[p].step
           /\ j <= n \/ \E b \in DOMAIN P : b < r /\ f[b] = j
    <3>1. Stamped(P[r]) /\ P[r].step \in N /\ f[r] = 0
      BY <1>5, <2>1
    <3>2. \E j \in DOMAIN L :
             /\ L[j].kind = "sync" /\ L[j].map = P[r].map /\ L[j].step <= P[r].step
             /\ j <= n \/ \E b \in DOMAIN P : b < r /\ f[b] = j
      BY <3>1 DEF FollowBy
    <3>3. QED
      BY <2>1, <3>2
  <2>3. j <= n => j <= k
    <3>1. j \in Nat /\ n \in Nat /\ k \in Nat /\ (k = n \/ k = n + 1)
      BY <1>3
    <3>2. QED
      BY <3>1
  <2>4. ASSUME NEW b \in DOMAIN P, b < r, f[b] = j
        PROVE  j <= k \/ \E a \in DOMAIN Q : a < p /\ h[a] = j
    <3>1. CASE b = 1
      BY <1>3, <2>4, <3>1
    <3>2. CASE b # 1
      <4>1. b - 1 \in DOMAIN Q /\ (b - 1) + 1 = b /\ b - 1 < p
        <5>1. b \in Nat /\ p \in Nat /\ b - 1 \in DOMAIN Q
          BY <1>1, <3>2
        <5>2. QED
          BY <2>1, <2>4, <5>1
      <4>2. QED
        BY <1>2, <2>4, <4>1
    <3>3. QED
      BY <3>1, <3>2
  <2>5. QED
    BY <2>2, <2>3, <2>4
<1>6. ASSUME NEW p \in DOMAIN Q, NEW r \in DOMAIN Q, p < r, h[p] # 0, h[r] # 0
      PROVE  h[p] < h[r]
  <2>1. p + 1 \in DOMAIN P /\ r + 1 \in DOMAIN P /\ p + 1 < r + 1
    BY <1>1, <1>6
  <2>2. QED
    BY <1>2, <1>6, <2>1 DEF FollowBy
<1>7. ASSUME NEW i \in DOMAIN L, i > k, L[i].step \in N
      PROVE  \E p \in DOMAIN Q : h[p] = i
  <2>1. i > n /\ i # f[1]
    BY <1>3, <1>7
  <2>2. PICK p \in DOMAIN P : f[p] = i
    BY <1>7, <2>1 DEF FollowBy
  <2>3. p - 1 \in DOMAIN Q /\ (p - 1) + 1 = p
    BY <1>1, <2>1, <2>2
  <2>4. QED
    BY <1>2, <2>2, <2>3
<1>8. FollowBy(h, Q, L, k, N)
  BY <1>4, <1>5, <1>6, <1>7 DEF FollowBy
<1>9. QED
  BY <1>2, <1>8 DEF Follow, Q

\* The first packet is a near command: it is the next one of the log, or not of it.
LEMMA FollowFirst ==
    ASSUME NEW P \in Seq(ServerPacket), P # <<>>, NEW L \in Seq(LogCmd), LogOK(L),
           NEW n \in 0 .. Len(L), NEW N, Downward(N), P[1].step \in N,
           NEW f \in [DOMAIN P -> 0 .. Len(L)], FollowBy(f, P, L, n, N), f[1] # 0
    PROVE  f[1] = n + 1 /\ n + 1 \in DOMAIN L /\ P[1] = L[n + 1] /\ P[1].map = MapAt(L, n)
<1>1. /\ n \in Nat /\ 1 \in DOMAIN P /\ f[1] \in DOMAIN L /\ f[1] \in Nat
      /\ \A p \in DOMAIN P : p \in Nat /\ (p # 1 => 1 < p) /\ f[p] \in Nat
      /\ DOMAIN L = 1 .. Len(L) /\ Len(L) \in Nat
      /\ \A i \in DOMAIN L : L[i].step \in Nat
  BY LogFacts
<1>2. f[1] > n /\ P[1] = L[f[1]]
  BY <1>1 DEF FollowBy
<1>3. n + 1 \in DOMAIN L /\ n + 1 > n
  BY <1>1, <1>2
<1>4. f[1] = n + 1
  <2> SUFFICES ASSUME f[1] # n + 1 PROVE FALSE
    OBVIOUS
  <2>1. n + 1 < f[1]
    BY <1>1, <1>2
  <2>2. L[n + 1].step \in N
    <3>1. L[n + 1].step <= P[1].step
      BY <1>1, <1>2, <1>3, <2>1 DEF LogOK
    <3>2. QED
      BY <1>1, <1>3, <3>1 DEF Downward
  <2>3. PICK p \in DOMAIN P : f[p] = n + 1
    BY <1>3, <2>2 DEF FollowBy
  <2>4. p # 1 /\ f[p] # 0
    BY <1>1, <2>3
  <2>5. f[1] < f[p]
    BY <1>1, <2>4 DEF FollowBy
  <2>6. QED
    BY <1>1, <2>1, <2>3, <2>5
<1>5. P[1].map = MapAt(L, n)
  BY <1>2, <1>3, <1>4, LogNext
<1>6. QED
  BY <1>2, <1>3, <1>4, <1>5

\* A near command of the world that was reached is the next one of the log.
LEMMA FollowExecute ==
    ASSUME NEW P \in Seq(ServerPacket), P # <<>>, NEW L \in Seq(LogCmd), LogOK(L),
           NEW n \in 0 .. Len(L), NEW N, Downward(N), Follow(P, L, n, N),
           Stamped(P[1]), P[1].step \in N, P[1].map = MapAt(L, n)
    PROVE  n < Len(L) /\ P[1] = L[n + 1] /\ Follow(Tail(P), L, n + 1, N)
<1>1. PICK f \in [DOMAIN P -> 0 .. Len(L)] : FollowBy(f, P, L, n, N)
  BY DEF Follow
<1>2. f[1] # 0
  <2> SUFFICES ASSUME f[1] = 0 PROVE FALSE
    OBVIOUS
  <2>1. 1 \in DOMAIN P /\ \A p \in DOMAIN P : ~(p < 1)
    OBVIOUS
  <2>2. PICK k \in DOMAIN L : L[k].kind = "sync" /\ L[k].map = P[1].map /\ k <= n
    BY <1>1, <2>1 DEF FollowBy
  <2>3. k \in 1 .. n
    BY <2>2, LogFacts
  <2>4. L[k].map < MapAt(L, n)
    BY <2>2, <2>3, MapGrows
  <2>5. QED
    BY <2>2, <2>4, LogFacts
<1>3. f[1] = n + 1 /\ n + 1 \in DOMAIN L /\ P[1] = L[n + 1]
  BY <1>1, <1>2, FollowFirst
<1>4. n < Len(L) /\ n + 1 \in 0 .. Len(L)
  BY <1>3, LogFacts
<1>5. Follow(Tail(P), L, n + 1, N)
  BY <1>1, <1>3, <1>4, FollowTail
<1>6. QED
  BY <1>3, <1>4, <1>5

\* Any other packet can be dropped: one that is no command, or a near command of
\* another world.
LEMMA FollowDrop ==
    ASSUME NEW P \in Seq(ServerPacket), P # <<>>, NEW L \in Seq(LogCmd), LogOK(L),
           NEW n \in 0 .. Len(L), NEW N, Downward(N), Follow(P, L, n, N),
           Stamped(P[1]) => P[1].step \in N /\ P[1].map # MapAt(L, n)
    PROVE  Follow(Tail(P), L, n, N)
<1>1. PICK f \in [DOMAIN P -> 0 .. Len(L)] : FollowBy(f, P, L, n, N)
  BY DEF Follow
<1>2. 1 \in DOMAIN P
  OBVIOUS
<1>3. f[1] = 0
  <2> SUFFICES ASSUME f[1] # 0 PROVE FALSE
    OBVIOUS
  <2>1. Stamped(P[1])
    BY <1>1, <1>2 DEF FollowBy
  <2>2. P[1].map = MapAt(L, n)
    BY <1>1, <2>1, FollowFirst
  <2>3. QED
    BY <2>1, <2>2
<1>4. QED
  BY <1>1, <1>3, FollowTail

\* Two sequences one behind the other: each element comes from one of them.
LEMMA ConcatFacts ==
    ASSUME NEW S, NEW a \in Seq(S), NEW b \in Seq(S)
    PROVE  /\ a \o b \in Seq(S) /\ Len(a \o b) = Len(a) + Len(b) /\ Len(a) \in Nat
           /\ DOMAIN a \subseteq DOMAIN (a \o b) /\ \A i \in DOMAIN a : (a \o b)[i] = a[i]
           /\ \A i \in DOMAIN b : i + Len(a) \in DOMAIN (a \o b) /\ (a \o b)[i + Len(a)] = b[i]
           /\ \A i \in DOMAIN (a \o b) : i \notin DOMAIN a =>
                 i - Len(a) \in DOMAIN b /\ (a \o b)[i] = b[i - Len(a)] /\ i > Len(a)
<1>1. a \o b \in Seq(S) /\ Len(a \o b) = Len(a) + Len(b) /\ Len(a) \in Nat /\ Len(b) \in Nat
  OBVIOUS
<1>2. DOMAIN a = 1 .. Len(a) /\ DOMAIN b = 1 .. Len(b) /\ DOMAIN (a \o b) = 1 .. Len(a) + Len(b)
  BY <1>1
<1>3. \A i \in 1 .. Len(a) + Len(b) : (a \o b)[i] = IF i <= Len(a) THEN a[i] ELSE b[i - Len(a)]
  OBVIOUS
<1>4. ASSUME NEW i \in DOMAIN b
      PROVE  i + Len(a) \in DOMAIN (a \o b) /\ (a \o b)[i + Len(a)] = b[i]
  <2>1. i \in Nat /\ i + Len(a) \in 1 .. Len(a) + Len(b) /\ ~(i + Len(a) <= Len(a))
        /\ (i + Len(a)) - Len(a) = i
    BY <1>1, <1>2
  <2>2. QED
    BY <1>2, <1>3, <2>1
<1>5. ASSUME NEW i \in DOMAIN (a \o b), i \notin DOMAIN a
      PROVE  i - Len(a) \in DOMAIN b /\ (a \o b)[i] = b[i - Len(a)] /\ i > Len(a)
  <2>1. i \in 1 .. Len(a) + Len(b) /\ ~(i <= Len(a)) /\ i - Len(a) \in 1 .. Len(b)
    BY <1>1, <1>2, <1>5
  <2>2. QED
    BY <1>1, <1>2, <1>3, <2>1
<1>6. \A i \in DOMAIN a : i \in DOMAIN (a \o b) /\ (a \o b)[i] = a[i]
  BY <1>1, <1>2, <1>3
<1>7. QED
  BY <1>1, <1>4, <1>5, <1>6

\* The laws of concatenation that the queues of a connection need.
LEMMA ConcatLaws ==
    ASSUME NEW S, NEW a \in Seq(S), NEW b \in Seq(S), NEW c \in Seq(S), NEW x \in S
    PROVE  /\ (a \o b) \o c = a \o (b \o c)
           /\ a \o <<>> = a /\ <<>> \o a = a
           /\ a \o Append(b, x) = Append(a \o b, x)
           /\ a # <<>> => Tail(a \o b) = Tail(a) \o b /\ (a \o b)[1] = a[1] /\ a \o b # <<>>
           /\ b # <<>> => Append(a, Head(b)) \o Tail(b) = a \o b
<1>1. (a \o b) \o c = a \o (b \o c)
  BY ConcatAssociative
<1>2. a \o <<>> = a /\ <<>> \o a = a
  BY ConcatEmptySeq
<1>3. \A u \in Seq(S) : \A y \in S : Append(u, y) = u \o <<y>> /\ <<y>> \in Seq(S)
  BY AppendIsConcat
<1>4. a \o Append(b, x) = Append(a \o b, x)
  BY <1>3, ConcatAssociative, ConcatFacts
<1>5. ASSUME a # <<>> PROVE Tail(a \o b) = Tail(a) \o b /\ (a \o b)[1] = a[1] /\ a \o b # <<>>
  <2>1. /\ a \o b \in Seq(S) /\ Len(a \o b) = Len(a) + Len(b) /\ Len(a) \in Nat /\ Len(b) \in Nat
        /\ Len(a) > 0 /\ (a \o b)[1] = a[1] /\ a \o b # <<>>
    BY <1>5, ConcatFacts
  <2>2. /\ Tail(a) \in Seq(S) /\ Len(Tail(a)) = Len(a) - 1
        /\ \A i \in 1 .. Len(a) - 1 : Tail(a)[i] = a[i + 1]
        /\ Tail(a \o b) \in Seq(S) /\ Len(Tail(a \o b)) = Len(a) + Len(b) - 1
        /\ \A i \in 1 .. Len(a) + Len(b) - 1 : Tail(a \o b)[i] = (a \o b)[i + 1]
    BY <1>5, <2>1
  <2>3. /\ Tail(a) \o b \in Seq(S) /\ Len(Tail(a) \o b) = Len(a) - 1 + Len(b)
    BY <2>2, ConcatFacts
  <2>4. ASSUME NEW i \in 1 .. Len(a) + Len(b) - 1 PROVE Tail(a \o b)[i] = (Tail(a) \o b)[i]
    <3>1. (Tail(a) \o b)[i] = IF i <= Len(a) - 1 THEN Tail(a)[i] ELSE b[i - (Len(a) - 1)]
      BY <2>1, <2>2, ConcatProperties
    <3>2. (a \o b)[i + 1] = IF i + 1 <= Len(a) THEN a[i + 1] ELSE b[i + 1 - Len(a)]
      BY <2>1, ConcatProperties
    <3>3. CASE i <= Len(a) - 1
      BY <2>1, <2>2, <3>1, <3>2, <3>3
    <3>4. CASE ~(i <= Len(a) - 1)
      <4>1. i - (Len(a) - 1) = i + 1 - Len(a) /\ ~(i + 1 <= Len(a))
        BY <2>1, <3>4
      <4>2. QED
        BY <2>2, <3>1, <3>2, <3>4, <4>1
    <3>5. QED
      BY <3>3, <3>4
  <2>5. QED
    <3>1. Len(Tail(a \o b)) = Len(Tail(a) \o b) /\ \A i \in 1 .. Len(Tail(a \o b)) : Tail(a \o b)[i] = (Tail(a) \o b)[i]
      BY <2>1, <2>2, <2>3, <2>4
    <3>2. QED
      BY <2>1, <2>2, <2>3, <3>1, SeqEqual
<1>6. ASSUME b # <<>> PROVE Append(a, Head(b)) \o Tail(b) = a \o b
  <2>1. /\ Head(b) \in S /\ Tail(b) \in Seq(S) /\ <<Head(b)>> \in Seq(S) /\ b = <<Head(b)>> \o Tail(b)
    BY <1>6, HeadTailProperties
  <2>2. Append(a, Head(b)) = a \o <<Head(b)>>
    BY <1>3, <2>1
  <2>3. (a \o <<Head(b)>>) \o Tail(b) = a \o (<<Head(b)>> \o Tail(b))
    BY <2>1, ConcatAssociative
  <2>4. QED
    BY <2>1, <2>2, <2>3
<1>7. QED
  BY <1>1, <1>2, <1>4, <1>5, <1>6

\* An NWC_SYNC throws away the packets q, none of which is of the world that it
\* leaves behind.
LEMMA FollowCut ==
    ASSUME NEW q \in Seq(ServerPacket), NEW t \in Seq(ServerPacket), NEW L \in Seq(LogCmd), LogOK(L),
           NEW n \in 0 .. Len(L), NEW N, Downward(N), Follow(q \o t, L, n, N),
           \A i \in DOMAIN q : Stamped(q[i]) => q[i].map # MapAt(L, n)
    PROVE  Follow(t, L, n, N)
<1> DEFINE P == q \o t
           z == Len(q)
<1>1. /\ P \in Seq(ServerPacket) /\ z \in Nat
      /\ \A i \in DOMAIN q : i \in DOMAIN P /\ P[i] = q[i]
      /\ \A i \in DOMAIN t : i + z \in DOMAIN P /\ P[i + z] = t[i]
      /\ \A i \in DOMAIN P : i \notin DOMAIN q => i - z \in DOMAIN t /\ P[i] = t[i - z]
      /\ \A i \in DOMAIN P : i \in Nat
      /\ \A i \in DOMAIN t : i \in Nat
      /\ DOMAIN q = 1 .. z
  <2>1. P \in Seq(ServerPacket) /\ z \in Nat /\ DOMAIN q = 1 .. z /\ (\A i \in DOMAIN t : i \in Nat)
    BY ConcatFacts
  <2>2. \A i \in DOMAIN P : i \in Nat
    BY <2>1
  <2>3. QED
    BY <2>1, <2>2, ConcatFacts
<1> HIDE DEF P, z
<1>2. PICK f \in [DOMAIN P -> 0 .. Len(L)] :
         /\ FollowBy(f, P, L, n, N)
         /\ \A p \in DOMAIN P : f[p] \in Nat /\ (f[p] # 0 => f[p] \in DOMAIN L)
  BY <1>1, FollowFacts DEF P
<1>3. /\ Len(L) \in Nat /\ n \in Nat /\ DOMAIN L = 1 .. Len(L)
      /\ \A i \in DOMAIN L : L[i].step \in Nat /\ i \in Nat /\ i # 0
  BY LogFacts
<1>4. ASSUME NEW p \in DOMAIN q, f[p] # 0, P[p].step \in N PROVE FALSE
  <2>1. /\ p \in DOMAIN P /\ f[p] \in DOMAIN L /\ f[p] > n /\ P[p] = L[f[p]] /\ f[p] \in Nat
    BY <1>1, <1>2, <1>4 DEF FollowBy
  <2>2. n + 1 \in DOMAIN L /\ n + 1 > n /\ (n + 1 = f[p] \/ n + 1 < f[p])
    BY <1>3, <2>1
  <2>3. L[n + 1].step \in N
    <3>1. CASE n + 1 = f[p]
      BY <1>4, <2>1, <3>1
    <3>2. CASE n + 1 < f[p]
      <4>1. L[n + 1].step <= L[f[p]].step
        BY <2>1, <2>2, <3>2 DEF LogOK
      <4>2. QED
        BY <1>3, <1>4, <2>1, <2>2, <4>1 DEF Downward
    <3>3. QED
      BY <2>2, <3>1, <3>2
  <2>4. PICK r \in DOMAIN P : f[r] = n + 1
    BY <1>2, <2>2, <2>3 DEF FollowBy
  <2>5. Stamped(P[r]) /\ P[r] = L[n + 1] /\ f[r] # 0
    BY <1>2, <1>3, <2>2, <2>4 DEF FollowBy
  <2>6. ~(p < r)
    <3> SUFFICES ASSUME p < r PROVE FALSE
      OBVIOUS
    <3>1. f[p] < f[r]
      BY <1>2, <1>4, <2>1, <2>5 DEF FollowBy
    <3>2. QED
      BY <1>2, <1>3, <2>1, <2>2, <2>4, <3>1
  <2>7. r \in DOMAIN q
    <3>1. p \in Nat /\ r \in Nat /\ r # 0 /\ p <= z
      BY <1>1, <2>1
    <3>2. QED
      BY <1>1, <2>6, <3>1
  <2>8. L[n + 1].map = MapAt(L, n)
    BY <2>2, LogNext
  <2>9. QED
    BY <1>1, <2>5, <2>7, <2>8
<1> DEFINE h == [i \in DOMAIN t |-> f[i + z]]
<1>5. h \in [DOMAIN t -> 0 .. Len(L)] /\ \A i \in DOMAIN t : h[i] = f[i + z]
  BY <1>1
<1> HIDE DEF h
<1>6. ASSUME NEW i \in DOMAIN t, h[i] # 0 PROVE h[i] > n /\ Stamped(t[i]) /\ t[i] = L[h[i]]
  <2>1. PICK r \in DOMAIN P : h[i] = f[r] /\ t[i] = P[r]
    BY <1>1, <1>5
  <2>2. f[r] > n /\ Stamped(P[r]) /\ P[r] = L[f[r]]
    BY <1>2, <1>6, <2>1 DEF FollowBy
  <2>3. QED
    BY <2>1, <2>2
<1>7. ASSUME NEW i \in DOMAIN t, Stamped(t[i]), t[i].step \in N, h[i] = 0
      PROVE  \E k \in DOMAIN L :
                /\ L[k].kind = "sync" /\ L[k].map = t[i].map /\ L[k].step <= t[i].step
                /\ k <= n \/ \E b \in DOMAIN t : b < i /\ h[b] = k
  <2>1. PICK r \in DOMAIN P : h[i] = f[r] /\ t[i] = P[r] /\ r = i + z
    BY <1>1, <1>5
  <2>2. PICK k \in DOMAIN L :
           /\ L[k].kind = "sync" /\ L[k].map = P[r].map /\ L[k].step <= P[r].step
           /\ k <= n \/ \E b \in DOMAIN P : b < r /\ f[b] = k
    <3>1. Stamped(P[r]) /\ P[r].step \in N /\ f[r] = 0
      BY <1>7, <2>1
    <3>2. FollowBy(f, P, L, n, N)
      BY <1>2
    <3>3. QED
      BY <3>1, <3>2 DEF FollowBy
  <2>3. ASSUME NEW b \in DOMAIN P, b < r, f[b] = k PROVE \E a \in DOMAIN t : a < i /\ h[a] = k
    <3>1. P[b] = L[k] /\ k # 0
      BY <1>2, <1>3, <2>3 DEF FollowBy
    <3>2. P[b].step \in N
      BY <1>3, <1>7, <2>1, <2>2, <3>1 DEF Downward
    <3>3. b \notin DOMAIN q
      BY <1>4, <2>3, <3>1, <3>2
    <3>4. b - z \in DOMAIN t /\ b \in Nat
      BY <1>1, <3>3
    <3>a. b \in Nat /\ z \in Nat /\ i \in Nat /\ r = i + z /\ b < r
      BY <1>1, <2>1, <2>3, <3>4
    <3>5. b - z < i /\ (b - z) + z = b
      BY ONLY <3>a
    <3>6. QED
      BY <1>5, <2>3, <3>4, <3>5
  <2>4. QED
    BY <2>1, <2>2, <2>3
<1>8. ASSUME NEW i \in DOMAIN t, NEW j \in DOMAIN t, i < j, h[i] # 0, h[j] # 0 PROVE h[i] < h[j]
  <2>1. i + z \in DOMAIN P /\ j + z \in DOMAIN P /\ i + z < j + z
    BY <1>1, <1>8
  <2>2. QED
    BY <1>2, <1>5, <1>8, <2>1 DEF FollowBy
<1>9. ASSUME NEW i \in DOMAIN L, i > n, L[i].step \in N PROVE \E p \in DOMAIN t : h[p] = i
  <2>1. PICK p \in DOMAIN P : f[p] = i
    BY <1>2, <1>9 DEF FollowBy
  <2>2. P[p] = L[i] /\ f[p] # 0
    BY <1>2, <1>3, <2>1 DEF FollowBy
  <2>3. p \notin DOMAIN q
    BY <1>4, <1>9, <2>2
  <2>4. p - z \in DOMAIN t /\ (p - z) + z = p
    BY <1>1, <2>3
  <2>5. QED
    BY <1>5, <2>1, <2>4
<1>10. FollowBy(h, t, L, n, N)
  BY <1>6, <1>7, <1>8, <1>9 DEF FollowBy
<1>11. QED
  BY <1>5, <1>10 DEF Follow

-----------------------------------------------------------------------------
(* Streams: what is on its way, with the checklists that it carries. *)

\* A command is stamped with the step after the one at which it was sent, which
\* is not after S, and carries the checklist of that step.
PacketOK(L, x, S) ==
    /\ x.step <= S + 1
    /\ x.kind = "tool" => x.step = x.lastStep + 1 /\ Chk(L, x.lastStep, x.lastChk)
    /\ x.kind = "check" => x.step = x.srvStep + 1 /\ Chk(L, x.srvStep, x.chk)

\* The commands are right, and in the order of their steps.
CommandsOK(L, P, S) ==
    /\ \A p \in DOMAIN P : IsCommand(P[p]) => PacketOK(L, P[p], S)
    /\ \A p, r \in DOMAIN P : p < r /\ IsCommand(P[p]) /\ IsCommand(P[r]) => P[p].step <= P[r].step

StreamOK(L, P, n, N, S) == Follow(P, L, n, N) /\ CommandsOK(L, P, S)

\* The commands of Q are some of P, in the same order: g tells which ones.
Among(g, Q, P) ==
    /\ \A i \in DOMAIN Q : IsCommand(Q[i]) => g[i] \in DOMAIN P /\ Q[i] = P[g[i]]
    /\ \A i, j \in DOMAIN Q : i < j /\ IsCommand(Q[i]) /\ IsCommand(Q[j]) => g[i] < g[j]

\* The steps that a command names are numbers.
LEMMA StepFacts ==
    ASSUME NEW x \in ServerPacket
    PROVE  /\ Stamped(x) => IsCommand(x) /\ x \in LogCmd
           /\ IsCommand(x) => x \in WorldCmd /\ x.step \in Nat /\ x.map \in Nat
           /\ x.kind = "tool" => x.lastStep \in Nat
           /\ x.kind = "check" => x.srvStep \in Nat
           /\ x.kind = "ready" => x.step \in Nat /\ x.map \in Nat
<1>1. /\ x.kind \in {"tool", "sync", "check"} => x \in WorldCmd
      /\ x.kind = "tool" => x \in ToolCmd
      /\ x.kind = "sync" => x \in SyncCmd
      /\ x.kind = "check" => x \in CheckCmd
      /\ x.kind = "ready" => x \in Ready
  BY KindFacts
<1>2. QED
  BY <1>1 DEF Stamped, IsCommand, LogCmd, ToolCmd, SyncCmd, CheckCmd, Ready, WorldCmd

\* A packet stays right when the server gets ahead, and when the log is revised
\* behind the step at which it was sent.
LEMMA PacketKept ==
    ASSUME NEW L \in Seq(LogCmd), NEW M \in Seq(LogCmd), NEW k, NEW z \in Nat, Revises(M, L, k, z),
           NEW S \in Nat, NEW T \in Nat, S <= z, S <= T,
           NEW x \in ServerPacket, IsCommand(x), PacketOK(L, x, S)
    PROVE  PacketOK(M, x, T)
<1>1. x.step \in Nat /\ x.step <= S + 1 /\ x.step <= T + 1
  <2>1. x.step \in Nat /\ x.step <= S + 1
    BY StepFacts DEF PacketOK
  <2>2. QED
    BY <2>1
<1>2. x.kind = "tool" => x.step = x.lastStep + 1 /\ Chk(M, x.lastStep, x.lastChk)
  <2> SUFFICES ASSUME x.kind = "tool"
               PROVE  x.step = x.lastStep + 1 /\ Chk(M, x.lastStep, x.lastChk)
    OBVIOUS
  <2>1. x.lastStep \in Nat /\ x.step = x.lastStep + 1 /\ Chk(L, x.lastStep, x.lastChk)
    BY StepFacts DEF PacketOK
  <2>2. x.lastStep <= z
    BY <1>1, <2>1
  <2>3. QED
    BY <2>1, <2>2, ChkKept
<1>3. x.kind = "check" => x.step = x.srvStep + 1 /\ Chk(M, x.srvStep, x.chk)
  <2> SUFFICES ASSUME x.kind = "check"
               PROVE  x.step = x.srvStep + 1 /\ Chk(M, x.srvStep, x.chk)
    OBVIOUS
  <2>1. x.srvStep \in Nat /\ x.step = x.srvStep + 1 /\ Chk(L, x.srvStep, x.chk)
    BY StepFacts DEF PacketOK
  <2>2. x.srvStep <= z
    BY <1>1, <2>1
  <2>3. QED
    BY <2>1, <2>2, ChkKept
<1>4. QED
  BY <1>1, <1>2, <1>3 DEF PacketOK

\* Nothing changed.
LEMMA RevisesSame ==
    ASSUME NEW L \in Seq(LogCmd), NEW z
    PROVE  Revises(L, L, Len(L), z)
<1>1. Len(L) \in Nat /\ Len(L) \in 0 .. Len(L) /\ \A i \in Len(L) + 1 .. Len(L) : FALSE
  OBVIOUS
<1>2. QED
  BY <1>1 DEF Revises

\* Fewer packets are right when all were.
LEMMA StreamCarry ==
    ASSUME NEW P \in Seq(ServerPacket), NEW Q \in Seq(ServerPacket),
           NEW L \in Seq(LogCmd), NEW n \in 0 .. Len(L), NEW N, NEW O, NEW S,
           Downward(O), O \subseteq N, StreamOK(L, P, n, N, S), NEW g, Among(g, Q, P),
           \A p \in DOMAIN P : Stamped(P[p]) /\ P[p].step \in O =>
              \E i \in DOMAIN Q : Stamped(Q[i]) /\ g[i] = p
    PROVE  StreamOK(L, Q, n, O, S)
<1>1. Follow(P, L, n, N) /\ CommandsOK(L, P, S)
  BY DEF StreamOK
<1>2. \A i \in DOMAIN Q : Stamped(Q[i]) => IsCommand(Q[i])
  BY DEF Stamped, IsCommand
<1>3. Follow(Q, L, n, O)
  <2>1. /\ \A i \in DOMAIN Q : Stamped(Q[i]) => g[i] \in DOMAIN P /\ Q[i] = P[g[i]]
        /\ \A i, j \in DOMAIN Q : i < j /\ Stamped(Q[i]) /\ Stamped(Q[j]) => g[i] < g[j]
    BY <1>2 DEF Among
  <2>2. QED
    BY <1>1, <2>1, FollowCarry
<1>4. ASSUME NEW i \in DOMAIN Q, IsCommand(Q[i]) PROVE PacketOK(L, Q[i], S)
  <2>1. g[i] \in DOMAIN P /\ Q[i] = P[g[i]]
    BY <1>4 DEF Among
  <2>2. PacketOK(L, P[g[i]], S)
    BY <1>1, <1>4, <2>1 DEF CommandsOK
  <2>3. QED
    BY <2>1, <2>2
<1>5. ASSUME NEW i \in DOMAIN Q, NEW j \in DOMAIN Q, i < j, IsCommand(Q[i]), IsCommand(Q[j])
      PROVE  Q[i].step <= Q[j].step
  <2>1. g[i] \in DOMAIN P /\ Q[i] = P[g[i]] /\ g[j] \in DOMAIN P /\ Q[j] = P[g[j]] /\ g[i] < g[j]
    BY <1>5 DEF Among
  <2>2. IsCommand(P[g[i]]) /\ IsCommand(P[g[j]])
    BY <1>5, <2>1
  <2>3. P[g[i]].step <= P[g[j]].step
    BY <1>1, <2>1, <2>2 DEF CommandsOK
  <2>4. QED
    BY <2>1, <2>3
<1>6. QED
  BY <1>3, <1>4, <1>5 DEF StreamOK, CommandsOK

\* The log is revised where it is not near, and the server may get ahead.
LEMMA StreamFar ==
    ASSUME NEW P \in Seq(ServerPacket), NEW L \in Seq(LogCmd), NEW M \in Seq(LogCmd),
           NEW k, NEW z \in Nat, Revises(M, L, k, z), NEW n \in 0 .. Len(L), n <= k, NEW N,
           \A r \in N : r < z, N \subseteq Nat, NEW S \in Nat, NEW T \in Nat, S <= z, S <= T,
           StreamOK(L, P, n, N, S)
    PROVE  StreamOK(M, P, n, N, T)
<1>1. Follow(P, M, n, N)
  BY FollowRevised DEF StreamOK
<1>2. ASSUME NEW p \in DOMAIN P, IsCommand(P[p]) PROVE PacketOK(M, P[p], T)
  <2>1. PacketOK(L, P[p], S)
    BY <1>2 DEF StreamOK, CommandsOK
  <2>2. QED
    BY <1>2, <2>1, PacketKept
<1>3. QED
  BY <1>1, <1>2 DEF StreamOK, CommandsOK

\* The server gets ahead.
LEMMA StreamLater ==
    ASSUME NEW P \in Seq(ServerPacket), NEW L \in Seq(LogCmd), NEW n, NEW N,
           NEW S \in Nat, NEW T \in Nat, S <= T, StreamOK(L, P, n, N, S)
    PROVE  StreamOK(L, P, n, N, T)
<1>1. ASSUME NEW p \in DOMAIN P, IsCommand(P[p]) PROVE PacketOK(L, P[p], T)
  <2>1. PacketOK(L, P[p], S)
    BY <1>1 DEF StreamOK, CommandsOK
  <2>2. Revises(L, L, Len(L), S)
    BY RevisesSame
  <2>3. QED
    BY <1>1, <2>1, <2>2, PacketKept
<1>2. QED
  BY <1>1 DEF StreamOK, CommandsOK

\* A packet that is no command of the log is added.
LEMMA StreamAppend ==
    ASSUME NEW P \in Seq(ServerPacket), NEW L \in Seq(LogCmd), NEW n \in 0 .. Len(L), NEW N, Downward(N),
           NEW S \in Nat, NEW T \in Nat, S <= T, StreamOK(L, P, n, N, S),
           NEW x \in ServerPacket, ~Stamped(x), IsCommand(x) => PacketOK(L, x, T) /\ S < x.step
    PROVE  StreamOK(L, Append(P, x), n, N, T)
<1> DEFINE Q == Append(P, x)
           z == Len(P) + 1
           g == [i \in DOMAIN Q |-> i]
<1>1. /\ Q \in Seq(ServerPacket) /\ z \in Nat /\ DOMAIN Q = DOMAIN P \cup {z} /\ Q[z] = x
      /\ \A p \in DOMAIN P : Q[p] = P[p] /\ p < z /\ p \in Nat
      /\ \A i \in DOMAIN Q : g[i] = i
  OBVIOUS
<1> HIDE DEF Q, z, g
<1>2. StreamOK(L, P, n, N, T)
  BY StreamLater
<1>3. Follow(Q, L, n, N)
  <2>1. \A i \in DOMAIN Q : Stamped(Q[i]) => i \in DOMAIN P
    BY <1>1
  <2>2. /\ \A i \in DOMAIN Q : Stamped(Q[i]) => g[i] \in DOMAIN P /\ Q[i] = P[g[i]]
        /\ \A i, j \in DOMAIN Q : i < j /\ Stamped(Q[i]) /\ Stamped(Q[j]) => g[i] < g[j]
        /\ \A p \in DOMAIN P : Stamped(P[p]) /\ P[p].step \in N =>
              \E i \in DOMAIN Q : Stamped(Q[i]) /\ g[i] = p
    BY <1>1, <2>1
  <2>3. Follow(P, L, n, N)
    BY DEF StreamOK
  <2>4. QED
    BY <1>1, <2>2, <2>3, FollowCarry
<1>4. \A i \in DOMAIN Q : IsCommand(Q[i]) => PacketOK(L, Q[i], T)
  BY <1>1, <1>2 DEF StreamOK, CommandsOK
<1>5. ASSUME NEW i \in DOMAIN Q, NEW j \in DOMAIN Q, i < j, IsCommand(Q[i]), IsCommand(Q[j])
      PROVE  Q[i].step <= Q[j].step
  <2>1. i \in DOMAIN P /\ Q[i] = P[i]
    BY <1>1, <1>5
  <2>2. CASE j = z
    <3>1. PacketOK(L, P[i], S)
      BY <1>5, <2>1 DEF StreamOK, CommandsOK
    <3>2. P[i].step \in Nat /\ P[i].step <= S + 1 /\ x.step \in Nat /\ S < x.step
      BY <1>1, <1>5, <2>1, <2>2, <3>1, StepFacts DEF PacketOK
    <3>3. QED
      BY <1>1, <2>1, <2>2, <3>2
  <2>3. CASE j \in DOMAIN P
    BY <1>1, <1>5, <2>1, <2>3 DEF StreamOK, CommandsOK
  <2>4. QED
    BY <1>1, <2>2, <2>3
<1>6. StreamOK(L, Q, n, N, T)
  BY <1>3, <1>4, <1>5 DEF StreamOK, CommandsOK
<1>7. QED
  BY <1>6 DEF Q

\* The server sends the command x: the log gets it, unless an NWC_SYNC that it
\* holds supersedes it.
Sent(M, L, x) ==
    \/ /\ M = Append(L, x) /\ x.map = MapAt(L, Len(L))
       /\ x.kind = "sync" => x.map < x.newMap
       /\ \A i \in DOMAIN L : L[i].step <= x.step
    \/ /\ M = L
       /\ \E k \in DOMAIN L : L[k].kind = "sync" /\ L[k].map = x.map /\ L[k].step <= x.step

\* It revises the log from the step of the command on.
LEMMA SentFacts ==
    ASSUME NEW L \in Seq(LogCmd), NEW M, NEW x \in LogCmd, Sent(M, L, x), LogOK(L)
    PROVE  /\ M \in Seq(LogCmd) /\ LogOK(M) /\ Revises(M, L, Len(L), x.step)
           /\ Len(L) <= Len(M) /\ \A i \in DOMAIN M : i \in DOMAIN L \/ M[i] = x
           /\ \A i \in DOMAIN L : i \in DOMAIN M /\ M[i] = L[i]
           /\ \A n \in 0 .. Len(L) : n \in 0 .. Len(M) /\ MapAt(M, n) = MapAt(L, n)
                                     /\ WorldOf(M, n) = WorldOf(L, n)
<1>1. CASE M = L
  <2>1. Revises(L, L, Len(L), x.step)
    BY RevisesSame
  <2>2. QED
    BY <1>1, <2>1
<1>2. CASE M # L
  <2> DEFINE z == Len(L)
  <2>1. /\ M = Append(L, x) /\ x.map = MapAt(L, Len(L)) /\ (x.kind = "sync" => x.map < x.newMap)
        /\ \A i \in DOMAIN L : L[i].step <= x.step
    BY <1>2 DEF Sent
  <2>2. /\ M \in Seq(LogCmd) /\ LogOK(M) /\ Len(M) = z + 1
        /\ M[z + 1] = x /\ \A i \in DOMAIN L : M[i] = L[i]
        /\ \A n \in 0 .. z : MapAt(M, n) = MapAt(L, n)
    BY <2>1, LogAppend
  <2>3. /\ z \in Nat /\ DOMAIN L = 1 .. z /\ x.step \in Nat
    BY DEF LogCmd, ToolCmd, SyncCmd
  <2> HIDE DEF z
  <2>4. DOMAIN M = 1 .. z + 1 /\ \A i \in 1 .. z + 1 : i \in 1 .. z \/ i = z + 1
    BY <2>2, <2>3
  <2>5. Revises(M, L, z, x.step)
    <3>1. \A i \in z + 1 .. Len(M) : M[i].step >= x.step
      BY <2>2, <2>3
    <3>2. Len(L) = z
      BY DEF z
    <3>3. z \in 0 .. Len(L) /\ z <= Len(M) /\ (\A i \in 1 .. z : M[i] = L[i])
          /\ \A i \in z + 1 .. Len(L) : L[i].step >= x.step
      BY <2>2, <2>3, <3>2
    <3>4. QED
      BY <3>1, <3>3 DEF Revises
  <2>6. \A n \in 0 .. z : n \in 0 .. Len(M) /\ WorldOf(M, n) = WorldOf(L, n)
    <3> SUFFICES ASSUME NEW n \in 0 .. z PROVE n \in 0 .. Len(M) /\ WorldOf(M, n) = WorldOf(L, n)
      OBVIOUS
    <3>1. n \in 0 .. Len(L) /\ n \in 0 .. Len(M) /\ \A i \in 1 .. n : M[i] = L[i]
      BY <2>2, <2>3 DEF z
    <3>2. QED
      BY <3>1, WorldOfFacts
  <2>7. Len(L) = z /\ Len(L) <= Len(M) /\ (\A i \in DOMAIN M : i \in DOMAIN L \/ M[i] = x)
        /\ \A i \in DOMAIN L : i \in DOMAIN M
    BY <2>2, <2>3, <2>4 DEF z
  <2>8. QED
    BY <2>2, <2>5, <2>6, <2>7
<1>3. QED
  BY <1>1, <1>2

\* A command is sent, at the step S, to a client for which everything is near.
LEMMA StreamSend ==
    ASSUME NEW P \in Seq(ServerPacket), NEW L \in Seq(LogCmd), LogOK(L), NEW M,
           NEW n \in 0 .. Len(L), NEW S \in Nat, NEW x \in LogCmd,
           Sent(M, L, x), x.step = S + 1, PacketOK(L, x, S), StreamOK(L, P, n, Nat, S)
    PROVE  StreamOK(M, Append(P, x), n, Nat, S)
<1> DEFINE Q == Append(P, x)
           z == Len(P) + 1
<1>1. /\ M \in Seq(LogCmd) /\ Revises(M, L, Len(L), S + 1) /\ x \in ServerPacket /\ Stamped(x)
  BY SentFacts DEF LogCmd, ServerPacket, WorldCmd, Stamped, ToolCmd, SyncCmd
<1>2. /\ Q \in Seq(ServerPacket) /\ z \in Nat /\ DOMAIN Q = DOMAIN P \cup {z} /\ Q[z] = x
      /\ \A p \in DOMAIN P : Q[p] = P[p] /\ p < z /\ p \in Nat
  BY <1>1
<1>3. Follow(Q, M, n, Nat)
  <2>1. Follow(P, L, n, Nat)
    BY DEF StreamOK
  <2>2. CASE M = L
    <3>1. CASE \E k \in DOMAIN L : L[k].kind = "sync" /\ L[k].map = x.map /\ L[k].step <= x.step
      <4>1. PICK k \in DOMAIN L : L[k].kind = "sync" /\ L[k].map = x.map /\ L[k].step <= x.step
        BY <3>1
      <4>2. L[k].step \in Nat
        BY LogFacts
      <4>3. QED
        BY <2>1, <2>2, <4>1, <4>2, FollowSuperseded
    <3>2. CASE M = Append(L, x)
      BY <2>1, <3>2, FollowSend
    <3>3. QED
      BY <3>1, <3>2 DEF Sent
  <2>3. CASE M = Append(L, x)
    BY <2>1, <2>3, FollowSend
  <2>4. QED
    BY <2>2, <2>3 DEF Sent
<1> HIDE DEF Q, z
<1>4. ASSUME NEW p \in DOMAIN Q, IsCommand(Q[p]) PROVE PacketOK(M, Q[p], S)
  <2>1. Q[p] \in ServerPacket
    BY <1>2
  <2>2. PacketOK(L, Q[p], S)
    BY <1>2, <1>4 DEF StreamOK, CommandsOK
  <2>3. S + 1 \in Nat /\ S <= S + 1 /\ S <= S
    OBVIOUS
  <2>4. QED
    BY <1>1, <1>4, <2>1, <2>2, <2>3, PacketKept
<1>5. ASSUME NEW i \in DOMAIN Q, NEW j \in DOMAIN Q, i < j, IsCommand(Q[i]), IsCommand(Q[j])
      PROVE  Q[i].step <= Q[j].step
  <2>1. i \in DOMAIN P /\ Q[i] = P[i]
    BY <1>2, <1>5
  <2>2. CASE j = z
    <3>1. PacketOK(L, P[i], S)
      BY <1>5, <2>1 DEF StreamOK, CommandsOK
    <3>2. QED
      BY <1>2, <2>1, <2>2, <3>1 DEF PacketOK
  <2>3. CASE j \in DOMAIN P
    BY <1>2, <1>5, <2>1, <2>3 DEF StreamOK, CommandsOK
  <2>4. QED
    BY <1>2, <2>2, <2>3
<1>6. StreamOK(M, Q, n, Nat, S)
  BY <1>3, <1>4, <1>5 DEF StreamOK, CommandsOK, Q
<1>7. QED
  BY <1>6 DEF Q

\* A packet that is no command is put between the others.
LEMMA StreamInsert ==
    ASSUME NEW a \in Seq(ServerPacket), NEW b \in Seq(ServerPacket), NEW x \in ServerPacket,
           ~IsCommand(x), NEW L \in Seq(LogCmd), NEW n \in 0 .. Len(L), NEW N, Downward(N), NEW S,
           StreamOK(L, a \o b, n, N, S)
    PROVE  StreamOK(L, Append(a, x) \o b, n, N, S)
<1> DEFINE P == a \o b
           d == Append(a, x)
           Q == d \o b
           z == Len(a)
           g == [i \in DOMAIN Q |-> IF i <= z THEN i ELSE i - 1]
<1>1. /\ d \in Seq(ServerPacket) /\ Len(d) = z + 1 /\ d[z + 1] = x /\ z \in Nat
      /\ DOMAIN a = 1 .. z /\ DOMAIN d = 1 .. z + 1
      /\ \A i \in 1 .. z : d[i] = a[i]
  OBVIOUS
<1>2. /\ P \in Seq(ServerPacket) /\ Q \in Seq(ServerPacket)
      /\ \A i \in DOMAIN a : i \in DOMAIN P /\ P[i] = a[i]
      /\ \A i \in DOMAIN b : i + z \in DOMAIN P /\ P[i + z] = b[i]
      /\ \A i \in DOMAIN P : i \notin DOMAIN a => i - z \in DOMAIN b /\ P[i] = b[i - z] /\ i > z
      /\ \A i \in DOMAIN d : i \in DOMAIN Q /\ Q[i] = d[i]
      /\ \A i \in DOMAIN b : i + (z + 1) \in DOMAIN Q /\ Q[i + (z + 1)] = b[i]
      /\ \A i \in DOMAIN Q : i \notin DOMAIN d => i - (z + 1) \in DOMAIN b /\ Q[i] = b[i - (z + 1)]
      /\ \A i \in DOMAIN P : i \in Nat /\ i # 0
      /\ \A i \in DOMAIN Q : i \in Nat /\ i # 0
      /\ \A i \in DOMAIN b : i \in Nat
  <2>1. P \in Seq(ServerPacket) /\ Q \in Seq(ServerPacket)
    BY <1>1, ConcatFacts
  <2>2. /\ \A i \in DOMAIN P : i \in Nat /\ i # 0
        /\ \A i \in DOMAIN Q : i \in Nat /\ i # 0
        /\ \A i \in DOMAIN b : i \in Nat
    BY <2>1
  <2>3. /\ \A i \in DOMAIN a : i \in DOMAIN P /\ P[i] = a[i]
        /\ \A i \in DOMAIN b : i + z \in DOMAIN P /\ P[i + z] = b[i]
        /\ \A i \in DOMAIN P : i \notin DOMAIN a => i - z \in DOMAIN b /\ P[i] = b[i - z] /\ i > z
    BY ConcatFacts
  <2> HIDE DEF d
  <2>4. /\ \A i \in DOMAIN d : i \in DOMAIN Q /\ Q[i] = d[i]
        /\ \A i \in DOMAIN b : i + Len(d) \in DOMAIN Q /\ Q[i + Len(d)] = b[i]
        /\ \A i \in DOMAIN Q : i \notin DOMAIN d => i - Len(d) \in DOMAIN b /\ Q[i] = b[i - Len(d)]
    <3>1. d \in Seq(ServerPacket)
      BY <1>1
    <3>2. QED
      BY <3>1, ConcatFacts
  <2> HIDE DEF P, Q
  <2>5. QED
    BY <1>1, <2>1, <2>2, <2>3, <2>4
<1>3. \A i \in DOMAIN Q : g[i] = IF i <= z THEN i ELSE i - 1
  OBVIOUS
<1> HIDE DEF P, Q, d, z, g
<1>4. ASSUME NEW i \in DOMAIN Q, IsCommand(Q[i]) PROVE g[i] \in DOMAIN P /\ Q[i] = P[g[i]] /\ i # z + 1
  <2>1. i # z + 1
    <3>1. z + 1 \in DOMAIN d
      BY <1>1
    <3>2. Q[z + 1] = x
      BY <1>1, <1>2, <3>1
    <3>3. QED
      BY <1>4, <3>2
  <2>2. CASE i <= z
    <3>1. i \in DOMAIN a /\ i \in DOMAIN d
      BY <1>1, <1>2, <2>2
    <3>2. QED
      BY <1>1, <1>2, <1>3, <2>1, <2>2, <3>1
  <2>3. CASE ~(i <= z)
    <3>1. i \in Nat /\ z \in Nat
      BY <1>1, <1>2
    <3>2. i \notin 1 .. z + 1 /\ (i - (z + 1)) + z = i - 1
      BY <2>1, <2>3, <3>1
    <3>3. i - (z + 1) \in DOMAIN b /\ Q[i] = b[i - (z + 1)]
      BY <1>1, <1>2, <3>2
    <3>4. i - 1 \in DOMAIN P /\ P[i - 1] = Q[i]
      BY <1>2, <3>2, <3>3
    <3>5. QED
      BY <1>3, <2>1, <2>3, <3>4
  <2>4. QED
    BY <2>2, <2>3
<1>5. ASSUME NEW i \in DOMAIN Q, NEW j \in DOMAIN Q, i < j, IsCommand(Q[i]), IsCommand(Q[j])
      PROVE  g[i] < g[j]
  <2>1. i \in Nat /\ j \in Nat /\ i # z + 1 /\ j # z + 1
    BY <1>2, <1>4, <1>5
  <2>2. QED
    BY <1>1, <1>3, <1>5, <2>1
<1>6. ASSUME NEW p \in DOMAIN P, Stamped(P[p]) PROVE \E i \in DOMAIN Q : Stamped(Q[i]) /\ g[i] = p
  <2>1. CASE p \in DOMAIN a
    <3>1. p \in DOMAIN d /\ p <= z
      BY <1>1, <2>1
    <3>2. p \in DOMAIN Q /\ Q[p] = P[p]
      BY <1>1, <1>2, <2>1, <3>1
    <3>3. g[p] = p
      BY <1>3, <3>1, <3>2
    <3>4. QED
      BY <1>6, <3>2, <3>3
  <2>2. CASE p \notin DOMAIN a
    <3>1. p - z \in DOMAIN b /\ P[p] = b[p - z] /\ p \in Nat /\ p > z
      BY <1>2, <2>2
    <3>2. (p - z) + (z + 1) \in DOMAIN Q /\ Q[(p - z) + (z + 1)] = P[p]
      BY <1>2, <3>1
    <3>3. z \in Nat /\ p \in Nat /\ p > z
      BY <1>1, <3>1
    <3>4. (p - z) + (z + 1) = p + 1 /\ ~(p + 1 <= z) /\ (p + 1) - 1 = p
      BY <3>3
    <3>5. QED
      BY <1>3, <1>6, <3>2, <3>4
  <2>3. QED
    BY <2>1, <2>2
<1>7. Among(g, Q, P)
  BY <1>4, <1>5 DEF Among
<1>8. StreamOK(L, P, n, N, S)
  BY DEF P
<1>9. StreamOK(L, Q, n, N, S)
  BY <1>2, <1>6, <1>7, <1>8, StreamCarry
<1>10. QED
  BY <1>9 DEF Q, d

\* A packet that is no command of the log is taken out of the middle.
LEMMA StreamGap ==
    ASSUME NEW a \in Seq(ServerPacket), NEW b \in Seq(ServerPacket), b # <<>>, ~Stamped(b[1]),
           NEW L \in Seq(LogCmd), NEW n \in 0 .. Len(L), NEW N, Downward(N), NEW S,
           StreamOK(L, a \o b, n, N, S)
    PROVE  StreamOK(L, a \o Tail(b), n, N, S)
<1> DEFINE P == a \o b
           d == Tail(b)
           Q == a \o d
           z == Len(a)
           g == [i \in DOMAIN Q |-> IF i <= z THEN i ELSE i + 1]
<1>1. /\ d \in Seq(ServerPacket) /\ z \in Nat /\ DOMAIN a = 1 .. z
      /\ \A i \in DOMAIN d : i + 1 \in DOMAIN b /\ d[i] = b[i + 1]
      /\ \A i \in DOMAIN b : i # 1 => i - 1 \in DOMAIN d
      /\ \A i \in DOMAIN b : i \in Nat
      /\ \A i \in DOMAIN d : i \in Nat
  OBVIOUS
<1> HIDE DEF d
<1>2. /\ P \in Seq(ServerPacket) /\ Q \in Seq(ServerPacket)
      /\ \A i \in DOMAIN a : i \in DOMAIN P /\ P[i] = a[i] /\ i \in DOMAIN Q /\ Q[i] = a[i]
      /\ \A i \in DOMAIN b : i + z \in DOMAIN P /\ P[i + z] = b[i]
      /\ \A i \in DOMAIN P : i \notin DOMAIN a => i - z \in DOMAIN b /\ P[i] = b[i - z]
      /\ \A i \in DOMAIN d : i + z \in DOMAIN Q /\ Q[i + z] = d[i]
      /\ \A i \in DOMAIN Q : i \notin DOMAIN a => i - z \in DOMAIN d /\ Q[i] = d[i - z] /\ i > z
  <2>1. /\ P \in Seq(ServerPacket)
        /\ \A i \in DOMAIN a : i \in DOMAIN P /\ P[i] = a[i]
        /\ \A i \in DOMAIN b : i + z \in DOMAIN P /\ P[i + z] = b[i]
        /\ \A i \in DOMAIN P : i \notin DOMAIN a => i - z \in DOMAIN b /\ P[i] = b[i - z]
    BY ConcatFacts
  <2>2. d \in Seq(ServerPacket)
    BY <1>1
  <2>3. /\ Q \in Seq(ServerPacket)
        /\ \A i \in DOMAIN a : i \in DOMAIN Q /\ Q[i] = a[i]
        /\ \A i \in DOMAIN d : i + z \in DOMAIN Q /\ Q[i + z] = d[i]
        /\ \A i \in DOMAIN Q : i \notin DOMAIN a => i - z \in DOMAIN d /\ Q[i] = d[i - z] /\ i > z
    BY ONLY <2>2, a \in Seq(ServerPacket), ConcatFacts
  <2> HIDE DEF P, Q, z
  <2>4. QED
    BY <2>1, <2>3
<1>3. /\ \A i \in DOMAIN P : i \in Nat /\ i # 0
      /\ \A i \in DOMAIN Q : i \in Nat /\ i # 0
  BY <1>2
<1>4. \A i \in DOMAIN Q : g[i] = IF i <= z THEN i ELSE i + 1
  OBVIOUS
<1> HIDE DEF P, Q, z, g
<1>5. ASSUME NEW i \in DOMAIN Q PROVE g[i] \in DOMAIN P /\ Q[i] = P[g[i]]
  <2>1. CASE i <= z
    <3>1. i \in DOMAIN a
      BY <1>1, <1>3, <2>1
    <3>2. QED
      BY <1>2, <1>4, <2>1, <3>1
  <2>2. CASE ~(i <= z)
    <3>1. i \in Nat /\ z \in Nat
      BY <1>1, <1>3
    <3>2. i \notin 1 .. z /\ ((i - z) + 1) + z = i + 1
      BY <2>2, <3>1
    <3>3. i - z \in DOMAIN d /\ Q[i] = d[i - z]
      BY <1>1, <1>2, <3>2
    <3>4. (i - z) + 1 \in DOMAIN b /\ Q[i] = b[(i - z) + 1]
      BY <1>1, <3>3
    <3>5. i + 1 \in DOMAIN P /\ P[i + 1] = Q[i]
      BY <1>2, <3>2, <3>4
    <3>6. QED
      BY <1>4, <2>2, <3>5
  <2>3. QED
    BY <2>1, <2>2
<1>6. ASSUME NEW i \in DOMAIN Q, NEW j \in DOMAIN Q, i < j PROVE g[i] < g[j]
  <2>1. i \in Nat /\ j \in Nat /\ z \in Nat
    BY <1>1, <1>3
  <2>2. QED
    BY <1>4, <1>6, <2>1
<1>7. ASSUME NEW p \in DOMAIN P, Stamped(P[p]) PROVE \E i \in DOMAIN Q : g[i] = p
  <2>1. CASE p \in DOMAIN a
    <3>1. p \in DOMAIN Q /\ p <= z
      BY <1>1, <1>2, <2>1
    <3>2. QED
      BY <1>4, <3>1
  <2>2. CASE p \notin DOMAIN a
    <3>1. p - z \in DOMAIN b /\ P[p] = b[p - z] /\ p \in Nat /\ z \in Nat /\ p \notin 1 .. z /\ p # 0
      BY <1>1, <1>2, <1>3, <2>2
    <3>2. p - z # 1
      BY <1>7, <3>1
    <3>3. (p - z) - 1 \in DOMAIN d
      BY <1>1, <3>1, <3>2
    <3>4. ((p - z) - 1) + z = p - 1 /\ ~(p - 1 <= z) /\ (p - 1) + 1 = p
      <4>1. p \in Nat /\ z \in Nat /\ p \notin 1 .. z /\ p # 0
        BY <3>1
      <4>2. p > z /\ p # z + 1
        BY <3>2, <4>1
      <4>3. p \in Nat /\ z \in Nat
        BY <3>1
      <4>4. ~(p - 1 <= z)
        BY <4>2, <4>3
      <4>5. QED
        BY <4>3, <4>4
    <3>5. p - 1 \in DOMAIN Q
      BY <1>2, <3>3, <3>4
    <3>6. QED
      BY <1>4, <3>4, <3>5
  <2>3. QED
    BY <2>1, <2>2
<1>8. Among(g, Q, P)
  BY <1>5, <1>6 DEF Among
<1>9. \A p \in DOMAIN P : Stamped(P[p]) /\ P[p].step \in N => \E i \in DOMAIN Q : Stamped(Q[i]) /\ g[i] = p
  BY <1>5, <1>7
<1>10. StreamOK(L, P, n, N, S)
  BY DEF P
<1>11. StreamOK(L, Q, n, N, S)
  BY <1>2, <1>8, <1>9, <1>10, StreamCarry
<1>12. QED
  BY <1>11 DEF Q, d

\* The connection is closed: what is in the send queue is lost, and was not near.
LEMMA StreamStop ==
    ASSUME NEW a \in Seq(ServerPacket), NEW b \in Seq(ServerPacket),
           NEW L \in Seq(LogCmd), NEW n \in 0 .. Len(L), NEW N, NEW O, Downward(O), O \subseteq N, NEW S,
           StreamOK(L, a \o b, n, N, S), \A i \in DOMAIN b : Stamped(b[i]) => b[i].step \notin O
    PROVE  StreamOK(L, a, n, O, S)
<1> DEFINE P == a \o b
           g == [i \in DOMAIN a |-> i]
<1>1. /\ P \in Seq(ServerPacket)
      /\ \A i \in DOMAIN a : i \in DOMAIN P /\ P[i] = a[i]
      /\ \A i \in DOMAIN P : i \notin DOMAIN a => i - Len(a) \in DOMAIN b /\ P[i] = b[i - Len(a)]
  BY ConcatFacts
<1>2. \A i \in DOMAIN a : g[i] = i
  OBVIOUS
<1> HIDE DEF P, g
<1>3. Among(g, a, P)
  BY <1>1, <1>2 DEF Among
<1>4. ASSUME NEW p \in DOMAIN P, Stamped(P[p]), P[p].step \in O
      PROVE  \E i \in DOMAIN a : Stamped(a[i]) /\ g[i] = p
  <2>1. p \in DOMAIN a
    BY <1>1, <1>4
  <2>2. QED
    BY <1>1, <1>2, <1>4, <2>1
<1>5. StreamOK(L, P, n, N, S)
  BY DEF P
<1>6. QED
  BY <1>1, <1>3, <1>4, <1>5, StreamCarry

\* The commands behind the first packet are right.
LEMMA CommandsTail ==
    ASSUME NEW P \in Seq(ServerPacket), P # <<>>, NEW L, NEW S, CommandsOK(L, P, S)
    PROVE  CommandsOK(L, Tail(P), S)
<1> DEFINE Q == Tail(P)
<1>1. \A i \in DOMAIN Q : i + 1 \in DOMAIN P /\ Q[i] = P[i + 1] /\ i \in Nat
  OBVIOUS
<1> HIDE DEF Q
<1>2. ASSUME NEW i \in DOMAIN Q, IsCommand(Q[i]) PROVE PacketOK(L, Q[i], S)
  <2>1. PICK r \in DOMAIN P : Q[i] = P[r]
    BY <1>1
  <2>2. PacketOK(L, P[r], S)
    BY <1>2, <2>1 DEF CommandsOK
  <2>3. QED
    BY <2>1, <2>2
<1>3. ASSUME NEW i \in DOMAIN Q, NEW j \in DOMAIN Q, i < j, IsCommand(Q[i]), IsCommand(Q[j])
      PROVE  Q[i].step <= Q[j].step
  <2>1. PICK r \in DOMAIN P : Q[i] = P[r] /\ r = i + 1
    BY <1>1
  <2>2. PICK s \in DOMAIN P : Q[j] = P[s] /\ s = j + 1
    BY <1>1
  <2>3. r < s
    BY <1>1, <1>3, <2>1, <2>2
  <2>4. IsCommand(P[r]) /\ IsCommand(P[s])
    BY <1>3, <2>1, <2>2
  <2>5. P[r].step <= P[s].step
    BY <2>3, <2>4 DEF CommandsOK
  <2>6. QED
    BY <2>1, <2>2, <2>5
<1>4. CommandsOK(L, Q, S)
  BY <1>2, <1>3 DEF CommandsOK
<1>5. QED
  BY <1>4 DEF Q

\* Executing the next command of the log.
LEMMA StreamExecute ==
    ASSUME NEW P \in Seq(ServerPacket), P # <<>>, NEW L \in Seq(LogCmd), LogOK(L),
           NEW n \in 0 .. Len(L), NEW N, Downward(N), NEW S, StreamOK(L, P, n, N, S),
           Stamped(P[1]), P[1].step \in N, P[1].map = MapAt(L, n)
    PROVE  n + 1 \in 0 .. Len(L) /\ n + 1 \in DOMAIN L /\ P[1] = L[n + 1] /\ StreamOK(L, Tail(P), n + 1, N, S)
<1>1. n < Len(L) /\ P[1] = L[n + 1] /\ Follow(Tail(P), L, n + 1, N)
  BY FollowExecute DEF StreamOK
<1>2. CommandsOK(L, Tail(P), S)
  BY CommandsTail DEF StreamOK
<1>3. n + 1 \in 0 .. Len(L) /\ n + 1 \in DOMAIN L
  BY <1>1, LogFacts
<1>4. QED
  BY <1>1, <1>2, <1>3 DEF StreamOK

\* Dropping any other packet.
LEMMA StreamDrop ==
    ASSUME NEW P \in Seq(ServerPacket), P # <<>>, NEW L \in Seq(LogCmd), LogOK(L),
           NEW n \in 0 .. Len(L), NEW N, Downward(N), NEW S, StreamOK(L, P, n, N, S),
           Stamped(P[1]) => P[1].step \in N /\ P[1].map # MapAt(L, n)
    PROVE  StreamOK(L, Tail(P), n, N, S)
<1>1. Follow(Tail(P), L, n, N)
  BY FollowDrop DEF StreamOK
<1>2. CommandsOK(L, Tail(P), S)
  BY CommandsTail DEF StreamOK
<1>3. QED
  BY <1>1, <1>2 DEF StreamOK

\* Throwing away the packets q, none of which is of the world that was reached.
LEMMA StreamCut ==
    ASSUME NEW q \in Seq(ServerPacket), NEW t \in Seq(ServerPacket), NEW L \in Seq(LogCmd), LogOK(L),
           NEW n \in 0 .. Len(L), NEW N, Downward(N), NEW S, StreamOK(L, q \o t, n, N, S),
           \A i \in DOMAIN q : Stamped(q[i]) => q[i].map # MapAt(L, n)
    PROVE  StreamOK(L, t, n, N, S)
<1> DEFINE P == q \o t
           z == Len(q)
<1>1. /\ z \in Nat /\ P \in Seq(ServerPacket)
      /\ \A i \in DOMAIN t : i + z \in DOMAIN P /\ P[i + z] = t[i] /\ i \in Nat
  BY ConcatFacts
<1>2. Follow(t, L, n, N)
  BY FollowCut DEF StreamOK
<1>3. CommandsOK(L, P, S)
  BY DEF StreamOK
<1> HIDE DEF P, z
<1>4. ASSUME NEW i \in DOMAIN t, IsCommand(t[i]) PROVE PacketOK(L, t[i], S)
  <2>1. PICK r \in DOMAIN P : t[i] = P[r]
    BY <1>1
  <2>2. PacketOK(L, P[r], S)
    BY <1>3, <1>4, <2>1 DEF CommandsOK
  <2>3. QED
    BY <2>1, <2>2
<1>5. ASSUME NEW i \in DOMAIN t, NEW j \in DOMAIN t, i < j, IsCommand(t[i]), IsCommand(t[j])
      PROVE  t[i].step <= t[j].step
  <2>1. PICK r \in DOMAIN P : t[i] = P[r] /\ r = i + z
    BY <1>1
  <2>2. PICK s \in DOMAIN P : t[j] = P[s] /\ s = j + z
    BY <1>1
  <2>3. r < s
    BY <1>1, <1>5, <2>1, <2>2
  <2>4. IsCommand(P[r]) /\ IsCommand(P[s])
    BY <1>5, <2>1, <2>2
  <2>5. P[r].step <= P[s].step
    BY <1>3, <2>3, <2>4 DEF CommandsOK
  <2>6. QED
    BY <2>1, <2>2, <2>5
<1>6. QED
  BY <1>2, <1>4, <1>5 DEF StreamOK, CommandsOK

\* When nothing is left to be done, and nothing is on its way.
LEMMA StreamNothing ==
    ASSUME NEW P \in Seq(ServerPacket), NEW L \in Seq(LogCmd), NEW N, NEW S,
           \A p \in DOMAIN P : ~IsCommand(P[p])
    PROVE  StreamOK(L, P, Len(L), N, S)
<1>1. \A p \in DOMAIN P : ~Stamped(P[p])
  BY DEF Stamped, IsCommand
<1>2. Follow(P, L, Len(L), N)
  BY <1>1, FollowNothing
<1>3. QED
  BY <1>2 DEF StreamOK, CommandsOK

-----------------------------------------------------------------------------
(* A client and its stream. *)

\* The world w has map counter m, and the first n commands of the log, all of
\* them of steps up to s, have been done to it.
At(L, n, w, m, s) ==
    /\ n \in 0 .. Len(L) /\ w = WorldOf(L, n) /\ m = MapAt(L, n)
    /\ \A i \in 1 .. n : L[i].step <= s

\* Every command of P is of a later step than s.
Ahead(P, s) == \A p \in DOMAIN P : IsCommand(P[p]) => P[p].step > s

\* The game w is followed by P: first the NWC_READY with its map counter, its step
\* and its checklist, then the commands of later steps.
Fresh(L, N, S, w, P) ==
    /\ P # <<>> /\ P[1].kind = "ready"
    /\ \A p \in DOMAIN P : p # 1 => P[p].kind # "ready"
    /\ P[1].step <= S /\ Chk(L, P[1].step, P[1].chk) /\ Ahead(P, P[1].step)
    /\ \E n \in 0 .. Len(L) : At(L, n, w, P[1].map, P[1].step) /\ StreamOK(L, P, n, N, S)

\* The client m knows the checklist of its step, and that of the step before, if
\* it may still be asked for it; a paused one waits for its NWC_READY with
\* nothing to be done at its step.
Settled(L, N, S, m, P) ==
    /\ Chk(L, m.step, LCHKLST(m.chk, m.step))
    /\ \/ m.step > 0 /\ Chk(L, m.step - 1, LCHKLST(m.chk, m.step - 1))
       \/ Ahead(P, m.step)
    /\ m.paused => \A p \in DOMAIN m.queue : Stamped(m.queue[p]) => m.queue[p].step > m.step
    /\ \E n \in 0 .. Len(L) : At(L, n, m.world, m.map, m.step) /\ StreamOK(L, P, n, N, S)

\* A world that was reached before the log was revised is still one.
LEMMA AtKept ==
    ASSUME NEW L \in Seq(LogCmd), NEW M \in Seq(LogCmd), NEW k, NEW z \in Nat, Revises(M, L, k, z),
           NEW n, NEW w, NEW m, NEW s \in Nat, s < z, At(L, n, w, m, s)
    PROVE  n \in 0 .. Len(L) /\ n <= k /\ At(M, n, w, m, s)
<1>1. /\ n \in 0 .. Len(L) /\ w = WorldOf(L, n) /\ m = MapAt(L, n) /\ \A i \in 1 .. n : L[i].step <= s
  BY DEF At
<1>2. /\ k \in Nat /\ n \in Nat /\ Len(L) \in Nat /\ Len(M) \in Nat /\ k <= Len(L) /\ k <= Len(M)
      /\ n <= Len(L)
  BY <1>1, LogFacts DEF Revises
<1>3. n <= k
  <2> SUFFICES ASSUME k < n PROVE FALSE
    BY <1>2
  <2>1. k + 1 \in 1 .. n /\ k + 1 \in k + 1 .. Len(L) /\ k + 1 \in 1 .. Len(L)
    BY <1>2
  <2>2. L[k + 1].step <= s /\ L[k + 1].step >= z
    BY <1>1, <2>1 DEF Revises
  <2>3. L[k + 1].step \in Nat
    BY <2>1, LogFacts
  <2>4. QED
    BY <2>2, <2>3
<1>4. \A i \in 1 .. n : i \in 1 .. k /\ M[i] = L[i]
  BY <1>2, <1>3 DEF Revises
<1>5. WorldOf(M, n) = WorldOf(L, n)
  BY <1>1, <1>4, WorldOfFacts
<1>6. MapAt(M, n) = MapAt(L, n)
  BY <1>2, <1>4 DEF MapAt
<1>7. n \in 0 .. Len(M)
  BY <1>2, <1>3
<1>8. QED
  BY <1>1, <1>3, <1>4, <1>5, <1>6, <1>7 DEF At

\* Far from a client the log is revised, or only the server gets ahead.
LEMMA FreshFar ==
    ASSUME NEW L \in Seq(LogCmd), NEW M \in Seq(LogCmd), NEW k, NEW z \in Nat, Revises(M, L, k, z),
           NEW N, N \subseteq Nat, \A r \in N : r < z, NEW S \in Nat, NEW T \in Nat, S <= z, S <= T,
           NEW P \in Seq(ServerPacket), NEW w, Fresh(L, N, S, w, P), P[1].step \in N
    PROVE  Fresh(M, N, T, w, P)
<1> DEFINE s == P[1].step
<1>1. /\ P # <<>> /\ P[1].kind = "ready" /\ \A p \in DOMAIN P : p # 1 => P[p].kind # "ready"
      /\ s <= S /\ Chk(L, s, P[1].chk) /\ Ahead(P, s)
  BY DEF Fresh
<1>2. PICK n \in 0 .. Len(L) : At(L, n, w, P[1].map, s) /\ StreamOK(L, P, n, N, S)
  BY DEF Fresh
<1>3. s \in Nat /\ s < z /\ s <= T /\ s <= z
  <2>1. s \in Nat /\ s < z
    OBVIOUS
  <2>2. QED
    BY <1>1, <2>1
<1>4. Chk(M, s, P[1].chk)
  BY <1>1, <1>3, ChkKept
<1>5. n <= k /\ At(M, n, w, P[1].map, s)
  BY <1>2, <1>3, AtKept
<1>6. StreamOK(M, P, n, N, T)
  BY <1>2, <1>5, StreamFar
<1>7. n \in 0 .. Len(M)
  BY <1>5 DEF At
<1>8. QED
  BY <1>1, <1>3, <1>4, <1>5, <1>6, <1>7 DEF Fresh

\* The same for a client that knows its checklists.
LEMMA SettledFar ==
    ASSUME NEW L \in Seq(LogCmd), NEW M \in Seq(LogCmd), NEW k, NEW z \in Nat, Revises(M, L, k, z),
           NEW N, N \subseteq Nat, \A r \in N : r < z, NEW S \in Nat, NEW T \in Nat, S <= z, S <= T,
           NEW P \in Seq(ServerPacket), NEW m, Settled(L, N, S, m, P), m.step \in N
    PROVE  Settled(M, N, T, m, P)
<1> DEFINE s == m.step
<1>1. s \in Nat /\ s < z /\ s <= z
  <2>1. s \in Nat /\ s < z
    OBVIOUS
  <2>2. QED
    BY <2>1
<1>2. PICK n \in 0 .. Len(L) : At(L, n, m.world, m.map, s) /\ StreamOK(L, P, n, N, S)
  BY DEF Settled
<1>3. Chk(M, s, LCHKLST(m.chk, s))
  BY <1>1, ChkKept DEF Settled
<1>4. s > 0 /\ Chk(L, s - 1, LCHKLST(m.chk, s - 1)) => s > 0 /\ Chk(M, s - 1, LCHKLST(m.chk, s - 1))
  <2> SUFFICES ASSUME s > 0, Chk(L, s - 1, LCHKLST(m.chk, s - 1))
               PROVE  Chk(M, s - 1, LCHKLST(m.chk, s - 1))
    OBVIOUS
  <2>1. s - 1 \in Nat /\ s - 1 <= z
    BY <1>1
  <2>2. QED
    BY <2>1, ChkKept
<1>5. n <= k /\ At(M, n, m.world, m.map, s)
  BY <1>1, <1>2, AtKept
<1>6. StreamOK(M, P, n, N, T)
  BY <1>2, <1>5, StreamFar
<1>7. n \in 0 .. Len(M)
  BY <1>5 DEF At
<1>8. QED
  BY <1>3, <1>4, <1>5, <1>6, <1>7 DEF Settled

\* The server sends a command to a client that it has sent a game to.
LEMMA FreshSend ==
    ASSUME NEW L \in Seq(LogCmd), LogOK(L), NEW M, NEW S \in Nat, NEW x \in LogCmd,
           Sent(M, L, x), x.step = S + 1, PacketOK(L, x, S),
           NEW P \in Seq(ServerPacket), NEW w, Fresh(L, Nat, S, w, P)
    PROVE  Fresh(M, Nat, S, w, Append(P, x))
<1> DEFINE s == P[1].step
           Q == Append(P, x)
           z == Len(P) + 1
<1>1. /\ P # <<>> /\ P[1].kind = "ready" /\ \A p \in DOMAIN P : p # 1 => P[p].kind # "ready"
      /\ s <= S /\ Chk(L, s, P[1].chk) /\ Ahead(P, s)
  BY DEF Fresh
<1>2. PICK n \in 0 .. Len(L) : At(L, n, w, P[1].map, s) /\ StreamOK(L, P, n, Nat, S)
  BY DEF Fresh
<1>3. s \in Nat /\ S + 1 \in Nat /\ s < S + 1 /\ s <= S + 1
  <2>1. s \in Nat
    BY <1>1, StepFacts
  <2>2. QED
    BY <1>1, <2>1
<1>4. M \in Seq(LogCmd) /\ Revises(M, L, Len(L), S + 1)
  BY SentFacts
<1>5. Chk(M, s, P[1].chk)
  BY <1>1, <1>3, <1>4, ChkKept
<1>6. At(M, n, w, P[1].map, s) /\ n \in 0 .. Len(M)
  <2>1. At(M, n, w, P[1].map, s)
    BY <1>2, <1>3, <1>4, AtKept
  <2>2. QED
    BY <2>1 DEF At
<1>7. StreamOK(M, Q, n, Nat, S)
  BY <1>2, StreamSend
<1>8. /\ Q # <<>> /\ Q[1] = P[1] /\ x.kind # "ready"
      /\ \A p \in DOMAIN Q : (p \in DOMAIN P /\ Q[p] = P[p]) \/ Q[p] = x
  <2>1. x \in ServerPacket /\ x.kind # "ready"
    BY DEF LogCmd, ToolCmd, SyncCmd, ServerPacket, WorldCmd
  <2>2. \A p \in DOMAIN Q : (p \in DOMAIN P /\ Q[p] = P[p]) \/ Q[p] = x
    BY <2>1
  <2>3. Q # <<>> /\ Q[1] = P[1]
    BY <1>1, <2>1
  <2>4. QED
    BY <2>1, <2>2, <2>3
<1> HIDE DEF Q
<1>9. \A p \in DOMAIN Q : p # 1 => Q[p].kind # "ready"
  BY <1>1, <1>8
<1>10. Ahead(Q, s)
  <2>1. x.step > s
    BY <1>3
  <2>2. QED
    BY <1>1, <1>8, <2>1 DEF Ahead
<1>11. Fresh(M, Nat, S, w, Q)
  BY <1>1, <1>5, <1>6, <1>7, <1>8, <1>9, <1>10 DEF Fresh
<1>12. QED
  BY <1>11 DEF Q

\* The same for a client that knows its checklists.
LEMMA SettledSend ==
    ASSUME NEW L \in Seq(LogCmd), LogOK(L), NEW M, NEW S \in Nat, NEW x \in LogCmd,
           Sent(M, L, x), x.step = S + 1, PacketOK(L, x, S),
           NEW P \in Seq(ServerPacket), NEW m, Settled(L, Nat, S, m, P), m.step \in Nat, m.step <= S
    PROVE  Settled(M, Nat, S, m, Append(P, x))
<1> DEFINE s == m.step
           Q == Append(P, x)
<1>1. S + 1 \in Nat /\ s \in Nat /\ s < S + 1 /\ s <= S + 1
  OBVIOUS
<1>2. PICK n \in 0 .. Len(L) : At(L, n, m.world, m.map, s) /\ StreamOK(L, P, n, Nat, S)
  BY DEF Settled
<1>3. M \in Seq(LogCmd) /\ Revises(M, L, Len(L), S + 1)
  BY SentFacts
<1>4. Chk(M, s, LCHKLST(m.chk, s))
  BY <1>1, <1>3, ChkKept DEF Settled
<1>5. s > 0 /\ Chk(L, s - 1, LCHKLST(m.chk, s - 1)) => s > 0 /\ Chk(M, s - 1, LCHKLST(m.chk, s - 1))
  <2> SUFFICES ASSUME s > 0, Chk(L, s - 1, LCHKLST(m.chk, s - 1))
               PROVE  Chk(M, s - 1, LCHKLST(m.chk, s - 1))
    OBVIOUS
  <2>1. s - 1 \in Nat /\ s - 1 <= S + 1
    BY <1>1
  <2>2. QED
    BY <1>1, <1>3, <2>1, ChkKept
<1>6. At(M, n, m.world, m.map, s) /\ n \in 0 .. Len(M)
  <2>1. At(M, n, m.world, m.map, s)
    BY <1>1, <1>2, <1>3, AtKept
  <2>2. QED
    BY <2>1 DEF At
<1>7. StreamOK(M, Q, n, Nat, S)
  BY <1>2, StreamSend
<1>8. \A p \in DOMAIN Q : (p \in DOMAIN P /\ Q[p] = P[p]) \/ Q[p] = x
  <2>1. x \in ServerPacket
    BY DEF LogCmd, ToolCmd, SyncCmd, ServerPacket, WorldCmd
  <2>2. QED
    BY <2>1
<1> HIDE DEF Q
<1>9. Ahead(P, s) => Ahead(Q, s)
  BY <1>1, <1>8 DEF Ahead
<1>10. Settled(M, Nat, S, m, Q)
  BY <1>4, <1>5, <1>6, <1>7, <1>9 DEF Settled
<1>11. QED
  BY <1>10 DEF Q

\* The packets become Q, whose commands are some of P or later.
LEMMA FreshBecomes ==
    ASSUME NEW L \in Seq(LogCmd), NEW N, NEW O, NEW S \in Nat, NEW T \in Nat, S <= T,
           NEW P \in Seq(ServerPacket), NEW Q \in Seq(ServerPacket), NEW w, Fresh(L, N, S, w, P),
           \A n \in 0 .. Len(L) : StreamOK(L, P, n, N, S) => StreamOK(L, Q, n, O, T),
           Q # <<>>, Q[1] = P[1],
           \A i \in DOMAIN Q : i # 1 => Q[i].kind # "ready",
           \A i \in DOMAIN Q : IsCommand(Q[i]) =>
              Q[i].step > P[1].step \/ \E p \in DOMAIN P : Q[i] = P[p]
    PROVE  Fresh(L, O, T, w, Q)
<1>1. P[1].kind = "ready" /\ P[1].step \in Nat /\ P[1].step <= T
  <2>1. P # <<>> /\ P[1].kind = "ready" /\ P[1].step <= S
    BY DEF Fresh
  <2>2. P[1].step \in Nat
    BY <2>1, StepFacts
  <2>3. QED
    BY <2>1, <2>2
<1>2. Ahead(Q, P[1].step)
  BY DEF Fresh, Ahead
<1>3. PICK n \in 0 .. Len(L) : At(L, n, w, P[1].map, P[1].step) /\ StreamOK(L, P, n, N, S)
  BY DEF Fresh
<1>4. StreamOK(L, Q, n, O, T)
  BY <1>3
<1>5. Chk(L, P[1].step, P[1].chk)
  BY DEF Fresh
<1>6. QED
  BY <1>1, <1>2, <1>3, <1>4, <1>5 DEF Fresh

\* The same for a client that knows its checklists.
LEMMA SettledBecomes ==
    ASSUME NEW L \in Seq(LogCmd), NEW N, NEW O, NEW S, NEW T,
           NEW P \in Seq(ServerPacket), NEW Q \in Seq(ServerPacket), NEW m, Settled(L, N, S, m, P),
           \A n \in 0 .. Len(L) : StreamOK(L, P, n, N, S) => StreamOK(L, Q, n, O, T),
           \A i \in DOMAIN Q : IsCommand(Q[i]) =>
              Q[i].step > m.step \/ \E p \in DOMAIN P : Q[i] = P[p]
    PROVE  Settled(L, O, T, m, Q)
<1>1. Ahead(P, m.step) => Ahead(Q, m.step)
  BY DEF Ahead
<1>2. PICK n \in 0 .. Len(L) : At(L, n, m.world, m.map, m.step) /\ StreamOK(L, P, n, N, S)
  BY DEF Settled
<1>3. StreamOK(L, Q, n, O, T)
  BY <1>2
<1>4. QED
  BY <1>1, <1>2, <1>3 DEF Settled

\* A packet that is no command of the log is added, while the server gets ahead.
LEMMA FreshAppend ==
    ASSUME NEW L \in Seq(LogCmd), NEW N, Downward(N), NEW S \in Nat, NEW T \in Nat, S <= T,
           NEW P \in Seq(ServerPacket), NEW w, Fresh(L, N, S, w, P),
           NEW x \in ServerPacket, ~Stamped(x), x.kind # "ready",
           IsCommand(x) => PacketOK(L, x, T) /\ S < x.step
    PROVE  Fresh(L, N, T, w, Append(P, x))
<1> DEFINE Q == Append(P, x)
<1>1. P # <<>> /\ P[1].step \in Nat /\ P[1].step <= S
  <2>1. P # <<>> /\ P[1].kind = "ready" /\ P[1].step <= S
    BY DEF Fresh
  <2>2. P[1].step \in Nat
    BY <2>1, StepFacts
  <2>3. QED
    BY <2>1, <2>2
<1>2. /\ Q \in Seq(ServerPacket) /\ Q # <<>> /\ Q[1] = P[1]
      /\ \A p \in DOMAIN Q : (p \in DOMAIN P /\ Q[p] = P[p]) \/ Q[p] = x
  BY <1>1
<1>3. \A n \in 0 .. Len(L) : StreamOK(L, P, n, N, S) => StreamOK(L, Q, n, N, T)
  BY StreamAppend
<1> HIDE DEF Q
<1>4. \A i \in DOMAIN Q : i # 1 => Q[i].kind # "ready"
  BY <1>2 DEF Fresh
<1>5. IsCommand(x) => x.step > P[1].step
  <2> SUFFICES ASSUME IsCommand(x) PROVE x.step > P[1].step
    OBVIOUS
  <2>1. x.step \in Nat /\ S < x.step
    BY StepFacts
  <2>2. QED
    BY <1>1, <2>1
<1>6. \A i \in DOMAIN Q : IsCommand(Q[i]) => Q[i].step > P[1].step \/ \E p \in DOMAIN P : Q[i] = P[p]
  BY <1>2, <1>5
<1>7. Fresh(L, N, T, w, Q)
  BY <1>2, <1>3, <1>4, <1>6, FreshBecomes
<1>8. QED
  BY <1>7 DEF Q

\* The same for a client that knows its checklists.
LEMMA SettledAppend ==
    ASSUME NEW L \in Seq(LogCmd), NEW N, Downward(N), NEW S \in Nat, NEW T \in Nat, S <= T,
           NEW P \in Seq(ServerPacket), NEW m, Settled(L, N, S, m, P), m.step \in Nat, m.step <= S,
           NEW x \in ServerPacket, ~Stamped(x),
           IsCommand(x) => PacketOK(L, x, T) /\ S < x.step
    PROVE  Settled(L, N, T, m, Append(P, x))
<1> DEFINE Q == Append(P, x)
<1>1. /\ Q \in Seq(ServerPacket)
      /\ \A p \in DOMAIN Q : (p \in DOMAIN P /\ Q[p] = P[p]) \/ Q[p] = x
  OBVIOUS
<1>2. \A n \in 0 .. Len(L) : StreamOK(L, P, n, N, S) => StreamOK(L, Q, n, N, T)
  BY StreamAppend
<1> HIDE DEF Q
<1>3. IsCommand(x) => x.step > m.step
  <2> SUFFICES ASSUME IsCommand(x) PROVE x.step > m.step
    OBVIOUS
  <2>1. x.step \in Nat /\ S < x.step
    BY StepFacts
  <2>2. QED
    BY <2>1
<1>4. \A i \in DOMAIN Q : IsCommand(Q[i]) => Q[i].step > m.step \/ \E p \in DOMAIN P : Q[i] = P[p]
  BY <1>1, <1>3
<1>5. Settled(L, N, T, m, Q)
  BY <1>1, <1>2, <1>4, SettledBecomes
<1>6. QED
  BY <1>5 DEF Q

\* The server closes the connection: the packets b in its send queue are lost.
LEMMA FreshStop ==
    ASSUME NEW L \in Seq(LogCmd), NEW N, NEW O, Downward(O), O \subseteq N, NEW S \in Nat,
           NEW a \in Seq(ServerPacket), NEW b \in Seq(ServerPacket), NEW w, Fresh(L, N, S, w, a \o b),
           \A i \in DOMAIN b : b[i].kind # "ready" /\ (Stamped(b[i]) => b[i].step \notin O)
    PROVE  Fresh(L, O, S, w, a)
<1> DEFINE P == a \o b
<1>1. /\ P \in Seq(ServerPacket)
      /\ \A i \in DOMAIN a : i \in DOMAIN P /\ a[i] = P[i]
  BY ConcatFacts
<1>2. a # <<>> /\ a[1] = P[1]
  <2>1. P # <<>> /\ P[1].kind = "ready"
    BY DEF Fresh
  <2>2. a # <<>>
    <3> SUFFICES ASSUME a = <<>> PROVE FALSE
      OBVIOUS
    <3>1. P = b
      BY ConcatLaws
    <3>2. 1 \in DOMAIN b
      BY <2>1, <3>1
    <3>3. QED
      BY <2>1, <3>1, <3>2
  <2>3. 1 \in DOMAIN a
    BY <2>2
  <2>4. QED
    BY <1>1, <2>2, <2>3
<1>3. \A n \in 0 .. Len(L) : StreamOK(L, P, n, N, S) => StreamOK(L, a, n, O, S)
  BY StreamStop
<1>4. Fresh(L, N, S, w, P)
  OBVIOUS
<1> HIDE DEF P
<1>5. \A i \in DOMAIN a : i # 1 => a[i].kind # "ready"
  BY <1>1, <1>4 DEF Fresh
<1>6. \A i \in DOMAIN a : IsCommand(a[i]) => a[i].step > P[1].step \/ \E p \in DOMAIN P : a[i] = P[p]
  BY <1>1
<1>7. QED
  BY <1>1, <1>2, <1>3, <1>4, <1>5, <1>6, FreshBecomes

\* The same for a client that knows its checklists.
LEMMA SettledStop ==
    ASSUME NEW L \in Seq(LogCmd), NEW N, NEW O, Downward(O), O \subseteq N, NEW S,
           NEW a \in Seq(ServerPacket), NEW b \in Seq(ServerPacket), NEW m, Settled(L, N, S, m, a \o b),
           \A i \in DOMAIN b : Stamped(b[i]) => b[i].step \notin O
    PROVE  Settled(L, O, S, m, a)
<1> DEFINE P == a \o b
<1>1. /\ P \in Seq(ServerPacket)
      /\ \A i \in DOMAIN a : i \in DOMAIN P /\ a[i] = P[i]
  BY ConcatFacts
<1>2. \A n \in 0 .. Len(L) : StreamOK(L, P, n, N, S) => StreamOK(L, a, n, O, S)
  BY StreamStop
<1>3. Settled(L, N, S, m, P)
  OBVIOUS
<1> HIDE DEF P
<1>4. \A i \in DOMAIN a : IsCommand(a[i]) => a[i].step > m.step \/ \E p \in DOMAIN P : a[i] = P[p]
  BY <1>1
<1>5. QED
  BY <1>1, <1>2, <1>3, <1>4, SettledBecomes

\* A packet that is no command comes in between.
LEMMA SettledInsert ==
    ASSUME NEW L \in Seq(LogCmd), NEW N, Downward(N), NEW S,
           NEW a \in Seq(ServerPacket), NEW b \in Seq(ServerPacket), NEW m, Settled(L, N, S, m, a \o b),
           NEW x \in ServerPacket, ~IsCommand(x)
    PROVE  Settled(L, N, S, m, Append(a, x) \o b)
<1> DEFINE P == a \o b
           d == Append(a, x)
           Q == d \o b
<1>1. /\ d \in Seq(ServerPacket)
      /\ \A i \in DOMAIN d : (i \in DOMAIN a /\ d[i] = a[i]) \/ d[i] = x
  OBVIOUS
<1> HIDE DEF d
<1>2. /\ P \in Seq(ServerPacket) /\ Q \in Seq(ServerPacket)
      /\ \A i \in DOMAIN a : i \in DOMAIN P /\ P[i] = a[i]
      /\ \A i \in DOMAIN b : i + Len(a) \in DOMAIN P /\ P[i + Len(a)] = b[i]
      /\ \A i \in DOMAIN Q : (i \in DOMAIN d /\ Q[i] = d[i]) \/ \E j \in DOMAIN b : Q[i] = b[j]
  <2>1. P \in Seq(ServerPacket) /\ Q \in Seq(ServerPacket)
    BY <1>1, ConcatFacts
  <2>2. /\ \A i \in DOMAIN a : i \in DOMAIN P /\ P[i] = a[i]
        /\ \A i \in DOMAIN b : i + Len(a) \in DOMAIN P /\ P[i + Len(a)] = b[i]
    BY ConcatFacts
  <2>3. /\ \A i \in DOMAIN d : i \in DOMAIN Q /\ Q[i] = d[i]
        /\ \A i \in DOMAIN Q : i \notin DOMAIN d => i - Len(d) \in DOMAIN b /\ Q[i] = b[i - Len(d)]
    BY <1>1, ConcatFacts
  <2> HIDE DEF P, Q
  <2>4. QED
    BY <2>1, <2>2, <2>3
<1>3. \A n \in 0 .. Len(L) : StreamOK(L, P, n, N, S) => StreamOK(L, Q, n, N, S)
  BY StreamInsert DEF d
<1>4. Settled(L, N, S, m, P)
  OBVIOUS
<1> HIDE DEF P, Q
<1>5. \A i \in DOMAIN Q : IsCommand(Q[i]) => Q[i].step > m.step \/ \E p \in DOMAIN P : Q[i] = P[p]
  <2> SUFFICES ASSUME NEW i \in DOMAIN Q, IsCommand(Q[i]) PROVE \E p \in DOMAIN P : Q[i] = P[p]
    OBVIOUS
  <2>1. Q[i] # x
    OBVIOUS
  <2>2. QED
    BY <1>1, <1>2, <2>1
<1>6. Settled(L, N, S, m, Q)
  BY <1>2, <1>3, <1>4, <1>5, SettledBecomes
<1>7. QED
  BY <1>6 DEF Q, d

\* A packet that is no command of the log is taken from the wire.
LEMMA SettledGap ==
    ASSUME NEW L \in Seq(LogCmd), NEW N, Downward(N), NEW S,
           NEW a \in Seq(ServerPacket), NEW b \in Seq(ServerPacket), b # <<>>, ~Stamped(b[1]),
           NEW m, Settled(L, N, S, m, a \o b)
    PROVE  Settled(L, N, S, m, a \o Tail(b))
<1> DEFINE P == a \o b
           d == Tail(b)
           Q == a \o d
<1>1. /\ d \in Seq(ServerPacket)
      /\ \A i \in DOMAIN d : i + 1 \in DOMAIN b /\ d[i] = b[i + 1]
  OBVIOUS
<1> HIDE DEF d
<1>2. /\ P \in Seq(ServerPacket) /\ Q \in Seq(ServerPacket)
      /\ \A i \in DOMAIN a : i \in DOMAIN P /\ P[i] = a[i]
      /\ \A i \in DOMAIN b : i + Len(a) \in DOMAIN P /\ P[i + Len(a)] = b[i]
      /\ \A i \in DOMAIN Q : (i \in DOMAIN a /\ Q[i] = a[i]) \/ \E j \in DOMAIN d : Q[i] = d[j]
  <2>1. P \in Seq(ServerPacket) /\ Q \in Seq(ServerPacket)
    BY <1>1, ConcatFacts
  <2>2. /\ \A i \in DOMAIN a : i \in DOMAIN P /\ P[i] = a[i]
        /\ \A i \in DOMAIN b : i + Len(a) \in DOMAIN P /\ P[i + Len(a)] = b[i]
    BY ConcatFacts
  <2>3. /\ \A i \in DOMAIN a : i \in DOMAIN Q /\ Q[i] = a[i]
        /\ \A i \in DOMAIN Q : i \notin DOMAIN a => i - Len(a) \in DOMAIN d /\ Q[i] = d[i - Len(a)]
    <3>1. d \in Seq(ServerPacket)
      BY <1>1
    <3>2. QED
      BY ONLY <3>1, a \in Seq(ServerPacket), ConcatFacts
  <2> HIDE DEF P, Q
  <2>4. QED
    BY <2>1, <2>2, <2>3
<1>3. \A n \in 0 .. Len(L) : StreamOK(L, P, n, N, S) => StreamOK(L, Q, n, N, S)
  BY StreamGap DEF d
<1>4. Settled(L, N, S, m, P)
  OBVIOUS
<1> HIDE DEF P, Q
<1>5. \A i \in DOMAIN Q : \E p \in DOMAIN P : Q[i] = P[p]
  <2>1. \A j \in DOMAIN d : \E p \in DOMAIN P : d[j] = P[p]
    BY <1>1, <1>2
  <2>2. QED
    BY <1>2, <2>1
<1>6. Settled(L, N, S, m, Q)
  BY <1>2, <1>3, <1>4, <1>5, SettledBecomes
<1>7. QED
  BY <1>6 DEF Q, d

=============================================================================
