----------------------------- MODULE BlockProofs -----------------------------
(* The invariant of BlockReservation and BlockLoad, for any number of       *)
(* trains, tracks and routes, and the properties that follow from it.       *)
EXTENDS BlockLoad, WellFoundedInduction, TLAPS

------------------------------------------------------------------------------
(* Lemmas about the slots of a track and about block_reserver.              *)

Alive == {d \in Train : phase[d] # "gone"}
Pair == [first : Slot, second : Slot]
WayLeg == [corner : SUBSET Side, heading : Side \cup {NoSide}]

\* What is known of a way over a tile, by a slot or a caller, is part of l.
Agrees(s, l) == s.corner \in {{}, l.corner} /\ s.heading \in {NoSide, l.heading}

\* The slots w of tile t, when the trains of A exist and L[d] is the way of
\* train d over the tile.
SlotsOK(t, w, L, A) ==
    /\ w \in Pair
    /\ w.first.cnv \in Train => w.first.cnv # w.second.cnv
    /\ w.second.cnv \in Train => w.first.cnv \in Train
    /\ w.first.cnv \in A /\ w.second.cnv \in A => MayShare(t, w.first, w.second)
    /\ w.first.cnv \in A => Agrees(w.first, L[w.first.cnv])
    /\ w.second.cnv \in A => Agrees(w.second, L[w.second.cnv])

\* From the slots w to the slots v: the trains of A other than c keep the
\* tile, and nobody but c gets it.
OnlyFor(c, A, w, v) ==
    \A d \in Train : /\ d \in A \ {c} /\ Holds(w, d) => Holds(v, d)
                     /\ Holds(v, d) => d = c \/ Holds(w, d)

LEMMA BoundIsAlive == \A s : Bound(s) <=> s.cnv \in Alive
  BY DEF Bound, Alive

LEMMA SharingIsMutual ==
  ASSUME NEW t, NEW p, NEW q, MayShare(t, p, q)
  PROVE  MayShare(t, q, p)
  BY DEF MayShare, DisjointBends, OppositeHeadings

LEMMA CompletedShares ==
  ASSUME NEW t, NEW p \in Slot, NEW q \in Slot, NEW leg \in WayLeg, MayShare(t, p, q)
  PROVE  /\ MayShare(t, Completed(p, leg), q) /\ MayShare(t, q, Completed(p, leg))
         /\ Completed(p, leg) \in Slot /\ Completed(p, leg).cnv = p.cnv
  <1>1. /\ Completed(p, leg) \in Slot /\ Completed(p, leg).cnv = p.cnv
        /\ Completed(p, leg).corner = IF p.corner = {} THEN leg.corner ELSE p.corner
        /\ Completed(p, leg).heading = IF p.heading = NoSide THEN leg.heading ELSE p.heading
    BY DEF Completed, Slot, WayLeg
  <1>2. MayShare(t, Completed(p, leg), q)
    BY <1>1, BlockAssumption DEF MayShare, DisjointBends, OppositeHeadings, BlockAssumption
  <1>3. QED
    BY <1>1, <1>2, SharingIsMutual

LEMMA CompletedAgrees ==
  ASSUME NEW p \in Slot, NEW leg \in WayLeg, NEW l
  PROVE  /\ Completed(p, leg) \in Slot /\ Completed(p, leg).cnv = p.cnv
         /\ Agrees(p, l) /\ Agrees(leg, l) => Agrees(Completed(p, leg), l)
  BY DEF Completed, Slot, WayLeg, Agrees

LEMMA FreeSlot == Free \in Slot /\ Free.cnv = NoTrain /\ NoTrain \notin Train
  BY BlockAssumption DEF Free, Slot, BlockAssumption

LEMMA PromotedOK ==
  ASSUME NEW t, NEW w, NEW L, SlotsOK(t, w, L, Alive)
  PROVE  /\ SlotsOK(t, Promoted(w), L, Alive)
         /\ \A d \in Train : /\ d \in Alive /\ Holds(w, d) => Holds(Promoted(w), d)
                             /\ Holds(Promoted(w), d) => Holds(w, d)
         /\ Promoted(w).second.cnv \in Alive => Promoted(w).first.cnv \in Alive
  <1> DEFINE v == [first |-> w.second, second |-> Free]
  <1>1. w \in Pair /\ w.first \in Slot /\ w.second \in Slot
    BY DEF SlotsOK, Pair
  <1>2. v \in Pair /\ v.first = w.second /\ v.second = Free
    BY <1>1, FreeSlot DEF Pair
  <1>3. Alive \subseteq Train
    BY DEF Alive
  <1>4. CASE w.first.cnv \notin Alive /\ w.second.cnv \in Alive
    <2>1. Promoted(w) = v
      BY <1>4, BoundIsAlive DEF Promoted
    <2>2. QED
      BY <2>1, <1>2, <1>3, <1>4, FreeSlot DEF SlotsOK, Holds
  <1>5. CASE ~(w.first.cnv \notin Alive /\ w.second.cnv \in Alive)
    <2>1. Promoted(w) = w
      BY <1>5, BoundIsAlive DEF Promoted
    <2>2. QED
      BY <2>1, <1>5
  <1>6. QED
    BY <1>4, <1>5

\* schiene_t::reserve: c gets the tile or nothing changes for it, and it may
\* share the tile with the train that has it.
LEMMA ReservedOK ==
  ASSUME NEW t, NEW w, NEW L, SlotsOK(t, w, L, Alive), NEW c \in Alive,
         NEW leg \in WayLeg, Agrees(leg, L[c])
  PROVE  /\ SlotsOK(t, Reserved(t, w, c, leg), L, Alive)
         /\ OnlyFor(c, Alive, w, Reserved(t, w, c, leg))
         /\ Holds(w, c) => Holds(Reserved(t, w, c, leg), c)
  <1> DEFINE v == Reserved(t, w, c, leg)
  <1>1. w \in Pair /\ w.first \in Slot /\ w.second \in Slot
    BY DEF SlotsOK, Pair
  <1>2. Alive \subseteq Train /\ c \in Train
    BY DEF Alive
  <1>3. CASE c = w.first.cnv
    <2> DEFINE s == Completed(w.first, leg)
    <2>1. v = [w EXCEPT !.first = s]
      BY <1>3 DEF Reserved
    <2>2. s \in Slot /\ s.cnv = c /\ Agrees(s, L[c])
      BY <1>1, <1>3, CompletedAgrees DEF SlotsOK
    <2>3. v \in Pair /\ v.first = s /\ v.second = w.second
      BY <2>1, <2>2, <1>1 DEF Pair
    <2>4. w.second.cnv \in Alive => MayShare(t, s, w.second)
      BY <1>1, <1>3, CompletedShares DEF SlotsOK
    <2>5. QED
      BY <2>2, <2>3, <2>4, <1>2, <1>3 DEF SlotsOK, OnlyFor, Holds
  <1>4. CASE c # w.first.cnv /\ c = w.second.cnv
    <2> DEFINE s == Completed(w.second, leg)
    <2>1. v = [w EXCEPT !.second = s]
      BY <1>4 DEF Reserved
    <2>2. s \in Slot /\ s.cnv = c /\ Agrees(s, L[c])
      BY <1>1, <1>4, CompletedAgrees DEF SlotsOK
    <2>3. v \in Pair /\ v.second = s /\ v.first = w.first
      BY <2>1, <2>2, <1>1 DEF Pair
    <2>4. w.first.cnv \in Alive => MayShare(t, w.first, s)
      BY <1>1, <1>4, CompletedShares, SharingIsMutual DEF SlotsOK
    <2>5. QED
      BY <2>2, <2>3, <2>4, <1>2, <1>4 DEF SlotsOK, OnlyFor, Holds
  <1>5. CASE c # w.first.cnv /\ c # w.second.cnv
    <2> DEFINE p == Promoted(w)
               s == SlotOf(c, leg)
    <2>1. v = IF p.first.cnv \notin Alive THEN [p EXCEPT !.first = s]
              ELSE IF p.second.cnv \notin Alive /\ MayShare(t, p.first, leg)
              THEN [p EXCEPT !.second = s] ELSE p
      BY <1>5, BoundIsAlive DEF Reserved
    <2>2. /\ SlotsOK(t, p, L, Alive)
          /\ \A d \in Train : /\ d \in Alive /\ Holds(w, d) => Holds(p, d)
                              /\ Holds(p, d) => Holds(w, d)
          /\ p.second.cnv \in Alive => p.first.cnv \in Alive
      BY PromotedOK
    <2>3. ~Holds(w, c) /\ ~Holds(p, c)
      BY <1>5, <1>2, <2>2 DEF Holds
    <2>4. s \in Slot /\ s.cnv = c /\ Agrees(s, L[c])
      BY <1>2 DEF SlotOf, Slot, WayLeg, Agrees
    <2>5. p \in Pair /\ p.first \in Slot /\ p.second \in Slot
      BY <2>2 DEF SlotsOK, Pair
    <2>6. CASE p.first.cnv \notin Alive
      <3>1. v \in Pair /\ v.first = s /\ v.second = p.second
        BY <2>1, <2>4, <2>5, <2>6 DEF Pair
      <3>2. SlotsOK(t, v, L, Alive)
        BY <3>1, <2>2, <2>3, <2>4, <2>6, <1>2 DEF SlotsOK, Holds
      <3>3. QED
        BY <3>1, <3>2, <2>2, <2>3, <2>4, <2>6, <1>2 DEF OnlyFor, Holds
    <2>7. CASE p.first.cnv \in Alive /\ p.second.cnv \notin Alive /\ MayShare(t, p.first, leg)
      <3>1. v \in Pair /\ v.first = p.first /\ v.second = s
        BY <2>1, <2>4, <2>5, <2>7 DEF Pair
      <3>2. MayShare(t, p.first, s)
        BY <2>7 DEF MayShare, DisjointBends, OppositeHeadings, SlotOf
      <3>3. SlotsOK(t, v, L, Alive)
        BY <3>1, <3>2, <2>2, <2>3, <2>4, <2>7, <1>2 DEF SlotsOK, Holds
      <3>4. QED
        BY <3>1, <3>3, <2>2, <2>3, <2>4, <2>7, <1>2 DEF OnlyFor, Holds
    <2>8. CASE p.first.cnv \in Alive
               /\ ~(p.second.cnv \notin Alive /\ MayShare(t, p.first, leg))
      <3>1. v = p
        BY <2>1, <2>8
      <3>2. QED
        BY <3>1, <2>2, <2>3 DEF OnlyFor
    <2>9. QED
      BY <2>6, <2>7, <2>8
  <1>6. QED
    BY <1>3, <1>4, <1>5

\* schiene_t::unreserve: c has the tile no more, a train that shared it has.
LEMMA UnreservedOK ==
  ASSUME NEW t, NEW w, NEW L, NEW A, A \subseteq Train, SlotsOK(t, w, L, A), NEW c \in Train
  PROVE  /\ SlotsOK(t, Unreserved(w, c), L, A)
         /\ OnlyFor(c, A, w, Unreserved(w, c))
         /\ ~Holds(Unreserved(w, c), c)
  <1>1. w \in Pair /\ w.first \in Slot /\ w.second \in Slot
    BY DEF SlotsOK, Pair
  <1>2. CASE c = w.first.cnv
    <2> DEFINE v == [first |-> w.second, second |-> Free]
    <2>1. Unreserved(w, c) = v
      BY <1>2 DEF Unreserved
    <2>2. v \in Pair /\ v.first = w.second /\ v.second = Free
      BY <1>1, FreeSlot DEF Pair
    <2>3. QED
      BY <2>1, <2>2, <1>2, FreeSlot DEF SlotsOK, OnlyFor, Holds
  <1>3. CASE c # w.first.cnv /\ c = w.second.cnv
    <2> DEFINE v == [w EXCEPT !.second = Free]
    <2>1. Unreserved(w, c) = v
      BY <1>3 DEF Unreserved
    <2>2. v \in Pair /\ v.first = w.first /\ v.second = Free
      BY <1>1, FreeSlot DEF Pair
    <2>3. QED
      BY <2>1, <2>2, <1>3, FreeSlot DEF SlotsOK, OnlyFor, Holds
  <1>4. CASE c # w.first.cnv /\ c # w.second.cnv
    BY <1>4 DEF Unreserved, OnlyFor, Holds
  <1>5. QED
    BY <1>2, <1>3, <1>4

-----------------------------------------------------------------------------
(* Several tiles at once.                                                   *)

\* All tiles, when L[t][d] is the way of d over t.
WaysOK(w, L, A) == w \in [Tile -> Pair] /\ \A t \in Tile : SlotsOK(t, w[t], L[t], A)
\* c works along the route r from the slots w to the slots v.
Along(c, A, w, v) == \A t \in Tile : OnlyFor(c, A, w[t], v[t])
Untouches(r, s, e, w, v) == \A t \in Tile : (\A i \in s..e : r[i] # t) => v[t] = w[t]

LEMMA LegType ==
  ASSUME NEW r \in Seq(Tile), NEW i \in 1..Len(r)
  PROVE  Leg(r, i) \in WayLeg
  <1>1. \A j, k \in 1..Len(r) : Toward[r[j]][r[k]] \in Side
    BY BlockAssumption DEF BlockAssumption
  <1>2. i > 1 => i - 1 \in 1..Len(r)
    OBVIOUS
  <1>3. i < Len(r) => i + 1 \in 1..Len(r)
    OBVIOUS
  <1>4. QED
    BY <1>1, <1>2, <1>3 DEF Leg, WayLeg

LEMMA PlaceFound ==
  ASSUME NEW r \in Seq(Tile), Injective(r), NEW i \in 1..Len(r)
  PROVE  PlaceOf(r, r[i]) = i
  <1>1. DOMAIN r = 1..Len(r)
    OBVIOUS
  <1>2. PlaceOf(r, r[i]) \in DOMAIN r /\ r[PlaceOf(r, r[i])] = r[i]
    BY <1>1 DEF PlaceOf
  <1>3. QED
    BY <1>1, <1>2 DEF Injective

LEMMA AgreesSelf == \A l : Agrees(l, l)
  BY DEF Agrees

LEMMA TakenOK ==
  ASSUME NEW w, NEW L, WaysOK(w, L, Alive), NEW c \in Alive,
         NEW r \in Seq(Tile), Injective(r), \A i \in 1..Len(r) : L[r[i]][c] = Leg(r, i),
         NEW s \in Nat \ {0}, NEW e \in Int, e <= Len(r)
  PROVE  LET v == Taken(w, c, r, s, e)
         IN  /\ WaysOK(v, L, Alive) /\ Along(c, Alive, w, v) /\ Untouches(r, s, e, w, v)
             /\ \A t \in Tile : Holds(w[t], c) => Holds(v[t], c)
             /\ \A i \in s..e : v[r[i]] = Reserved(r[i], w[r[i]], c, Leg(r, i))
  <1> DEFINE v == Taken(w, c, r, s, e)
  <1>1. \A i \in s..e : i \in 1..Len(r) /\ r[i] \in Tile
    OBVIOUS
  <1>2. \A t \in Tile : v[t] = IF \E i \in s..e : r[i] = t
                              THEN Reserved(t, w[t], c, Leg(r, PlaceOf(r, t))) ELSE w[t]
    BY DEF Taken
  <1>3. \A i \in s..e : v[r[i]] = Reserved(r[i], w[r[i]], c, Leg(r, i))
    BY <1>1, <1>2, PlaceFound
  <1>4. ASSUME NEW t \in Tile
        PROVE  /\ SlotsOK(t, v[t], L[t], Alive) /\ OnlyFor(c, Alive, w[t], v[t])
               /\ Holds(w[t], c) => Holds(v[t], c)
    <2>1. CASE \E i \in s..e : r[i] = t
      <3>1. PICK i \in s..e : r[i] = t
        BY <2>1
      <3>2. Leg(r, i) \in WayLeg /\ Agrees(Leg(r, i), L[t][c])
        BY <1>1, <3>1, LegType, AgreesSelf
      <3>3. QED
        BY <1>3, <3>1, <3>2, ReservedOK DEF WaysOK
    <2>2. CASE ~\E i \in s..e : r[i] = t
      BY <1>2, <2>2 DEF WaysOK, OnlyFor
    <2>3. QED
      BY <2>1, <2>2
  <1>5. v \in [Tile -> Pair]
    BY <1>4 DEF Taken, SlotsOK
  <1>6. QED
    BY <1>2, <1>3, <1>4, <1>5 DEF WaysOK, Along, Untouches

LEMMA GivenBackOK ==
  ASSUME NEW w, NEW L, NEW A, A \subseteq Train, WaysOK(w, L, A), NEW c \in Train,
         NEW r, NEW s, NEW e
  PROVE  LET v == GivenBack(w, c, r, s, e)
         IN  /\ WaysOK(v, L, A) /\ Along(c, A, w, v) /\ Untouches(r, s, e, w, v)
             /\ \A t \in Tile : Holds(v[t], c) => Holds(w[t], c)
             /\ \A i \in s..e : r[i] \in Tile => ~Holds(v[r[i]], c)
  <1> DEFINE v == GivenBack(w, c, r, s, e)
  <1>1. \A t \in Tile : v[t] = IF \E i \in s..e : r[i] = t THEN Unreserved(w[t], c) ELSE w[t]
    BY DEF GivenBack
  <1>2. ASSUME NEW t \in Tile
        PROVE  /\ SlotsOK(t, v[t], L[t], A) /\ OnlyFor(c, A, w[t], v[t])
               /\ Holds(v[t], c) => Holds(w[t], c)
               /\ (\E i \in s..e : r[i] = t) => ~Holds(v[t], c)
    <2>1. CASE \E i \in s..e : r[i] = t
      BY <1>1, <2>1, UnreservedOK DEF WaysOK
    <2>2. CASE ~\E i \in s..e : r[i] = t
      BY <1>1, <2>2 DEF WaysOK, OnlyFor
    <2>3. QED
      BY <2>1, <2>2
  <1>3. v \in [Tile -> Pair]
    BY <1>2 DEF GivenBack, SlotsOK
  <1>4. QED
    BY <1>1, <1>2, <1>3 DEF WaysOK, Along, Untouches

LEMMA Minimum ==
  ASSUME NEW S, S \subseteq Nat, S # {}
  PROVE  \E i \in S : \A j \in S : i <= j
  <1>1. PICK i \in S : \A j \in S : ~(<<j, i>> \in OpToRel(<, Nat))
    BY WFMin, NatLessThanWellFounded
  <1>2. \A j \in S : ~(j < i)
    BY <1>1 DEF OpToRel
  <1>3. QED
    BY <1>2

LEMMA BlockEndIs ==
  ASSUME NEW r \in Seq(Tile), NEW s \in 1..Len(r)
  PROVE  BlockEnd(r, s) \in s..Len(r) /\ EndsBlock(r, s, BlockEnd(r, s))
  <1> DEFINE ends == {i \in s..Len(r) : EndsBlock(r, s, i)}
  <1>1. ends \subseteq Nat
    OBVIOUS
  <1>2. Len(r) \in ends
    BY DEF EndsBlock
  <1>3. PICK i \in ends : \A j \in ends : i <= j
    <2> HIDE DEF ends
    <2>1. QED
      BY <1>1, <1>2, Minimum
  <1>4. BlockEnd(r, s) \in ends
    BY <1>3 DEF BlockEnd
  <1>5. QED
    BY <1>4

LEMMA FirstRefusalIs ==
  ASSUME NEW w, NEW c, NEW r \in Seq(Tile), NEW s \in 1..Len(r), ~BlockFree(w, c, r, s)
  PROVE  FirstRefusal(w, c, r, s) \in s..BlockEnd(r, s)
  <1> DEFINE S == Refusals(w, c, r, s)
  <1>1. S \subseteq s..BlockEnd(r, s) /\ S # {}
    BY DEF Refusals, BlockFree
  <1>2. S \subseteq Nat
    BY <1>1, BlockEndIs
  <1>3. PICK i \in S : \A j \in S : i <= j
    <2> HIDE DEF S
    <2>1. QED
      BY <1>1, <1>2, Minimum
  <1>4. FirstRefusal(w, c, r, s) \in S
    BY <1>3 DEF FirstRefusal
  <1>5. QED
    BY <1>1, <1>4

LEMMA AlongTwice ==
  ASSUME NEW c, NEW A, NEW u, NEW v, NEW w, Along(c, A, u, v), Along(c, A, v, w)
  PROVE  Along(c, A, u, w)
  BY DEF Along, OnlyFor

\* block_reserver: all tiles of the block or, of those from s on, none that c
\* did not have before and behind.
LEMMA BlockOK ==
  ASSUME NEW w, NEW L, WaysOK(w, L, Alive), NEW c \in Alive,
         NEW r \in Seq(Tile), Injective(r), \A i \in 1..Len(r) : L[r[i]][c] = Leg(r, i),
         NEW s \in 1..Len(r)
  PROVE  LET v == Block(w, c, r, s)
         IN  /\ WaysOK(v, L, Alive) /\ Along(c, Alive, w, v) /\ Untouches(r, s, Len(r), w, v)
             /\ BlockFree(w, c, r, s) =>
                   /\ \A t \in Tile : Holds(w[t], c) => Holds(v[t], c)
                   /\ \A i \in s..BlockEnd(r, s) : Holds(v[r[i]], c)
                   /\ Untouches(r, s, BlockEnd(r, s), w, v)
             /\ ~BlockFree(w, c, r, s) =>
                   \A t \in Tile : Holds(v[t], c) => Holds(w[t], c)
  <1> DEFINE v == Block(w, c, r, s)
             e == BlockEnd(r, s)
  <1>1. e \in s..Len(r)
    BY BlockEndIs
  <1>2. CASE BlockFree(w, c, r, s)
    <2>1. v = Taken(w, c, r, s, e)
      BY <1>2 DEF Block
    <2>2. \A i \in s..e : Holds(Reserved(r[i], w[r[i]], c, Leg(r, i)), c)
      BY <1>2 DEF BlockFree, Refusals
    <2>3. /\ WaysOK(v, L, Alive) /\ Along(c, Alive, w, v) /\ Untouches(r, s, e, w, v)
          /\ \A t \in Tile : Holds(w[t], c) => Holds(v[t], c)
          /\ \A i \in s..e : v[r[i]] = Reserved(r[i], w[r[i]], c, Leg(r, i))
      BY <2>1, <1>1, TakenOK
    <2>4. Untouches(r, s, Len(r), w, v)
      BY <2>3, <1>1 DEF Untouches
    <2>5. QED
      BY <1>2, <2>2, <2>3, <2>4
  <1>3. CASE ~BlockFree(w, c, r, s)
    <2> DEFINE k == FirstRefusal(w, c, r, s)
               u == Taken(w, c, r, s, k)
    <2>1. k \in s..e
      BY <1>3, FirstRefusalIs
    <2>2. v = GivenBack(u, c, r, s, k)
      BY <1>3 DEF Block
    <2>3. WaysOK(u, L, Alive) /\ Along(c, Alive, w, u) /\ Untouches(r, s, k, w, u)
      BY <1>1, <2>1, TakenOK
    <2>4. /\ WaysOK(v, L, Alive) /\ Along(c, Alive, u, v) /\ Untouches(r, s, k, u, v)
          /\ \A i \in s..k : r[i] \in Tile => ~Holds(v[r[i]], c)
      <3>1. Alive \subseteq Train /\ c \in Train
        BY DEF Alive
      <3>2. QED
        BY <2>2, <2>3, <3>1, GivenBackOK
    <2>5. Along(c, Alive, w, v)
      BY <2>3, <2>4, AlongTwice
    <2>6. Untouches(r, s, k, w, v)
      BY <2>3, <2>4 DEF Untouches
    <2>7. Untouches(r, s, Len(r), w, v)
      BY <2>6, <2>1, <1>1 DEF Untouches
    <2>8. \A t \in Tile : Holds(v[t], c) => Holds(w[t], c)
      BY <2>4, <2>6 DEF Untouches
    <2>9. QED
      BY <1>3, <2>4, <2>5, <2>7, <2>8
  <1>4. QED
    BY <1>2, <1>3

------------------------------------------------------------------------------
(* The invariant.                                                           *)

Ways == [t \in Tile |-> [d \in Train |-> LegOn(d, t)]]

\* Where the next signal is and how far a train has reserved.
ReachOK(c) ==
    /\ stop[c] # 0 => stop[c] < Len(route[c])
    /\ phase[c] \in {"canstart", "waiting"} => front[c] < Len(route[c])
    /\ phase[c] = "loading" => front[c] = Len(route[c])
    /\ phase[c] \in {"canstart", "noroute"} => granted[c] <= front[c]
    /\ phase[c] \in {"driving", "waiting"} /\ stop[c] # 0 =>
          granted[c] <= stop[c] \/ granted[c] <= front[c]
HoldingsOK(c) ==
    \A t \in Tile : Live(c) /\ Holds(way[t], c) =>
        \E i \in back[c]..Len(route[c]) :
            route[c][i] = t /\ (i <= front[c] \/ i <= granted[c])
TrainOK(c) == ReachOK(c) /\ HoldingsOK(c)

\* What no action breaks, not even Load.
Base == /\ TypeOK
        /\ WaysOK(way, Ways, Alive)
        /\ \A c \in Train : TrainOK(c)

\* The signal to ask is one, and the ways are held: the first not after a
\* Load, the second if c does not come to a tile that is free for can_reserve
\* only.
SignalOK(c) == stop[c] # 0 => HasSignal(route[c][stop[c]])
WayOK(c) == Live(c) /\ ~lost[c] => HoldsWay(c)
Sighted(c) == \/ stop[c] # 0 /\ stop[c] = front[c] => HasSignal(route[c][stop[c]])
              \/ NoStaleSlot

Inv == Base /\ \A c \in Train : WayOK(c)

\* The part of TypeOK that is about one train.
PlacesOK(c) ==
    /\ route[c] \in Routes[c]
    /\ 1 <= back[c] /\ back[c] <= front[c] /\ front[c] <= Len(route[c])
    /\ front[c] - back[c] <= Length[c]
    /\ stop[c] <= Len(route[c]) /\ granted[c] <= Len(route[c])
    /\ trips[c] <= MaxTrips[c]

LEMMA TrainTypes ==
  ASSUME TypeOK, NEW c \in Train
  PROVE  /\ PlacesOK(c) /\ route[c] \in Seq(Tile) /\ Injective(route[c])
         /\ phase[c] \in Phases /\ lost[c] \in BOOLEAN
         /\ front[c] \in Nat /\ back[c] \in Nat /\ stop[c] \in Nat
         /\ granted[c] \in Nat /\ trips[c] \in Nat
         /\ Length[c] \in Nat \ {0}
         /\ Len(route[c]) \in Nat
         /\ \A i \in 1..Len(route[c]) : route[c][i] \in Tile
  BY BlockAssumption DEF TypeOK, PlacesOK, BlockAssumption

LEMMA WaysAre ==
  ASSUME TypeOK, NEW c \in Train
  PROVE  /\ \A t \in Tile : Ways[t][c] = LegOn(c, t)
         /\ \A i \in 1..Len(route[c]) : Ways[route[c][i]][c] = Leg(route[c], i)
  <1>1. \A t \in Tile : Ways[t][c] = LegOn(c, t)
    BY DEF Ways
  <1>2. \A i \in 1..Len(route[c]) : LegOn(c, route[c][i]) = Leg(route[c], i)
    BY TrainTypes, PlaceFound DEF LegOn
  <1>3. QED
    BY <1>1, <1>2, TrainTypes

\* What an action of c leaves alone: the other trains, who keep their tiles
\* and get one only if they stand on it.
Spared(d) ==
    /\ phase'[d] = phase[d] /\ route'[d] = route[d] /\ front'[d] = front[d]
    /\ back'[d] = back[d] /\ stop'[d] = stop[d] /\ granted'[d] = granted[d]
    /\ trips'[d] = trips[d] /\ lost'[d] = lost[d]
TilesKept(d) ==
    \A t \in Tile : /\ Holds(way[t], d) => Holds(way'[t], d)
                    /\ Holds(way'[t], d) => Holds(way[t], d) \/ Standing(d, t)

LEMMA OthersOK ==
  ASSUME Base, NEW d \in Train, Spared(d), phase[d] # "gone" => TilesKept(d)
  PROVE  /\ PlacesOK(d)' /\ TrainOK(d)'
         /\ WayOK(d) => WayOK(d)'
         /\ SignalOK(d) => SignalOK(d)'
  <1>1. PlacesOK(d)' /\ ReachOK(d)'
    BY TrainTypes DEF Base, TrainOK, ReachOK, PlacesOK, Spared
  <1>2. HoldingsOK(d)'
    <2>1. SUFFICES ASSUME NEW t \in Tile, Live(d), Holds(way'[t], d)
                   PROVE  \E i \in back[d]..Len(route[d]) :
                            route[d][i] = t /\ (i <= front[d] \/ i <= granted[d])
      BY DEF HoldingsOK, Spared, Live
    <2>2. Holds(way[t], d) \/ Standing(d, t)
      BY <2>1 DEF TilesKept, Live
    <2>3. CASE Holds(way[t], d)
      BY <2>1, <2>3 DEF Base, TrainOK, HoldingsOK
    <2>4. CASE Standing(d, t)
      <3>1. PICK i \in back[d]..front[d] : route[d][i] = t
        BY <2>4 DEF Standing, Occupied
      <3>2. i \in back[d]..Len(route[d]) /\ i <= front[d]
        BY TrainTypes DEF Base, PlacesOK
      <3>3. QED
        BY <3>1, <3>2
    <2>5. QED
      BY <2>2, <2>3, <2>4
  <1>3. WayOK(d) => WayOK(d)'
    <2>1. SUFFICES ASSUME WayOK(d), Live(d), ~lost[d]
                   PROVE  HoldsWay(d)'
      BY DEF WayOK, Spared, Live
    <2>2. HoldsWay(d) /\ TilesKept(d)
      BY <2>1 DEF WayOK, Live
    <2>3. Limit(d)' = Limit(d) /\ Limit(d) <= Len(route[d]) /\ Limit(d) \in Nat
      BY TrainTypes DEF Limit, Spared, Base, PlacesOK
    <2>4. \A i \in back[d]..Limit(d) : route[d][i] \in Tile
      BY <2>3, TrainTypes DEF Base, PlacesOK
    <2>5. QED
      BY <2>2, <2>3, <2>4 DEF HoldsWay, TilesKept, Spared
  <1>4. SignalOK(d) => SignalOK(d)'
    BY DEF SignalOK, Spared
  <1>5. QED
    BY <1>1, <1>2, <1>3, <1>4 DEF TrainOK

LEMMA FewerAlive ==
  ASSUME NEW w, NEW L, NEW A, NEW B, B \subseteq A, WaysOK(w, L, A)
  PROVE  WaysOK(w, L, B)
  BY DEF WaysOK, SlotsOK

LEMMA SameWays == ASSUME route' = route PROVE Ways' = Ways
  BY DEF Ways, LegOn

Typed ==
    /\ phase \in [Train -> Phases] /\ lost \in [Train -> BOOLEAN]
    /\ route \in [Train -> Seq(Tile)]
    /\ front \in [Train -> Nat] /\ back \in [Train -> Nat] /\ stop \in [Train -> Nat]
    /\ granted \in [Train -> Nat] /\ trips \in [Train -> Nat]
    /\ events \in 0..MaxEvents

LEMMA TypeOKIs == ASSUME TypeOK PROVE Typed /\ way \in [Tile -> Pair]
  BY DEF TypeOK, Typed, Pair

LEMMA AlongKeeps ==
  ASSUME NEW c \in Train, Along(c, Alive, way, way'),
         NEW d \in Train \ {c}, phase[d] # "gone"
  PROVE  TilesKept(d)
  BY DEF Along, OnlyFor, TilesKept, Alive

OthersKeep(c) == \A d \in Train \ {c} : phase[d] # "gone" => TilesKept(d)

\* What an action of c does to the invariants.
Keeps(c) == /\ Base' /\ OthersKeep(c)
            /\ \A d \in Train : /\ Sighted(c) /\ WayOK(d) => WayOK(d)'
                                /\ SignalOK(d) => SignalOK(d)'

LEMMA StepOK ==
  ASSUME Base, NEW c \in Train, Typed', PlacesOK(c)', TrainOK(c)',
         WaysOK(way', Ways', Alive'),
         Sighted(c) /\ WayOK(c) => WayOK(c)', SignalOK(c) => SignalOK(c)',
         \A d \in Train \ {c} : Spared(d) /\ (phase[d] # "gone" => TilesKept(d))
  PROVE  Keeps(c)
  <1>1. \A d \in Train \ {c} : /\ PlacesOK(d)' /\ TrainOK(d)'
                               /\ WayOK(d) => WayOK(d)'
                               /\ SignalOK(d) => SignalOK(d)'
    BY OthersOK
  <1>2. way' \in [Tile -> Pair]
    BY DEF WaysOK
  <1>3. TypeOK'
    BY <1>1, <1>2 DEF TypeOK, Typed, PlacesOK, Pair
  <1>4. Base'
    BY <1>1, <1>3 DEF Base
  <1>5. QED
    BY <1>1, <1>4 DEF Keeps, OthersKeep

\* For an action that changes no route and brings no train back.
LEMMA SameRoutes ==
  ASSUME Base, route' = route, NEW c \in Train, phase' \in [Train -> Phases],
         \A d \in Train \ {c} : phase'[d] = phase[d], phase[c] # "gone",
         WaysOK(way', Ways, Alive)
  PROVE  WaysOK(way', Ways', Alive')
  <1>1. Alive' \subseteq Alive
    BY DEF Alive
  <1>2. QED
    BY <1>1, FewerAlive, SameWays

-----------------------------------------------------------------------------
(* can_enter_tile: what asking for the next block does.                     *)

\* The last place of the train's own way, as stop[c] tells it.
Reach(c) == IF stop[c] = 0 THEN Len(route[c])
            ELSE IF stop[c] > front[c] THEN stop[c] ELSE front[c]
\* The state after the asking, before the vehicle hops.
Asked(c) ==
    LET w == WayAsked(c)
        reach == IF stop'[c] = 0 THEN Len(route[c])
                 ELSE IF stop'[c] > front[c] THEN stop'[c] ELSE front[c]
    IN  /\ WaysOK(w, Ways, Alive) /\ Along(c, Alive, way, w)
        /\ stop'[c] # 0 => stop'[c] < Len(route[c])
        /\ stop'[c] # 0 /\ stop'[c] # stop[c] => HasSignal(route[c][stop'[c]])
        /\ stop'[c] # 0 => granted'[c] <= reach
        /\ granted'[c] <= Len(route[c])
        /\ stop'[c] \in Nat /\ granted'[c] \in Nat
        /\ \A t \in Tile : Holds(way[t], c) => Holds(w[t], c)
        /\ \A t \in Tile : Holds(w[t], c) =>
              \E i \in back[c]..Len(route[c]) :
                  route[c][i] = t /\ (i <= front[c] \/ i <= granted'[c])
        /\ WayOK(c) /\ ~lost[c] => \A i \in back[c]..reach : Holds(w[route[c][i]], c)
        /\ MayGo(c) /\ Sighted(c) => \/ front[c] + 1 <= reach
                                     \/ NextFree(c) /\ w = way /\ NoStaleSlot
        /\ reach \in Nat /\ reach >= front[c] /\ reach <= Len(route[c])

LEMMA AskedOK ==
  ASSUME Base, NEW c \in Train, phase[c] \in {"driving", "waiting"},
         front[c] < Len(route[c]), PlacesAsked(c)
  PROVE  /\ Asked(c)
         /\ stop' \in [Train -> Nat] /\ granted' \in [Train -> Nat]
         /\ \A d \in Train \ {c} : stop'[d] = stop[d] /\ granted'[d] = granted[d]
  <1> DEFINE r == route[c]
             s == AskFrom(c)
             e == BlockEnd(r, s)
             w == WayAsked(c)
  <1>1. /\ PlacesOK(c) /\ r \in Seq(Tile) /\ Injective(r) /\ Len(r) \in Nat
        /\ front[c] \in Nat /\ back[c] \in Nat /\ stop[c] \in Nat /\ granted[c] \in Nat
        /\ Typed /\ ReachOK(c) /\ HoldingsOK(c)
        /\ \A i \in 1..Len(r) : r[i] \in Tile
    BY TrainTypes, TypeOKIs DEF Base, TrainOK
  <1>2. c \in Alive /\ Live(c)
    BY DEF Alive, Live
  <1>3. WaysOK(way, Ways, Alive) /\ \A i \in 1..Len(r) : Ways[r[i]][c] = Leg(r, i)
    BY WaysAre DEF Base
  <1>4. WayOK(c) /\ ~lost[c] => \A i \in back[c]..Reach(c) : Holds(way[r[i]], c)
    BY <1>1, <1>2 DEF WayOK, HoldsWay, Limit, Reach
  <1>5. \A t \in Tile : Holds(way[t], c) =>
              \E i \in back[c]..Len(r) : r[i] = t /\ (i <= front[c] \/ i <= granted[c])
    BY <1>1, <1>2 DEF HoldingsOK
  <1>6. CASE ~Tries(c)
    <2>1. w = way /\ stop' = stop /\ granted' = granted
      BY <1>6 DEF WayAsked, PlacesAsked, Clear
    <2>2. MayGo(c) => s = 0
      BY <1>6 DEF MayGo, Tries
    <2>3. s = 0 => \/ stop[c] = 0 \/ stop[c] > front[c]
                   \/ stop[c] # 0 /\ stop[c] = front[c] /\ ~HasSignal(r[stop[c]])
      BY <1>1 DEF AskFrom, LookAhead, ReachOK
    <2>4. MayGo(c) /\ Sighted(c) => front[c] + 1 <= Reach(c) \/ NoStaleSlot
      <3>1. stop[c] = 0 \/ stop[c] > front[c] => front[c] + 1 <= Reach(c)
        BY <1>1 DEF Reach, ReachOK
      <3>2. QED
        BY <2>2, <2>3, <3>1 DEF Sighted
    <2>5. MayGo(c) /\ Sighted(c) =>
             \/ front[c] + 1 <= Reach(c)
             \/ NextFree(c) /\ w = way /\ NoStaleSlot
      BY <2>1, <2>4 DEF MayGo
    <2>6. Along(c, Alive, way, w)
      BY <2>1 DEF Along, OnlyFor
    <2> HIDE DEF w, s
    <2>7. QED
      BY <2>1, <2>5, <2>6, <1>1, <1>3, <1>4, <1>5 DEF Asked, Reach, ReachOK, Typed, PlacesOK, w
  <1>7. CASE Tries(c)
    <2>1. /\ stop[c] # 0 /\ stop[c] < Len(r) /\ s \in 1..Len(r)
          /\ s = Reach(c) + 1 /\ Reach(c) \in Nat /\ Reach(c) >= front[c]
      <3>1. /\ stop[c] # 0 /\ stop[c] < Len(r)
            /\ s = IF stop[c] < front[c] THEN front[c] + 1 ELSE stop[c] + 1
        BY <1>1, <1>7 DEF Tries, AskFrom, ReachOK
      <3>2. Reach(c) = IF stop[c] < front[c] THEN front[c] ELSE stop[c]
        BY <3>1, <1>1 DEF Reach
      <3> HIDE DEF s
      <3>3. QED
        BY <3>1, <3>2, <1>1
    <2>2. w = Block(way, c, r, s)
      BY <1>7 DEF WayAsked
    <2>3. /\ WaysOK(w, Ways, Alive) /\ Along(c, Alive, way, w)
          /\ Untouches(r, s, Len(r), way, w)
          /\ BlockFree(way, c, r, s) =>
                /\ \A t \in Tile : Holds(way[t], c) => Holds(w[t], c)
                /\ \A i \in s..e : Holds(w[r[i]], c)
                /\ Untouches(r, s, e, way, w)
          /\ ~BlockFree(way, c, r, s) => \A t \in Tile : Holds(w[t], c) => Holds(way[t], c)
      <3> HIDE DEF r, s, w
      <3>1. QED
        BY <2>1, <2>2, <1>1, <1>2, <1>3, BlockOK
    <2>4. e \in s..Len(r) /\ (e < Len(r) => HasSignal(r[e]))
      BY <2>1, <1>1, BlockEndIs DEF EndsBlock
    <2>5. granted[c] < s
      BY <1>1, <2>1 DEF ReachOK, Reach
    <2>6. CASE BlockFree(way, c, r, s)
      <3>1. stop' = [stop EXCEPT ![c] = BlockStop(r, s)] /\ granted' = [granted EXCEPT ![c] = e]
        BY <1>7, <2>6 DEF PlacesAsked, Clear, BlockLimit
      <3>2. BlockStop(r, s) = IF e < Len(r) THEN e ELSE 0
        BY DEF BlockStop
      <3>3. /\ stop'[c] = (IF e < Len(r) THEN e ELSE 0) /\ granted'[c] = e
            /\ stop' \in [Train -> Nat] /\ granted' \in [Train -> Nat]
            /\ \A d \in Train \ {c} : stop'[d] = stop[d] /\ granted'[d] = granted[d]
        BY <3>1, <3>2, <2>4, <2>1, <1>1 DEF Typed
      <3>4. ASSUME NEW t \in Tile, Holds(w[t], c)
            PROVE  \E i \in back[c]..Len(r) : r[i] = t /\ (i <= front[c] \/ i <= e)
        <4>1. CASE \E i \in s..e : r[i] = t
          BY <4>1, <2>1, <2>4, <1>1 DEF PlacesOK
        <4>2. CASE ~\E i \in s..e : r[i] = t
          <5>1. w[t] = way[t]
            BY <4>2, <2>3, <2>6 DEF Untouches
          <5>2. PICK i \in back[c]..Len(r) : r[i] = t /\ (i <= front[c] \/ i <= granted[c])
            BY <5>1, <3>4, <1>5
          <5>3. QED
            BY <5>2, <2>5, <2>4, <2>1, <1>1
        <4>3. QED
          BY <4>1, <4>2
      <3>5. ASSUME WayOK(c), ~lost[c], NEW i \in back[c]..e
            PROVE  Holds(w[r[i]], c)
        <4>0. \A j \in back[c]..Reach(c) : Holds(way[r[j]], c)
          BY <3>5, <1>4
        <4>1. CASE i < s
          BY <4>0, <4>1, <3>5, <2>1, <2>3, <2>6, <1>1, <2>4 DEF PlacesOK
        <4>2. CASE i >= s
          BY <4>2, <2>3, <2>6, <2>1
        <4>3. QED
          BY <4>1, <4>2, <2>1, <1>1
      <3> DEFINE reach == IF stop'[c] = 0 THEN Len(r)
                          ELSE IF stop'[c] > front[c] THEN stop'[c] ELSE front[c]
      <3>6. /\ reach = e /\ e \in Nat /\ front[c] + 1 <= e /\ front[c] <= e /\ e <= Len(r)
            /\ stop'[c] # 0 => stop'[c] < Len(r) /\ HasSignal(r[stop'[c]])
            /\ stop'[c] \in Nat
        BY <3>3, <2>1, <2>4, <1>1
      <3> HIDE DEF e, s
      <3>7. /\ stop'[c] # 0 => granted'[c] <= reach
            /\ granted'[c] <= Len(r) /\ granted'[c] \in Nat
            /\ front[c] + 1 <= reach /\ reach \in Nat /\ reach >= front[c] /\ reach <= Len(r)
        BY <3>3, <3>6, <1>1
      <3>8. WayOK(c) /\ ~lost[c] => \A i \in back[c]..reach : Holds(w[r[i]], c)
        BY <3>5, <3>6
      <3>9. \A t \in Tile : Holds(w[t], c) =>
              \E i \in back[c]..Len(r) : r[i] = t /\ (i <= front[c] \/ i <= granted'[c])
        BY <3>3, <3>4
      <3> HIDE DEF w
      <3>10. QED
        BY <3>3, <3>6, <3>7, <3>8, <3>9, <2>3, <2>6 DEF Asked, w
    <2>7. CASE ~BlockFree(way, c, r, s)
      <3>1. stop' = stop /\ granted' = [granted EXCEPT ![c] = s - 1]
        BY <1>7, <2>7 DEF PlacesAsked, Clear, BlockLimit
      <3>2. /\ stop'[c] = stop[c] /\ granted'[c] = Reach(c)
            /\ stop' \in [Train -> Nat] /\ granted' \in [Train -> Nat]
            /\ \A d \in Train \ {c} : stop'[d] = stop[d] /\ granted'[d] = granted[d]
        BY <3>1, <2>1, <1>1 DEF Typed
      <3>3. ASSUME NEW t \in Tile, Holds(way[t], c)
            PROVE  Holds(w[t], c)
        <4>1. PICK i \in back[c]..Len(r) : r[i] = t /\ i < s
          BY <3>3, <1>5, <2>5, <2>1, <1>1
        <4>2. ~\E j \in s..Len(r) : r[j] = t
          BY <4>1, <2>1, <1>1 DEF Injective, PlacesOK
        <4>3. QED
          BY <4>2, <3>3, <2>3 DEF Untouches
      <3>4. ASSUME NEW t \in Tile, Holds(w[t], c)
            PROVE  \E i \in back[c]..Len(r) : r[i] = t /\ (i <= front[c] \/ i <= Reach(c))
        <4>1. PICK i \in back[c]..Len(r) : r[i] = t /\ (i <= front[c] \/ i <= granted[c])
          BY <3>4, <2>3, <2>7, <1>5
        <4>2. QED
          BY <4>1, <2>5, <2>1, <1>1
      <3>5. ASSUME WayOK(c), ~lost[c], NEW i \in back[c]..Reach(c)
            PROVE  Holds(w[r[i]], c)
        <4>1. r[i] \in Tile /\ Holds(way[r[i]], c)
          BY <3>5, <1>4, <1>1, <2>1 DEF PlacesOK
        <4>2. QED
          BY <4>1, <3>3
      <3>6. MayGo(c) => stop[c] > front[c]
        BY <1>7, <2>7 DEF MayGo, Clear
      <3>7. QED
        BY <3>2, <3>3, <3>4, <3>5, <3>6, <2>1, <2>3, <1>1 DEF Asked, Reach, ReachOK
    <2>8. QED
      BY <2>6, <2>7
  <1>8. QED
    BY <1>6, <1>7

\* A tile that is free for can_reserve is given to c by reserve, unless the
\* first slot is a sold train's and the second is not.
LEMMA NextFreeOK ==
  ASSUME Base, NoStaleSlot, NEW c \in Train, front[c] < Len(route[c]), NextFree(c)
  PROVE  LET i == front[c] + 1
             t == route[c][i]
         IN  Holds(Reserved(t, way[t], c, Leg(route[c], i)), c)
  <1> DEFINE i == front[c] + 1
             t == route[c][i]
             w == way[t]
             leg == Leg(route[c], i)
             v == Reserved(t, w, c, leg)
  <1> SUFFICES Holds(v, c)
    OBVIOUS
  <1>1. i \in 1..Len(route[c]) /\ route[c] \in Seq(Tile) /\ t \in Tile
    BY TrainTypes DEF Base, PlacesOK
  <1>2. SlotsOK(t, w, Ways[t], Alive) /\ w \in Pair /\ leg \in WayLeg
    BY <1>1, LegType DEF Base, WaysOK, SlotsOK
  <1>3. Bound(w.second) => Bound(w.first)
    BY <1>1 DEF NoStaleSlot
  <1>4. CanReserve(t, c, leg.heading)
    BY DEF NextFree
  <1> HIDE DEF i, t, leg
  <1>5. Promoted(w) = w
    BY <1>3 DEF Promoted
  <1>6. CASE Holds(w, c)
    <2>1. v = (IF c = w.first.cnv THEN [w EXCEPT !.first = Completed(w.first, leg)]
               ELSE [w EXCEPT !.second = Completed(w.second, leg)])
      BY <1>6 DEF Holds, Reserved
    <2>2. w.first \in Slot /\ w.second \in Slot
      BY <1>2 DEF Pair
    <2>3. /\ Completed(w.first, leg).cnv = w.first.cnv
          /\ Completed(w.second, leg).cnv = w.second.cnv
      BY <1>2, <2>2, CompletedAgrees
    <2> HIDE DEF w, v
    <2>4. v.first.cnv = c \/ v.second.cnv = c
      BY <1>2, <1>6, <2>1, <2>3 DEF Holds, Pair
    <2>5. QED
      BY <2>4 DEF Holds
  <1>7. CASE ~Holds(w, c)
    <2> DEFINE s == SlotOf(c, leg)
    <2>1. v = IF ~Bound(w.first) THEN [w EXCEPT !.first = s]
              ELSE IF ~Bound(w.second) /\ MayShare(t, w.first, leg)
              THEN [w EXCEPT !.second = s] ELSE w
      BY <1>5, <1>7 DEF Holds, Reserved
    <2>2. s.cnv = c
      BY DEF SlotOf
    <2>3. \/ ~Bound(w.first)
          \/ Bound(w.first) /\ ~Bound(w.second) /\ MayShare(t, w.first, leg)
      BY <1>4, <1>7 DEF CanReserve, MayShare, OppositeHeadings
    <2> HIDE DEF w, v, s
    <2>4. v = [w EXCEPT !.first = s] \/ v = [w EXCEPT !.second = s]
      BY <2>1, <2>3
    <2>5. v.first = s \/ v.second = s
      BY <1>2, <2>4 DEF Pair
    <2>6. QED
      BY <2>2, <2>5 DEF Holds
  <1>8. QED
    BY <1>6, <1>7

-----------------------------------------------------------------------------
(* The actions.                                                             *)

LEMMA FrontHopOK ==
  ASSUME Base, NEW c \in Train, FrontHop(c)
  PROVE  Keeps(c)
  <1> DEFINE i == front[c] + 1
             t == route[c][i]
             w == WayAsked(c)
             leg == Leg(route[c], i)
  <1>1. /\ phase[c] = "driving" /\ front[c] < Len(route[c]) /\ MayGo(c) /\ PlacesAsked(c)
        /\ front[c] - back[c] < Length[c]
        /\ way' = [w EXCEPT ![t] = Reserved(t, @, c, leg)]
        /\ front' = [front EXCEPT ![c] = @ + 1]
        /\ UNCHANGED <<phase, route, back, trips, events, lost>>
    BY DEF FrontHop
  <1>2. /\ Asked(c) /\ stop' \in [Train -> Nat] /\ granted' \in [Train -> Nat]
        /\ \A d \in Train \ {c} : stop'[d] = stop[d] /\ granted'[d] = granted[d]
    BY <1>1, AskedOK
  <1>3. /\ PlacesOK(c) /\ ReachOK(c) /\ Typed
        /\ route[c] \in Seq(Tile) /\ Len(route[c]) \in Nat
        /\ front[c] \in Nat /\ back[c] \in Nat /\ i \in 1..Len(route[c])
        /\ Length[c] \in Nat /\ trips[c] \in Nat
        /\ c \in Alive /\ Live(c) /\ t \in Tile
    BY <1>1, TrainTypes, TypeOKIs DEF Base, TrainOK, Alive, Live
  <1>4. leg \in WayLeg /\ Agrees(leg, Ways[t][c])
    BY <1>3, LegType, WaysAre, AgreesSelf DEF Base
  <1>5. /\ SlotsOK(t, Reserved(t, w[t], c, leg), Ways[t], Alive)
        /\ OnlyFor(c, Alive, w[t], Reserved(t, w[t], c, leg))
        /\ Holds(w[t], c) => Holds(Reserved(t, w[t], c, leg), c)
    BY <1>2, <1>3, <1>4, ReservedOK DEF Asked, WaysOK
  <1>6. w \in [Tile -> Pair]
    BY <1>2 DEF Asked, WaysOK
  <1>7. /\ way'[t] = Reserved(t, w[t], c, leg)
        /\ \A u \in Tile \ {t} : way'[u] = w[u]
        /\ way' \in [Tile -> Pair]
    BY <1>1, <1>3, <1>5, <1>6 DEF SlotsOK
  <1>8. WaysOK(way', Ways, Alive) /\ Along(c, Alive, w, way')
    <2> HIDE DEF w, leg, t
    <2>1. WaysOK(w, Ways, Alive)
      BY <1>2 DEF Asked, w
    <2>2. ASSUME NEW u \in Tile
          PROVE  SlotsOK(u, way'[u], Ways[u], Alive) /\ OnlyFor(c, Alive, w[u], way'[u])
      <3>1. CASE u = t
        BY <3>1, <1>5, <1>7
      <3>2. CASE u # t
        BY <3>2, <2>1, <1>7 DEF WaysOK, OnlyFor
      <3>3. QED
        BY <3>1, <3>2
    <2>3. QED
      BY <2>2, <1>7 DEF WaysOK, Along
  <1>9. Along(c, Alive, way, way')
    BY <1>2, <1>8, AlongTwice DEF Asked
  <1>10. \A d \in Train \ {c} : Spared(d) /\ (phase[d] # "gone" => TilesKept(d))
    BY <1>1, <1>2, <1>3, <1>9, AlongKeeps DEF Spared, Typed
  <1>11. Typed' /\ front'[c] = i
    <2>1. front' \in [Train -> Nat] /\ front'[c] = i
      BY <1>1, <1>3 DEF Typed
    <2>2. QED
      BY <2>1, <1>1, <1>2, <1>3 DEF Typed
  <1>12. PlacesOK(c)'
    <2>1. /\ stop'[c] <= Len(route[c]) /\ granted'[c] <= Len(route[c])
          /\ back[c] <= i /\ i <= Len(route[c]) /\ i - back[c] <= Length[c]
      BY <1>1, <1>2, <1>3 DEF PlacesOK, Asked
    <2>2. QED
      BY <2>1, <1>1, <1>3, <1>11 DEF PlacesOK
  <1>13. ReachOK(c)'
    BY <1>1, <1>2, <1>3, <1>11 DEF ReachOK, Asked
  <1>14. HoldingsOK(c)'
    <2>1. SUFFICES ASSUME NEW u \in Tile, Holds(way'[u], c)
                   PROVE  \E j \in back[c]..Len(route[c]) :
                              route[c][j] = u /\ (j <= i \/ j <= granted'[c])
      BY <1>1, <1>11 DEF HoldingsOK
    <2>2. CASE u = t
      BY <2>2, <1>3 DEF PlacesOK
    <2>3. CASE u # t
      <3>1. PICK j \in back[c]..Len(route[c]) :
                    route[c][j] = u /\ (j <= front[c] \/ j <= granted'[c])
        BY <2>1, <2>3, <1>2, <1>7 DEF Asked
      <3>2. QED
        BY <3>1, <1>3
    <2>4. QED
      BY <2>2, <2>3
  <1>15. Sighted(c) /\ WayOK(c) => WayOK(c)'
    <2>1. SUFFICES ASSUME Sighted(c), WayOK(c), ~lost[c], NEW j \in back[c]..Limit(c)'
                   PROVE  Holds(way'[route[c][j]], c)
      BY <1>1 DEF WayOK, HoldsWay
    <2> DEFINE reach == IF stop'[c] = 0 THEN Len(route[c])
                        ELSE IF stop'[c] > front[c] THEN stop'[c] ELSE front[c]
    <2>2. /\ j \in back[c]..reach \/ (j = i /\ ~(i <= reach))
          /\ j \in 1..Len(route[c])
      BY <2>1, <1>1, <1>2, <1>3, <1>11 DEF Limit, Asked, PlacesOK
    <2>3. CASE j \in back[c]..reach
      <3>1. Holds(w[route[c][j]], c) /\ route[c][j] \in Tile
        BY <2>1, <2>2, <2>3, <1>2, <1>3 DEF Asked
      <3>2. QED
        BY <3>1, <1>5, <1>7
    <2>4. CASE j = i /\ ~(i <= reach)
      <3>1. NextFree(c) /\ w = way /\ NoStaleSlot
        BY <2>1, <2>4, <1>1, <1>2 DEF Asked
      <3>2. Holds(Reserved(t, way[t], c, leg), c)
        BY <3>1, <1>1, NextFreeOK
      <3> HIDE DEF leg, t, w
      <3>3. Holds(way'[t], c)
        BY <3>1, <3>2, <1>7
      <3>4. QED
        BY <3>3, <2>4 DEF t
    <2>5. QED
      BY <2>2, <2>3, <2>4
  <1>16. WaysOK(way', Ways', Alive')
    BY <1>1, <1>3, <1>8, <1>11, SameRoutes DEF Typed
  <1>17. SignalOK(c) => SignalOK(c)'
    BY <1>1, <1>2 DEF SignalOK, Asked
  <1>18. QED
    BY <1>10, <1>11, <1>12, <1>13, <1>14, <1>15, <1>16, <1>17, StepOK DEF TrainOK

LEMMA WaitOrRetryOK ==
  ASSUME Base, NEW c \in Train, Wait(c) \/ Retry(c)
  PROVE  Keeps(c)
  <1>1. /\ phase[c] \in {"driving", "waiting"} /\ front[c] < Len(route[c])
        /\ way' = WayAsked(c) /\ PlacesAsked(c)
        /\ \/ phase' = [phase EXCEPT ![c] = "waiting"]
           \/ phase' = [phase EXCEPT ![c] = "driving"]
           \/ phase' = [phase EXCEPT ![c] = phase[c]]
        /\ UNCHANGED <<route, front, back, trips, events, lost>>
    <2>1. CASE Wait(c)
      BY <2>1 DEF Wait
    <2>2. CASE Retry(c)
      <3>1. phase[c] = "waiting" /\ ReachOK(c)
        BY <2>2 DEF Retry, Base, TrainOK
      <3>2. front[c] < Len(route[c])
        BY <3>1 DEF ReachOK
      <3>3. QED
        BY <2>2, <3>1, <3>2 DEF Retry
    <2>3. QED
      BY <2>1, <2>2
  <1>2. /\ Asked(c) /\ stop' \in [Train -> Nat] /\ granted' \in [Train -> Nat]
        /\ \A d \in Train \ {c} : stop'[d] = stop[d] /\ granted'[d] = granted[d]
    BY <1>1, AskedOK
  <1>3. /\ PlacesOK(c) /\ ReachOK(c) /\ Typed
        /\ route[c] \in Seq(Tile) /\ Len(route[c]) \in Nat
        /\ front[c] \in Nat /\ back[c] \in Nat
        /\ c \in Alive /\ Live(c)
    BY <1>1, TrainTypes, TypeOKIs DEF Base, TrainOK, Alive, Live
  <1>4. /\ phase' \in [Train -> Phases] /\ phase'[c] \in {"driving", "waiting"}
        /\ \A d \in Train \ {c} : phase'[d] = phase[d]
    BY <1>1, <1>3 DEF Typed, Phases
  <1>5. \A d \in Train \ {c} : Spared(d) /\ (phase[d] # "gone" => TilesKept(d))
    BY <1>1, <1>2, <1>4, AlongKeeps DEF Spared, Asked
  <1>6. Typed' /\ PlacesOK(c)'
    BY <1>1, <1>2, <1>3, <1>4 DEF Typed, PlacesOK, Asked
  <1>7. ReachOK(c)'
    BY <1>1, <1>2, <1>3, <1>4 DEF ReachOK, Asked
  <1>8. HoldingsOK(c)'
    BY <1>1, <1>2 DEF HoldingsOK, Asked
  <1>9. Sighted(c) /\ WayOK(c) => WayOK(c)'
    BY <1>1, <1>2, <1>4 DEF WayOK, HoldsWay, Limit, Asked
  <1>10. WaysOK(way', Ways', Alive')
    BY <1>1, <1>2, <1>3, <1>4, SameRoutes DEF Asked, Live
  <1>11. SignalOK(c) => SignalOK(c)'
    BY <1>1, <1>2 DEF SignalOK, Asked
  <1>12. QED
    BY <1>5, <1>6, <1>7, <1>8, <1>9, <1>10, <1>11, StepOK DEF TrainOK

\* Actions that only change what a train is doing.
LEMMA PhaseOnlyOK ==
  ASSUME Base, NEW c \in Train, Arrive(c) \/ Depart(c) \/ Reroute(c) \/ EditSchedule(c)
  PROVE  Keeps(c)
  <1>1. /\ phase[c] # "gone" /\ UNCHANGED <<way, route, front, back, stop, granted, lost>>
        /\ phase[c] # "edit" /\ phase[c] # "noroute"
    BY DEF Arrive, Depart, Reroute, EditSchedule
  <1>2. /\ PlacesOK(c) /\ ReachOK(c) /\ HoldingsOK(c) /\ Typed
        /\ Len(route[c]) \in Nat /\ front[c] \in Nat /\ back[c] \in Nat /\ stop[c] \in Nat
        /\ WaysOK(way, Ways, Alive)
    BY TrainTypes, TypeOKIs DEF Base, TrainOK
  <1>3. /\ phase' \in [Train -> Phases] /\ phase'[c] \in {"loading", "routing", "edit"}
        /\ \A d \in Train \ {c} : phase'[d] = phase[d]
        /\ phase'[c] = "loading" => front[c] = Len(route[c])
    BY <1>2 DEF Arrive, Depart, Reroute, EditSchedule, Typed, Phases
  <1>4. /\ trips' \in [Train -> Nat] /\ trips'[c] <= MaxTrips[c]
        /\ \A d \in Train \ {c} : trips'[d] = trips[d]
    <2>1. CASE Depart(c)
      <3>1. trips[c] < MaxTrips[c] /\ trips' = [trips EXCEPT ![c] = @ + 1]
        BY <2>1 DEF Depart
      <3>2. trips \in [Train -> Nat] /\ MaxTrips[c] \in Nat
        BY <1>2, BlockAssumption DEF Typed, BlockAssumption
      <3>3. QED
        BY <3>1, <3>2
    <2>2. CASE Arrive(c) \/ Reroute(c) \/ EditSchedule(c)
      BY <2>2, <1>2 DEF Arrive, Reroute, EditSchedule, Typed, PlacesOK
    <2>3. QED
      BY <2>1, <2>2
  <1>5. events' \in 0..MaxEvents
    BY <1>2, BlockAssumption DEF Arrive, Depart, Reroute, EditSchedule, Rare, Typed, BlockAssumption
  <1>6. \A d \in Train \ {c} : Spared(d) /\ TilesKept(d)
    BY <1>1, <1>3, <1>4 DEF Spared, TilesKept
  <1>7. Typed' /\ PlacesOK(c)'
    BY <1>1, <1>2, <1>3, <1>4, <1>5 DEF Typed, PlacesOK
  <1>8. ReachOK(c)' /\ HoldingsOK(c)'
    BY <1>1, <1>2, <1>3 DEF ReachOK, HoldingsOK, Live
  <1>9. Sighted(c) /\ WayOK(c) => WayOK(c)'
    <2>1. Limit(c)' = front[c] /\ Limit(c) >= front[c] /\ Limit(c) \in Nat
      BY <1>1, <1>2, <1>3 DEF Limit, PlacesOK
    <2>2. QED
      BY <2>1, <1>1, <1>2 DEF WayOK, HoldsWay, Live
  <1>10. WaysOK(way', Ways', Alive')
    BY <1>1, <1>2, <1>3, SameRoutes
  <1>11. SignalOK(c) => SignalOK(c)'
    BY <1>1 DEF SignalOK
  <1>12. QED
    BY <1>6, <1>7, <1>8, <1>9, <1>10, <1>11, StepOK DEF TrainOK

\* leave_tile: a train that still stands on t has it afterwards.
LEMMA KeptOK ==
  ASSUME TypeOK, NEW t \in Tile, NEW c \in Train, NEW w, SlotsOK(t, w, Ways[t], Alive)
  PROVE  LET v == KeptByOther(t, w, c)
         IN  /\ SlotsOK(t, v, Ways[t], Alive)
             /\ \A d \in Train : /\ d \in Alive /\ Holds(w, d) => Holds(v, d)
                                 /\ Holds(v, d) => Holds(w, d) \/ (d # c /\ Standing(d, t))
  <1> DEFINE v == KeptByOther(t, w, c)
  <1>1. CASE Neighbours(t, c) = {}
    BY <1>1 DEF KeptByOther
  <1>2. CASE Neighbours(t, c) # {}
    <2>1. PICK d \in Neighbours(t, c) : v = Reserved(t, w, d, LegNoted(d, t))
      BY <1>2 DEF KeptByOther
    <2>2. d \in Train /\ d # c /\ Standing(d, t) /\ d \in Alive
      BY <2>1 DEF Neighbours, Standing, Alive
    <2>3. PICK i \in back[d]..front[d] : route[d][i] = t
      BY <2>2 DEF Standing, Occupied
    <2>4. i \in 1..Len(route[d]) /\ route[d] \in Seq(Tile) /\ Injective(route[d])
      BY <2>2, TrainTypes DEF PlacesOK
    <2>5. LegOn(d, t) = Leg(route[d], i) /\ Ways[t][d] = LegOn(d, t)
      BY <2>2, <2>3, <2>4, PlaceFound, WaysAre DEF LegOn
    <2>6. LegOn(d, t) \in WayLeg
      BY <2>4, <2>5, LegType
    <2>7. NoLeg \in WayLeg /\ Agrees(NoLeg, LegOn(d, t))
      BY DEF NoLeg, WayLeg, Agrees
    <2>8. LegNoted(d, t) \in WayLeg /\ Agrees(LegNoted(d, t), Ways[t][d])
      BY <2>5, <2>6, <2>7, AgreesSelf DEF LegNoted
    <2>9. /\ SlotsOK(t, v, Ways[t], Alive) /\ OnlyFor(d, Alive, w, v)
          /\ Holds(w, d) => Holds(v, d)
      BY <2>1, <2>2, <2>8, ReservedOK
    <2>10. QED
      BY <2>2, <2>9 DEF OnlyFor
  <1>3. QED
    BY <1>1, <1>2

LEMMA LeftByOK ==
  ASSUME TypeOK, NEW t \in Tile, NEW c \in Train, NEW w, SlotsOK(t, w, Ways[t], Alive)
  PROVE  LET v == LeftBy(t, w, c)
         IN  /\ SlotsOK(t, v, Ways[t], Alive)
             /\ \A d \in Train \ {c} : /\ d \in Alive /\ Holds(w, d) => Holds(v, d)
                                       /\ Holds(v, d) => Holds(w, d) \/ Standing(d, t)
             /\ ~Holds(v, c)
  <1> DEFINE u == Unreserved(w, c)
  <1>1. SlotsOK(t, u, Ways[t], Alive) /\ OnlyFor(c, Alive, w, u) /\ ~Holds(u, c)
    BY UnreservedOK DEF Alive
  <1>2. QED
    <2> HIDE DEF u
    <2>1. LeftBy(t, w, c) = KeptByOther(t, u, c)
      BY DEF LeftBy, u
    <2>2. QED
      BY <2>1, <1>1, KeptOK DEF OnlyFor

\* One tile changed.
LEMMA OneTileOK ==
  ASSUME NEW t \in Tile, NEW w, NEW L, NEW z, WaysOK(w, L, Alive),
         z \in [Tile -> Pair], SlotsOK(t, z[t], L[t], Alive),
         \A u \in Tile \ {t} : z[u] = w[u]
  PROVE  WaysOK(z, L, Alive)
  BY DEF WaysOK

LEMMA RearHopOK ==
  ASSUME Base, NEW c \in Train, RearHop(c)
  PROVE  Keeps(c)
  <1> DEFINE t == route[c][back[c]]
             v == LeftBy(t, way[t], c)
  <1>1. /\ phase[c] = "driving" /\ front[c] - back[c] = Length[c]
        /\ way' = [way EXCEPT ![t] = v]
        /\ back' = [back EXCEPT ![c] = @ + 1]
        /\ UNCHANGED <<phase, route, front, stop, granted, trips, events, lost>>
    BY DEF RearHop
  <1>2. /\ PlacesOK(c) /\ ReachOK(c) /\ HoldingsOK(c) /\ Typed
        /\ route[c] \in Seq(Tile) /\ Len(route[c]) \in Nat /\ Injective(route[c])
        /\ front[c] \in Nat /\ back[c] \in Nat /\ Length[c] \in Nat \ {0}
        /\ c \in Alive /\ Live(c) /\ t \in Tile /\ TypeOK
    BY <1>1, TrainTypes, TypeOKIs DEF Base, TrainOK, Alive, Live, PlacesOK
  <1>3. WaysOK(way, Ways, Alive) /\ SlotsOK(t, way[t], Ways[t], Alive)
    BY <1>2 DEF Base, WaysOK
  <1>4. /\ SlotsOK(t, v, Ways[t], Alive)
        /\ \A d \in Train \ {c} : /\ d \in Alive /\ Holds(way[t], d) => Holds(v, d)
                                  /\ Holds(v, d) => Holds(way[t], d) \/ Standing(d, t)
        /\ ~Holds(v, c)
    BY <1>2, <1>3, LeftByOK
  <1> HIDE DEF v, t
  <1>5. /\ WaysOK(way', Ways, Alive) /\ way'[t] = v
        /\ \A u \in Tile \ {t} : way'[u] = way[u]
    <2>1. way' = [way EXCEPT ![t] = v] /\ way \in [Tile -> Pair] /\ v \in Pair
      BY <1>1, <1>3, <1>4 DEF v, t, WaysOK, SlotsOK
    <2>2. way' \in [Tile -> Pair] /\ way'[t] = v /\ \A u \in Tile \ {t} : way'[u] = way[u]
      BY <2>1, <1>2
    <2>3. QED
      BY <2>2, <1>2, <1>3, <1>4, OneTileOK
  <1>6. \A d \in Train \ {c} : Spared(d)
    BY <1>1, <1>2 DEF Spared, Typed
  <1>7. ASSUME NEW d \in Train \ {c}, phase[d] # "gone"
        PROVE  TilesKept(d)
    BY <1>4, <1>5, <1>7 DEF TilesKept, Alive
  <1>8. back' \in [Train -> Nat] /\ back'[c] = back[c] + 1 /\ back[c] + 1 <= front[c]
    BY <1>1, <1>2 DEF Typed
  <1>9. Typed' /\ PlacesOK(c)' /\ ReachOK(c)'
    BY <1>1, <1>2, <1>8 DEF Typed, PlacesOK, ReachOK
  <1>10. HoldingsOK(c)'
    <2>1. SUFFICES ASSUME NEW u \in Tile, Holds(way'[u], c)
                   PROVE  \E j \in back[c] + 1..Len(route[c]) :
                              route[c][j] = u /\ (j <= front[c] \/ j <= granted[c])
      BY <1>1, <1>8 DEF HoldingsOK
    <2>2. u # t /\ Holds(way[u], c)
      BY <2>1, <1>4, <1>5
    <2>3. PICK j \in back[c]..Len(route[c]) :
                  route[c][j] = u /\ (j <= front[c] \/ j <= granted[c])
      BY <2>2, <1>2 DEF HoldingsOK
    <2>4. j # back[c]
      BY <2>2, <2>3 DEF t
    <2>5. QED
      BY <2>3, <2>4, <1>2
  <1>11. Sighted(c) /\ WayOK(c) => WayOK(c)'
    <2>1. SUFFICES ASSUME WayOK(c), ~lost[c], NEW j \in back[c] + 1..Limit(c)
                   PROVE  Holds(way'[route[c][j]], c)
      BY <1>1, <1>8 DEF WayOK, HoldsWay, Limit
    <2>2. j \in back[c]..Limit(c) /\ Limit(c) \in Nat /\ Limit(c) <= Len(route[c])
      BY <2>1, <1>2, TrainTypes DEF Limit, PlacesOK
    <2>3. j \in 1..Len(route[c]) /\ back[c] \in 1..Len(route[c]) /\ j # back[c]
      BY <2>1, <2>2, <1>2 DEF PlacesOK
    <2>4. route[c][j] # t /\ route[c][j] \in Tile
      BY <2>3, <1>2 DEF Injective, t
    <2>5. Holds(way[route[c][j]], c)
      BY <2>1, <2>2, <1>2 DEF WayOK, HoldsWay
    <2>6. QED
      BY <2>4, <2>5, <1>5
  <1>12. WaysOK(way', Ways', Alive')
    BY <1>1, <1>2, <1>5, <1>9, SameRoutes DEF Typed, Live
  <1>13. SignalOK(c) => SignalOK(c)'
    BY <1>1 DEF SignalOK
  <1>14. QED
    BY <1>6, <1>7, <1>9, <1>10, <1>11, <1>12, <1>13, StepOK DEF TrainOK

LEMMA NotedOK ==
  ASSUME NEW c \in Train, Typed, Noted(c)
  PROVE  /\ lost' \in [Train -> BOOLEAN] /\ lost'[c] = ~HoldsWay(c)'
         /\ \A d \in Train \ {c} : lost'[d] = lost[d]
  <1>1. HoldsWay(c)' \in BOOLEAN
    BY DEF HoldsWay
  <1>2. lost' = [lost EXCEPT ![c] = ~HoldsWay(c)'] /\ lost \in [Train -> BOOLEAN]
    BY DEF Noted, Typed
  <1> DEFINE b == HoldsWay(c)'
  <1> HIDE DEF b
  <1>3. lost' = [lost EXCEPT ![c] = ~b] /\ b \in BOOLEAN
    BY <1>1, <1>2 DEF b
  <1>4. lost' \in [Train -> BOOLEAN] /\ lost'[c] = ~b /\ \A d \in Train \ {c} : lost'[d] = lost[d]
    BY <1>2, <1>3
  <1>5. QED
    BY <1>4 DEF b

\* Everything after the last vehicle is given back.
LEMMA NoRouteOrEditDoneOK ==
  ASSUME Base, NEW c \in Train, NoRoute(c) \/ EditDone(c)
  PROVE  Keeps(c)
  <1> DEFINE v == GivenBack(way, c, route[c], back[c] + 1, Len(route[c]))
  <1>1. /\ phase[c] # "gone" /\ way' = v
        /\ \/ /\ phase' = [phase EXCEPT ![c] = "noroute"]
              /\ granted' = [granted EXCEPT ![c] = 0]
           \/ /\ \E p \in {"routing", "loading", "driving"} : phase' = [phase EXCEPT ![c] = p]
              /\ granted' = [granted EXCEPT ![c] = back[c]]
              /\ phase'[c] = "loading" => front[c] = Len(route[c])
        /\ UNCHANGED <<route, front, back, stop, trips>>
        /\ Noted(c)
    <2>1. CASE NoRoute(c)
      BY <2>1 DEF NoRoute
    <2>2. CASE EditDone(c)
      <3>1. phase \in [Train -> Phases]
        BY TypeOKIs DEF Base, Typed
      <3>2. PICK p \in {"routing", "loading", "driving"} :
                   /\ phase' = [phase EXCEPT ![c] = p]
                   /\ p = "loading" => front[c] = Len(route[c])
        BY <2>2 DEF EditDone
      <3>3. phase'[c] = p
        BY <3>1, <3>2
      <3>4. QED
        BY <2>2, <3>2, <3>3 DEF EditDone
    <2>3. QED
      BY <2>1, <2>2
  <1>2. /\ PlacesOK(c) /\ ReachOK(c) /\ HoldingsOK(c) /\ Typed
        /\ route[c] \in Seq(Tile) /\ Len(route[c]) \in Nat
        /\ front[c] \in Nat /\ back[c] \in Nat /\ stop[c] \in Nat
        /\ \A i \in 1..Len(route[c]) : route[c][i] \in Tile
        /\ c \in Alive /\ Live(c) /\ Alive \subseteq Train
    BY <1>1, TrainTypes, TypeOKIs DEF Base, TrainOK, Alive, Live
  <1>3. /\ WaysOK(v, Ways, Alive) /\ Along(c, Alive, way, v)
        /\ \A t \in Tile : Holds(v[t], c) => Holds(way[t], c)
        /\ \A i \in back[c] + 1..Len(route[c]) : route[c][i] \in Tile => ~Holds(v[route[c][i]], c)
    BY <1>2, GivenBackOK DEF Base
  <1> HIDE DEF v
  <1>4. /\ phase' \in [Train -> Phases]
        /\ phase'[c] \in {"noroute", "routing", "loading", "driving"}
        /\ \A d \in Train \ {c} : phase'[d] = phase[d]
        /\ phase'[c] = "loading" => front[c] = Len(route[c])
    BY <1>1, <1>2 DEF Typed, Phases
  <1>5. /\ granted' \in [Train -> Nat] /\ granted'[c] <= front[c]
        /\ \A d \in Train \ {c} : granted'[d] = granted[d]
    <2>1. PICK g \in 0..front[c] : granted' = [granted EXCEPT ![c] = g]
      BY <1>1, <1>2 DEF PlacesOK
    <2>2. QED
      BY <2>1, <1>2 DEF Typed
  <1>6. /\ lost' \in [Train -> BOOLEAN] /\ lost'[c] = ~HoldsWay(c)'
        /\ \A d \in Train \ {c} : lost'[d] = lost[d]
    BY <1>1, <1>2, NotedOK
  <1>7. events' \in 0..MaxEvents
    BY <1>2, BlockAssumption DEF NoRoute, EditDone, Rare, Typed, BlockAssumption
  <1>8. \A d \in Train \ {c} : Spared(d) /\ (phase[d] # "gone" => TilesKept(d))
    BY <1>1, <1>3, <1>4, <1>5, <1>6, AlongKeeps DEF Spared
  <1>9. Typed' /\ PlacesOK(c)' /\ ReachOK(c)'
    BY <1>1, <1>2, <1>4, <1>5, <1>6, <1>7 DEF Typed, PlacesOK, ReachOK
  <1>10. HoldingsOK(c)'
    <2>1. SUFFICES ASSUME NEW t \in Tile, Holds(v[t], c)
                   PROVE  \E i \in back[c]..Len(route[c]) : route[c][i] = t /\ i <= front[c]
      BY <1>1 DEF HoldingsOK
    <2>2. PICK i \in back[c]..Len(route[c]) : route[c][i] = t
      BY <2>1, <1>2, <1>3 DEF HoldingsOK
    <2>3. i = back[c]
      BY <2>1, <2>2, <1>2, <1>3 DEF PlacesOK
    <2>4. QED
      BY <2>2, <2>3, <1>2 DEF PlacesOK
  <1>11. WayOK(c)'
    BY <1>6 DEF WayOK
  <1>12. WaysOK(way', Ways', Alive')
    BY <1>1, <1>2, <1>3, <1>4, SameRoutes DEF Live
  <1>13. SignalOK(c) => SignalOK(c)'
    BY <1>1 DEF SignalOK
  <1>14. QED
    BY <1>8, <1>9, <1>10, <1>11, <1>12, <1>13, StepOK DEF TrainOK

\* can_enter_tile of a train at place f of r that is about to start: the
\* state afterwards, from the slots w.
Started(w, L, c, r, f, s) ==
    LET reach == IF stop'[c] = 0 THEN Len(r) ELSE IF stop'[c] > f THEN stop'[c] ELSE f
    IN  /\ WaysOK(way', L, Alive) /\ Along(c, Alive, w, way')
        /\ phase' \in [Train -> Phases] /\ phase'[c] \in {"driving", "canstart"}
        /\ stop' \in [Train -> Nat] /\ granted' \in [Train -> Nat]
        /\ \A d \in Train \ {c} : /\ phase'[d] = phase[d] /\ stop'[d] = stop[d]
                                  /\ granted'[d] = granted[d]
        /\ stop'[c] # 0 => stop'[c] < Len(r)
        /\ stop'[c] # 0 /\ stop'[c] # s => HasSignal(r[stop'[c]])
        /\ f <= granted'[c] /\ granted'[c] <= Len(r)
        /\ phase'[c] = "canstart" => granted'[c] = f
        /\ phase'[c] = "driving" /\ stop'[c] # 0 => granted'[c] <= reach
        /\ phase'[c] = "driving" =>
              /\ \A i \in f + 1..reach : Holds(way'[r[i]], c)
              /\ reach \in f..Len(r)
        /\ \A t \in Tile : Holds(w[t], c) =>
              Holds(way'[t], c) \/ \E i \in f + 1..Len(r) : r[i] = t
        /\ \A t \in Tile : Holds(way'[t], c) =>
              Holds(w[t], c) \/ \E i \in f + 1..Len(r) : r[i] = t /\ i <= granted'[c]
        /\ \A i \in 1..f : Holds(w[r[i]], c) => Holds(way'[r[i]], c)

LEMMA StartsOK ==
  ASSUME NEW w, NEW L, WaysOK(w, L, Alive), NEW c \in Alive, Typed,
         NEW r \in Seq(Tile), Injective(r), \A i \in 1..Len(r) : L[r[i]][c] = Leg(r, i),
         NEW f \in Nat \ {0}, f < Len(r),
         NEW s \in Nat, s # 0 => s < Len(r), Starts(w, c, r, f, s)
  PROVE  Started(w, L, c, r, f, s)
  <1> DEFINE b == BlockFree(w, c, r, f + 1)
             e == BlockEnd(r, f + 1)
  <1>1. c \in Train /\ Len(r) \in Nat /\ f + 1 \in 1..Len(r) /\ \A i \in 1..Len(r) : r[i] \in Tile
    BY DEF Alive
  <1>2. CASE HasSignal(r[f])
    <2>1. /\ phase' = [phase EXCEPT ![c] = "driving"] /\ way' = w
          /\ stop' = [stop EXCEPT ![c] = f] /\ granted' = [granted EXCEPT ![c] = f]
      BY <1>2 DEF Starts
    <2>2. /\ phase' \in [Train -> Phases] /\ phase'[c] = "driving"
          /\ stop' \in [Train -> Nat] /\ granted' \in [Train -> Nat]
          /\ stop'[c] = f /\ granted'[c] = f
          /\ \A d \in Train \ {c} : /\ phase'[d] = phase[d] /\ stop'[d] = stop[d]
                                    /\ granted'[d] = granted[d]
      BY <2>1, <1>1 DEF Typed, Phases
    <2>3. Along(c, Alive, w, way')
      BY <2>1 DEF Along, OnlyFor
    <2>4. QED
      BY <2>1, <2>2, <2>3, <1>1, <1>2 DEF Started
  <1>3. CASE ~HasSignal(r[f]) /\ b
    <2>1. e \in f + 1..Len(r) /\ (e < Len(r) => HasSignal(r[e]))
      BY <1>1, BlockEndIs DEF EndsBlock
    <2>2. /\ phase' = [phase EXCEPT ![c] = "driving"] /\ way' = Block(w, c, r, f + 1)
          /\ stop' = [stop EXCEPT ![c] = IF e < Len(r) THEN e ELSE 0]
          /\ granted' = [granted EXCEPT ![c] = e]
      BY <1>3 DEF Starts, BlockStop, BlockLimit
    <2>3. /\ phase' \in [Train -> Phases] /\ phase'[c] = "driving"
          /\ stop' \in [Train -> Nat] /\ granted' \in [Train -> Nat]
          /\ stop'[c] = (IF e < Len(r) THEN e ELSE 0) /\ granted'[c] = e
          /\ \A d \in Train \ {c} : /\ phase'[d] = phase[d] /\ stop'[d] = stop[d]
                                    /\ granted'[d] = granted[d]
      <3> HIDE DEF e
      <3>1. QED
        BY <2>1, <2>2, <1>1 DEF Typed, Phases
    <2>4. /\ WaysOK(way', L, Alive) /\ Along(c, Alive, w, way')
          /\ \A t \in Tile : Holds(w[t], c) => Holds(way'[t], c)
          /\ \A i \in f + 1..e : Holds(way'[r[i]], c)
          /\ Untouches(r, f + 1, e, w, way')
      <3>1. f + 1 \in 1..Len(r) /\ BlockFree(w, c, r, f + 1) /\ e = BlockEnd(r, f + 1)
        BY <1>1, <1>3
      <3> HIDE DEF e, b
      <3>2. QED
        BY <3>1, <2>2, BlockOK
    <2>5. \A t \in Tile : Holds(way'[t], c) =>
              Holds(w[t], c) \/ \E i \in f + 1..Len(r) : r[i] = t /\ i <= e
      <3>1. \A i \in f + 1..e : i \in f + 1..Len(r) /\ i <= e
        BY <2>1, <1>1
      <3> HIDE DEF e
      <3>2. QED
        BY <3>1, <2>4 DEF Untouches
    <2> HIDE DEF e
    <2> DEFINE reach == IF stop'[c] = 0 THEN Len(r) ELSE IF stop'[c] > f THEN stop'[c] ELSE f
    <2>6. reach = e /\ e \in f..Len(r) /\ f <= e
      BY <2>1, <2>3, <1>1
    <2>7. \A i \in 1..f : Holds(w[r[i]], c) => Holds(way'[r[i]], c)
      BY <2>4, <1>1
    <2> HIDE DEF reach
    <2>8. /\ phase'[c] = "driving" /\ stop'[c] # 0 => granted'[c] <= reach
          /\ \A i \in f + 1..reach : Holds(way'[r[i]], c)
          /\ stop'[c] # 0 => stop'[c] < Len(r)
          /\ stop'[c] # 0 /\ stop'[c] # s => HasSignal(r[stop'[c]])
          /\ f <= granted'[c] /\ granted'[c] <= Len(r)
      <3>1. granted'[c] = e /\ e \in Nat /\ reach = e /\ f <= e /\ e <= Len(r)
        BY <2>3, <2>6, <1>1
      <3>2. stop'[c] # 0 => stop'[c] < Len(r) /\ HasSignal(r[stop'[c]])
        BY <2>1, <2>3
      <3>3. QED
        BY <2>4, <3>1, <3>2
    <2>9. \A t \in Tile : Holds(way'[t], c) =>
              Holds(w[t], c) \/ \E i \in f + 1..Len(r) : r[i] = t /\ i <= granted'[c]
      BY <2>3, <2>5
    <2>10. QED
      BY <2>3, <2>4, <2>6, <2>7, <2>8, <2>9 DEF reach, Started
  <1>4. CASE ~HasSignal(r[f]) /\ ~b
    <2>1. /\ phase' = [phase EXCEPT ![c] = "canstart"] /\ way' = Block(w, c, r, f + 1)
          /\ stop' = [stop EXCEPT ![c] = s]
          /\ granted' = [granted EXCEPT ![c] = f + 1 - 1]
      <3>1. phase' = [phase EXCEPT ![c] = "canstart"] /\ stop' = [stop EXCEPT ![c] = s]
        BY <1>4 DEF Starts
      <3>2. way' = Block(w, c, r, f + 1)
        BY <1>4 DEF Starts
      <3>3. granted' = [granted EXCEPT ![c] = BlockLimit(w, c, r, f + 1)]
        BY <1>4 DEF Starts
      <3>4. BlockLimit(w, c, r, f + 1) = f + 1 - 1
        BY <1>4 DEF BlockLimit
      <3> HIDE DEF b, e
      <3>5. QED
        BY <3>1, <3>2, <3>3, <3>4
    <2>2. /\ phase' \in [Train -> Phases] /\ phase'[c] = "canstart"
          /\ stop' \in [Train -> Nat] /\ granted' \in [Train -> Nat]
          /\ stop'[c] = s /\ granted'[c] = f
          /\ \A d \in Train \ {c} : /\ phase'[d] = phase[d] /\ stop'[d] = stop[d]
                                    /\ granted'[d] = granted[d]
      BY <2>1, <1>1 DEF Typed, Phases
    <2>3. /\ WaysOK(way', L, Alive) /\ Along(c, Alive, w, way')
          /\ \A t \in Tile : Holds(way'[t], c) => Holds(w[t], c)
          /\ Untouches(r, f + 1, Len(r), w, way')
      BY <1>1, <1>4, <2>1, BlockOK
    <2>4. \A t \in Tile : Holds(w[t], c) =>
              Holds(way'[t], c) \/ \E i \in f + 1..Len(r) : r[i] = t
      BY <2>3 DEF Untouches
    <2>5. \A i \in 1..f : \A j \in f + 1..Len(r) : r[i] # r[j]
      BY <1>1 DEF Injective
    <2>6. ASSUME NEW i \in 1..f, Holds(w[r[i]], c)
          PROVE  Holds(way'[r[i]], c)
      <3>1. i \in 1..Len(r) /\ r[i] \in Tile
        BY <1>1
      <3>2. ~\E j \in f + 1..Len(r) : r[j] = r[i]
        BY <2>5
      <3>3. QED
        BY <2>4, <2>6, <3>1, <3>2
    <2>7. QED
      BY <2>2, <2>3, <2>4, <2>6, <1>1 DEF Started
  <1>5. QED
    BY <1>2, <1>3, <1>4

LEMMA StartUpOK ==
  ASSUME Base, NEW c \in Train, StartUp(c)
  PROVE  Keeps(c)
  <1> DEFINE r == route[c]
             f == front[c]
  <1>1. /\ phase[c] = "canstart" /\ Starts(way, c, r, f, stop[c])
        /\ UNCHANGED <<route, front, back, trips, events, lost>>
    BY DEF StartUp
  <1>2. /\ PlacesOK(c) /\ ReachOK(c) /\ HoldingsOK(c) /\ Typed
        /\ r \in Seq(Tile) /\ Len(r) \in Nat /\ Injective(r)
        /\ f \in Nat /\ back[c] \in Nat /\ stop[c] \in Nat /\ f < Len(r)
        /\ c \in Alive /\ Live(c) /\ TypeOK /\ \A i \in 1..Len(r) : r[i] \in Tile
    BY <1>1, TrainTypes, TypeOKIs DEF Base, TrainOK, Alive, Live, ReachOK
  <1>3. WaysOK(way, Ways, Alive) /\ \A i \in 1..Len(r) : Ways[r[i]][c] = Leg(r, i)
    BY WaysAre DEF Base
  <1>4. f \in Nat \ {0} /\ (stop[c] # 0 => stop[c] < Len(r))
    BY <1>2 DEF PlacesOK, ReachOK
  <1> DEFINE reach == IF stop'[c] = 0 THEN Len(r) ELSE IF stop'[c] > f THEN stop'[c] ELSE f
  <1> HIDE DEF r, f
  <1>5. /\ WaysOK(way', Ways, Alive) /\ Along(c, Alive, way, way')
        /\ phase' \in [Train -> Phases] /\ phase'[c] \in {"driving", "canstart"}
        /\ stop' \in [Train -> Nat] /\ granted' \in [Train -> Nat]
        /\ \A d \in Train \ {c} : /\ phase'[d] = phase[d] /\ stop'[d] = stop[d]
                                  /\ granted'[d] = granted[d]
        /\ stop'[c] # 0 => stop'[c] < Len(r)
        /\ stop'[c] # 0 /\ stop'[c] # stop[c] => HasSignal(r[stop'[c]])
        /\ f <= granted'[c] /\ granted'[c] <= Len(r)
        /\ phase'[c] = "canstart" => granted'[c] = f
        /\ phase'[c] = "driving" /\ stop'[c] # 0 => granted'[c] <= reach
        /\ phase'[c] = "driving" => /\ \A i \in f + 1..reach : Holds(way'[r[i]], c)
                                    /\ reach \in f..Len(r)
        /\ \A t \in Tile : Holds(way'[t], c) =>
              Holds(way[t], c) \/ \E i \in f + 1..Len(r) : r[i] = t /\ i <= granted'[c]
        /\ \A i \in 1..f : Holds(way[r[i]], c) => Holds(way'[r[i]], c)
    <2>1. Started(way, Ways, c, r, f, stop[c])
      BY <1>1, <1>2, <1>3, <1>4, StartsOK
    <2>2. QED
      BY <2>1 DEF Started
  <1>6. \A d \in Train \ {c} : Spared(d) /\ (phase[d] # "gone" => TilesKept(d))
    BY <1>1, <1>5, AlongKeeps DEF Spared
  <1>7. Typed' /\ PlacesOK(c)'
    BY <1>1, <1>2, <1>5 DEF Typed, PlacesOK, r
  <1>8. ReachOK(c)'
    BY <1>1, <1>2, <1>5 DEF ReachOK, r, f
  <1>9. HoldingsOK(c)'
    <2>1. SUFFICES ASSUME NEW t \in Tile, Holds(way'[t], c)
                   PROVE  \E i \in back[c]..Len(r) : r[i] = t /\ (i <= f \/ i <= granted'[c])
      BY <1>1 DEF HoldingsOK, r, f
    <2>2. CASE Holds(way[t], c)
      <3>1. PICK i \in back[c]..Len(r) : r[i] = t /\ (i <= f \/ i <= granted[c])
        BY <2>2, <1>2 DEF HoldingsOK, r, f
      <3>2. granted[c] <= f /\ granted[c] \in Nat
        BY <1>1, <1>2 DEF ReachOK, f, Typed
      <3>3. QED
        BY <3>1, <3>2, <1>2
    <2>3. CASE \E i \in f + 1..Len(r) : r[i] = t /\ i <= granted'[c]
      BY <2>3, <1>2 DEF PlacesOK, f
    <2>4. QED
      BY <2>1, <2>2, <2>3, <1>5
  <1>10. Sighted(c) /\ WayOK(c) => WayOK(c)'
    <2>1. SUFFICES ASSUME WayOK(c), ~lost[c], NEW i \in back[c]..Limit(c)'
                   PROVE  Holds(way'[r[i]], c)
      BY <1>1 DEF WayOK, HoldsWay, r
    <2>2. \A j \in back[c]..f : Holds(way[r[j]], c)
      BY <2>1, <1>1, <1>2 DEF WayOK, HoldsWay, Limit, r, f
    <2>3. \A j \in back[c]..f : j \in 1..f
      BY <1>2 DEF PlacesOK
    <2>4. CASE i \in back[c]..f
      BY <2>2, <2>3, <2>4, <1>5
    <2>5. CASE i \notin back[c]..f
      <3>1. Limit(c)' = IF phase'[c] = "driving" THEN reach ELSE f
        BY <1>1, <1>5 DEF Limit, r, f
      <3>2. phase'[c] = "driving" /\ i \in f + 1..reach
        BY <2>1, <2>5, <3>1, <1>2, <1>5
      <3>3. QED
        BY <3>2, <1>5
    <2>6. QED
      BY <2>4, <2>5
  <1>11. WaysOK(way', Ways', Alive')
    BY <1>1, <1>2, <1>5, SameRoutes DEF Live
  <1>12. SignalOK(c) => SignalOK(c)'
    BY <1>1, <1>5 DEF SignalOK, r
  <1>13. QED
    BY <1>6, <1>7, <1>8, <1>9, <1>10, <1>11, <1>12, StepOK DEF TrainOK

LEMMA SellOK ==
  ASSUME Base, NEW c \in Train, Sell(c)
  PROVE  Keeps(c)
  <1> DEFINE freed == [t \in Tile |->
                IF t \in {route[c][i] : i \in Ahead(c)}
                         \cup (Occupied(c) \ (IF front[c] > back[c] THEN {route[c][front[c]]} ELSE {}))
                THEN Unreserved(way[t], c) ELSE way[t]]
  <1>1. /\ phase[c] # "gone" /\ phase' = [phase EXCEPT ![c] = "gone"]
        /\ way' = [t \in Tile |-> IF t \in Occupied(c) THEN KeptByOther(t, freed[t], c)
                                                       ELSE freed[t]]
        /\ UNCHANGED <<route, front, back, stop, granted, trips, lost>>
    BY DEF Sell
  <1>2. PlacesOK(c) /\ ReachOK(c) /\ Typed /\ TypeOK /\ WaysOK(way, Ways, Alive)
    BY TrainTypes, TypeOKIs DEF Base, TrainOK
  <1>3. ASSUME NEW t \in Tile
        PROVE  /\ SlotsOK(t, freed[t], Ways[t], Alive)
               /\ \A d \in Train \ {c} : /\ d \in Alive /\ Holds(way[t], d) => Holds(freed[t], d)
                                         /\ Holds(freed[t], d) => Holds(way[t], d)
    <2>1. freed[t] = Unreserved(way[t], c) \/ freed[t] = way[t]
      OBVIOUS
    <2>2. SlotsOK(t, way[t], Ways[t], Alive) /\ Alive \subseteq Train
      BY <1>2 DEF WaysOK, Alive
    <2> HIDE DEF freed
    <2>3. CASE freed[t] = way[t]
      BY <2>2, <2>3
    <2>4. CASE freed[t] = Unreserved(way[t], c)
      BY <2>2, <2>4, UnreservedOK DEF OnlyFor
    <2>5. QED
      BY <2>1, <2>3, <2>4
  <1> HIDE DEF freed
  <1>4. ASSUME NEW t \in Tile
        PROVE  /\ SlotsOK(t, way'[t], Ways[t], Alive)
               /\ \A d \in Train \ {c} : /\ d \in Alive /\ Holds(way[t], d) => Holds(way'[t], d)
                                         /\ Holds(way'[t], d) => Holds(way[t], d) \/ Standing(d, t)
    <2>1. way'[t] = KeptByOther(t, freed[t], c) \/ way'[t] = freed[t]
      BY <1>1
    <2>2. CASE way'[t] = freed[t]
      BY <2>2, <1>3
    <2>3. CASE way'[t] = KeptByOther(t, freed[t], c)
      BY <2>3, <1>2, <1>3, KeptOK
    <2>4. QED
      BY <2>1, <2>2, <2>3
  <1>5. way' \in [Tile -> Pair]
    <2>1. \A t \in Tile : way'[t] \in Pair
      BY <1>4 DEF SlotsOK
    <2>2. QED
      BY <2>1, <1>1
  <1>6. /\ phase' \in [Train -> Phases] /\ phase'[c] = "gone"
        /\ \A d \in Train \ {c} : phase'[d] = phase[d]
    BY <1>1, <1>2 DEF Typed, Phases
  <1>7. events' \in 0..MaxEvents
    BY <1>2, BlockAssumption DEF Sell, Rare, Typed, BlockAssumption
  <1>8. \A d \in Train \ {c} : Spared(d) /\ (phase[d] # "gone" => TilesKept(d))
    BY <1>1, <1>4, <1>6 DEF Spared, TilesKept, Alive
  <1>9. Typed' /\ PlacesOK(c)' /\ ReachOK(c)'
    BY <1>1, <1>2, <1>6, <1>7 DEF Typed, PlacesOK, ReachOK
  <1>10. HoldingsOK(c)' /\ WayOK(c)'
    BY <1>6 DEF HoldingsOK, WayOK, Live
  <1>11. WaysOK(way', Ways', Alive')
    <2>1. WaysOK(way', Ways, Alive)
      BY <1>4, <1>5 DEF WaysOK
    <2>2. QED
      BY <2>1, <1>1, <1>6, SameRoutes
  <1>12. SignalOK(c) => SignalOK(c)'
    BY <1>1 DEF SignalOK
  <1>13. QED
    BY <1>8, <1>9, <1>10, <1>11, <1>12, StepOK DEF TrainOK

\* When c holds nothing, its way over a tile may be another one.
LEMMA OtherWay ==
  ASSUME NEW t, NEW w, NEW L, NEW M, NEW c, SlotsOK(t, w, L, Alive), ~Holds(w, c),
         \A d \in Alive \ {c} : M[d] = L[d]
  PROVE  SlotsOK(t, w, M, Alive)
  BY DEF SlotsOK, Holds, Alive

\* drive_to and vorfahren: c has the tiles under it and no other ones.
LEMMA RelaidOK ==
  ASSUME Base, NEW c \in Train, phase[c] \in {"routing", "noroute"},
         NEW r \in Seq(Tile), Injective(r), NEW n \in 1..Len(r),
         {r[i] : i \in 1..n} = Occupied(c),
         NEW L, \A t \in Tile : \A d \in Train \ {c} : L[t][d] = Ways[t][d],
         \A i \in 1..Len(r) : L[r[i]][c] = Leg(r, i)
  PROVE  LET w == Relaid(c, r)
         IN  /\ WaysOK(w, L, Alive)
             /\ \A t \in Tile : \A d \in Train \ {c} :
                   /\ d \in Alive /\ Holds(way[t], d) => Holds(w[t], d)
                   /\ Holds(w[t], d) => Holds(way[t], d) \/ Standing(d, t)
             /\ \A t \in Tile : Holds(w[t], c) => \E i \in 1..n : r[i] = t
  <1> DEFINE end == IF phase[c] = "routing" THEN Len(route[c]) ELSE front[c]
             x == route[c][back[c]]
             u == GivenBack(way, c, route[c], back[c] + 1, end)
             left == [u EXCEPT ![x] = LeftBy(x, @, c)]
             leg(t) == [Leg(r, PlaceOf(r, t)) EXCEPT
                          !.corner = IF t = r[1] /\ t # x THEN @ ELSE {}]
             w == Relaid(c, r)
  <1>1. \A t \in Tile : w[t] = IF t \in Occupied(c) THEN Reserved(t, left[t], c, leg(t)) ELSE left[t]
    BY DEF Relaid
  <1>2. w = [t \in Tile |-> w[t]]
    BY DEF Relaid
  <1>3. /\ PlacesOK(c) /\ ReachOK(c) /\ HoldingsOK(c) /\ TypeOK
        /\ route[c] \in Seq(Tile) /\ Len(route[c]) \in Nat
        /\ front[c] \in Nat /\ back[c] \in Nat /\ granted[c] \in Nat
        /\ \A i \in 1..Len(route[c]) : route[c][i] \in Tile
        /\ c \in Alive /\ Live(c) /\ Alive \subseteq Train /\ x \in Tile
        /\ WaysOK(way, Ways, Alive)
    BY TrainTypes DEF Base, TrainOK, Alive, Live, PlacesOK
  <1>4. /\ WaysOK(u, Ways, Alive) /\ Along(c, Alive, way, u)
        /\ \A t \in Tile : Holds(u[t], c) => Holds(way[t], c)
        /\ \A i \in back[c] + 1..end : route[c][i] \in Tile => ~Holds(u[route[c][i]], c)
    BY <1>3, GivenBackOK
  <1>5. \A t \in Tile : Holds(u[t], c) => t = x
    <2>1. SUFFICES ASSUME NEW t \in Tile, Holds(u[t], c), t # x
                   PROVE  FALSE
      OBVIOUS
    <2>2. PICK i \in back[c]..Len(route[c]) :
                  route[c][i] = t /\ (i <= front[c] \/ i <= granted[c])
      BY <2>1, <1>3, <1>4 DEF HoldingsOK
    <2>3. i # back[c] /\ i \in back[c] + 1..Len(route[c])
      BY <2>1, <2>2, <1>3
    <2>4. i <= end
      BY <2>2, <2>3, <1>3 DEF ReachOK
    <2>5. i \in back[c] + 1..end
      BY <2>3, <2>4, <1>3
    <2>6. QED
      BY <2>1, <2>2, <2>5, <1>4
  <1> HIDE DEF u, end, x
  <1> DEFINE v == LeftBy(x, u[x], c)
  <1>6. /\ SlotsOK(x, v, Ways[x], Alive)
        /\ \A d \in Train \ {c} : /\ d \in Alive /\ Holds(u[x], d) => Holds(v, d)
                                  /\ Holds(v, d) => Holds(u[x], d) \/ Standing(d, x)
        /\ ~Holds(v, c)
    <2>1. SlotsOK(x, u[x], Ways[x], Alive)
      BY <1>3, <1>4 DEF WaysOK
    <2>2. QED
      BY <2>1, <1>3, LeftByOK
  <1>7. left = [u EXCEPT ![x] = v]
    OBVIOUS
  <1> HIDE DEF v, left
  <1>8. /\ WaysOK(left, Ways, Alive) /\ left[x] = v
        /\ \A t \in Tile \ {x} : left[t] = u[t]
    <2>1. u \in [Tile -> Pair] /\ v \in Pair
      BY <1>4, <1>6 DEF WaysOK, SlotsOK
    <2>2. left \in [Tile -> Pair] /\ left[x] = v /\ \A t \in Tile \ {x} : left[t] = u[t]
      BY <2>1, <1>3, <1>7
    <2>3. QED
      BY <2>2, <1>3, <1>4, <1>6, OneTileOK
  <1>9. \A t \in Tile : /\ ~Holds(left[t], c)
                        /\ \A d \in Train \ {c} :
                              /\ d \in Alive /\ Holds(way[t], d) => Holds(left[t], d)
                              /\ Holds(left[t], d) => Holds(way[t], d) \/ Standing(d, t)
    BY <1>4, <1>5, <1>6, <1>8 DEF Along, OnlyFor
  <1>10. ASSUME NEW t \in Tile
         PROVE  SlotsOK(t, left[t], L[t], Alive)
    <2>1. SlotsOK(t, left[t], Ways[t], Alive) /\ ~Holds(left[t], c)
      BY <1>8, <1>9 DEF WaysOK
    <2>2. \A d \in Alive \ {c} : L[t][d] = Ways[t][d]
      BY <1>3
    <2>3. QED
      BY <2>1, <2>2, OtherWay
  <1>11. ASSUME NEW t \in Tile, t \in Occupied(c)
         PROVE  leg(t) \in WayLeg /\ Agrees(leg(t), L[t][c])
    <2>1. PICK i \in 1..n : r[i] = t
      BY <1>11
    <2>2. i \in 1..Len(r) /\ PlaceOf(r, t) = i
      BY <2>1, PlaceFound
    <2>3. Leg(r, i) \in WayLeg /\ L[t][c] = Leg(r, i)
      BY <2>1, <2>2, LegType
    <2>4. leg(t) = [Leg(r, i) EXCEPT !.corner = IF t = r[1] /\ t # x THEN @ ELSE {}]
      BY <2>2
    <2>5. /\ leg(t).heading = Leg(r, i).heading
          /\ leg(t).corner = Leg(r, i).corner \/ leg(t).corner = {}
          /\ leg(t) \in WayLeg
      <3>1. \/ leg(t) = [Leg(r, i) EXCEPT !.corner = Leg(r, i).corner]
            \/ leg(t) = [Leg(r, i) EXCEPT !.corner = {}]
        BY <2>4
      <3> HIDE DEF leg
      <3>2. QED
        BY <3>1, <2>3 DEF WayLeg
    <2> HIDE DEF leg
    <2>6. QED
      BY <2>3, <2>5 DEF Agrees
  <1> HIDE DEF leg, w
  <1>12. ASSUME NEW t \in Tile
         PROVE  /\ SlotsOK(t, w[t], L[t], Alive)
                /\ \A d \in Train \ {c} : /\ d \in Alive /\ Holds(left[t], d) => Holds(w[t], d)
                                          /\ Holds(w[t], d) => Holds(left[t], d)
                /\ Holds(w[t], c) => t \in Occupied(c)
    <2>1. CASE t \in Occupied(c)
      <3>1. SlotsOK(t, left[t], L[t], Alive) /\ leg(t) \in WayLeg /\ Agrees(leg(t), L[t][c])
        BY <2>1, <1>10, <1>11
      <3>2. w[t] = Reserved(t, left[t], c, leg(t))
        BY <2>1, <1>1
      <3>3. SlotsOK(t, w[t], L[t], Alive) /\ OnlyFor(c, Alive, left[t], w[t])
        BY <3>1, <3>2, <1>3, ReservedOK
      <3>4. QED
        BY <2>1, <3>3 DEF OnlyFor
    <2>2. CASE t \notin Occupied(c)
      <3>1. w[t] = left[t]
        BY <2>2, <1>1
      <3>2. QED
        BY <3>1, <1>9, <1>10
    <2>3. QED
      BY <2>1, <2>2
  <1>13. w \in [Tile -> Pair]
    <2>1. \A t \in Tile : w[t] \in Pair
      BY <1>12 DEF SlotsOK
    <2>2. QED
      BY <2>1, <1>2
  <1>14. WaysOK(w, L, Alive)
    BY <1>12, <1>13 DEF WaysOK
  <1>15. \A t \in Tile : \A d \in Train \ {c} :
                   /\ d \in Alive /\ Holds(way[t], d) => Holds(w[t], d)
                   /\ Holds(w[t], d) => Holds(way[t], d) \/ Standing(d, t)
    BY <1>9, <1>12
  <1>16. \A t \in Tile : Holds(w[t], c) => \E i \in 1..n : r[i] = t
    BY <1>12
  <1>17. QED
    BY <1>14, <1>15, <1>16 DEF w

LEMMA FindRouteOK ==
  ASSUME Base, NEW c \in Train, NEW r \in Routes[c], FindRoute(c, r)
  PROVE  Keeps(c)
  <1> DEFINE n == front[c] - back[c] + 1
             w == Relaid(c, r)
  <1>1. /\ phase[c] \in {"routing", "noroute"} /\ n < Len(r)
        /\ {r[i] : i \in 1..n} = Occupied(c)
        /\ route' = [route EXCEPT ![c] = r]
        /\ back' = [back EXCEPT ![c] = 1] /\ front' = [front EXCEPT ![c] = n]
        /\ Starts(w, c, r, n, 0)
        /\ UNCHANGED <<trips, events>> /\ Noted(c)
    BY DEF FindRoute
  <1>2. /\ PlacesOK(c) /\ Typed /\ TypeOK
        /\ front[c] \in Nat /\ back[c] \in Nat /\ Length[c] \in Nat
        /\ c \in Alive /\ Live(c) /\ Alive \subseteq Train
    BY <1>1, TrainTypes, TypeOKIs DEF Base, Alive, Live
  <1>3. r \in Seq(Tile) /\ Injective(r) /\ Len(r) \in Nat
    BY BlockAssumption DEF BlockAssumption
  <1>4. n \in Nat \ {0} /\ n \in 1..Len(r) /\ n - 1 <= Length[c]
    BY <1>1, <1>2, <1>3 DEF PlacesOK
  <1> HIDE DEF n, w
  <1>5. /\ route' \in [Train -> Seq(Tile)] /\ route'[c] = r
        /\ front' \in [Train -> Nat] /\ front'[c] = n
        /\ back' \in [Train -> Nat] /\ back'[c] = 1
        /\ \A d \in Train \ {c} : route'[d] = route[d] /\ front'[d] = front[d] /\ back'[d] = back[d]
    BY <1>1, <1>2, <1>3, <1>4 DEF Typed
  <1>6. \A t \in Tile : \A d \in Train : Ways'[t][d] = Leg(route'[d], PlaceOf(route'[d], t))
    BY DEF Ways, LegOn
  <1>7. \A t \in Tile : \A d \in Train \ {c} : Ways'[t][d] = Ways[t][d]
    BY <1>5, <1>6 DEF Ways, LegOn
  <1>8. \A i \in 1..Len(r) : r[i] \in Tile /\ Ways'[r[i]][c] = Leg(r, i)
    BY <1>3, <1>5, <1>6, PlaceFound
  <1> DEFINE L == Ways'
  <1> HIDE DEF L
  <1>9. /\ \A t \in Tile : \A d \in Train \ {c} : L[t][d] = Ways[t][d]
        /\ \A i \in 1..Len(r) : L[r[i]][c] = Leg(r, i)
    BY <1>7, <1>8 DEF L
  <1>10. /\ WaysOK(w, L, Alive)
         /\ \A t \in Tile : \A d \in Train \ {c} :
               /\ d \in Alive /\ Holds(way[t], d) => Holds(w[t], d)
               /\ Holds(w[t], d) => Holds(way[t], d) \/ Standing(d, t)
         /\ \A t \in Tile : Holds(w[t], c) => \E i \in 1..n : r[i] = t
    BY <1>1, <1>3, <1>4, <1>9, RelaidOK DEF w
  <1>11. /\ WaysOK(way', L, Alive) /\ Along(c, Alive, w, way')
         /\ phase' \in [Train -> Phases] /\ phase'[c] \in {"driving", "canstart"}
         /\ stop' \in [Train -> Nat] /\ granted' \in [Train -> Nat]
         /\ \A d \in Train \ {c} : /\ phase'[d] = phase[d] /\ stop'[d] = stop[d]
                                   /\ granted'[d] = granted[d]
         /\ stop'[c] # 0 => stop'[c] < Len(r)
         /\ stop'[c] # 0 => HasSignal(r[stop'[c]])
         /\ n <= granted'[c] /\ granted'[c] <= Len(r)
         /\ phase'[c] = "canstart" => granted'[c] = n
         /\ phase'[c] = "driving" /\ stop'[c] # 0 => granted'[c] <= stop'[c] \/ granted'[c] <= n
         /\ \A t \in Tile : Holds(way'[t], c) =>
               Holds(w[t], c) \/ \E i \in n + 1..Len(r) : r[i] = t /\ i <= granted'[c]
    <2>1. /\ WaysOK(w, L, Alive) /\ c \in Alive /\ Typed /\ r \in Seq(Tile) /\ Injective(r)
          /\ \A i \in 1..Len(r) : L[r[i]][c] = Leg(r, i)
          /\ n \in Nat \ {0} /\ n < Len(r) /\ Starts(w, c, r, n, 0)
      BY <1>1, <1>2, <1>3, <1>4, <1>9, <1>10 DEF n, w
    <2>2. Started(w, L, c, r, n, 0)
      BY <2>1, StartsOK
    <2>3. QED
      BY <2>2 DEF Started
  <1>12. /\ lost' \in [Train -> BOOLEAN] /\ lost'[c] = ~HoldsWay(c)'
         /\ \A d \in Train \ {c} : lost'[d] = lost[d]
    BY <1>1, <1>2, NotedOK
  <1>13. \A d \in Train \ {c} : Spared(d)
    BY <1>1, <1>5, <1>11, <1>12 DEF Spared
  <1>14. ASSUME NEW d \in Train \ {c}, phase[d] # "gone"
         PROVE  TilesKept(d)
    BY <1>10, <1>11, <1>14 DEF TilesKept, Along, OnlyFor, Alive
  <1>15. Typed'
    BY <1>1, <1>2, <1>5, <1>11, <1>12 DEF Typed
  <1>16. PlacesOK(c)'
    <2>1. stop'[c] <= Len(r)
      BY <1>3, <1>11
    <2>2. QED
      BY <2>1, <1>1, <1>2, <1>3, <1>4, <1>5, <1>11 DEF PlacesOK
  <1>17. ReachOK(c)'
    BY <1>1, <1>5, <1>11 DEF ReachOK, n
  <1>18. HoldingsOK(c)'
    <2>1. SUFFICES ASSUME NEW t \in Tile, Holds(way'[t], c)
                   PROVE  \E i \in 1..Len(r) : r[i] = t /\ (i <= n \/ i <= granted'[c])
      BY <1>5 DEF HoldingsOK
    <2>2. CASE Holds(w[t], c)
      BY <2>2, <1>4, <1>10
    <2>3. CASE \E i \in n + 1..Len(r) : r[i] = t /\ i <= granted'[c]
      BY <2>3, <1>4
    <2>4. QED
      BY <2>1, <2>2, <2>3, <1>11
  <1>19. WayOK(c)'
    BY <1>12 DEF WayOK
  <1>20. WaysOK(way', Ways', Alive')
    <2>1. Alive' \subseteq Alive
      BY <1>2, <1>11 DEF Alive
    <2>2. QED
      BY <2>1, <1>11, FewerAlive DEF L
  <1>21. SignalOK(c)'
    BY <1>5, <1>11 DEF SignalOK
  <1>22. QED
    BY <1>13, <1>14, <1>15, <1>16, <1>17, <1>18, <1>19, <1>20, <1>21, StepOK DEF TrainOK

-----------------------------------------------------------------------------
LEMMA InitOK == Init => Inv /\ \A c \in Train : SignalOK(c)
  <1>1. SUFFICES ASSUME Init PROVE Inv /\ \A c \in Train : SignalOK(c)
    OBVIOUS
  <1>2. ASSUME NEW c \in Train
        PROVE  /\ Start[c] \in Seq(Tile) /\ Start[c] \in Routes[c] /\ Injective(Start[c])
               /\ Len(Start[c]) \in Nat /\ Length[c] \in Nat \ {0} /\ Length[c] < Len(Start[c])
               /\ \A i \in 1..Len(Start[c]) : Start[c][i] \in Tile
               /\ MaxTrips[c] \in Nat \ {0}
    BY BlockAssumption DEF BlockAssumption
  <1>3. /\ phase = [c \in Train |-> "canstart"] /\ route = Start
        /\ front = Length /\ back = [c \in Train |-> 1]
        /\ stop = [c \in Train |-> 0] /\ granted = Length
        /\ trips = [c \in Train |-> 1] /\ events = 0
        /\ lost = [c \in Train |-> FALSE]
    BY <1>1 DEF Init
  <1>4. ASSUME NEW c \in Train
        PROVE  /\ phase[c] = "canstart" /\ route[c] = Start[c] /\ front[c] = Length[c]
               /\ back[c] = 1 /\ stop[c] = 0 /\ granted[c] = Length[c] /\ trips[c] = 1
               /\ lost[c] = FALSE
    BY <1>3
  <1> DEFINE own(t) == CHOOSE c \in Train : \E i \in 1..Length[c] : Start[c][i] = t
             taken(t) == \E c \in Train : \E i \in 1..Length[c] : Start[c][i] = t
  <1>5. ASSUME NEW t \in Tile, NEW c \in Train, NEW i \in 1..Length[c], Start[c][i] = t
        PROVE  own(t) = c
    <2>1. own(t) \in Train /\ \E j \in 1..Length[own(t)] : Start[own(t)][j] = t
      BY <1>5
    <2>2. QED
      BY <2>1, <1>5, BlockAssumption DEF BlockAssumption
  <1>6. way = [t \in Tile |-> IF taken(t)
               THEN [first |-> SlotOf(own(t), Leg(Start[own(t)], PlaceOf(Start[own(t)], t))),
                     second |-> Free]
               ELSE [first |-> Free, second |-> Free]]
    BY <1>1 DEF Init
  <1>7. \A t \in Tile : way[t] = IF taken(t)
               THEN [first |-> SlotOf(own(t), Leg(Start[own(t)], PlaceOf(Start[own(t)], t))),
                     second |-> Free]
               ELSE [first |-> Free, second |-> Free]
    BY <1>6
  <1>8. ASSUME NEW t \in Tile, NEW c \in Train, NEW i \in 1..Length[c], Start[c][i] = t
        PROVE  /\ way[t] = [first |-> SlotOf(c, Leg(Start[c], i)), second |-> Free]
               /\ i \in 1..Len(Start[c]) /\ Leg(Start[c], i) \in WayLeg
               /\ Ways[t][c] = Leg(Start[c], i)
    <2>1. own(t) = c /\ taken(t)
      BY <1>5, <1>8
    <2>2. i \in 1..Len(Start[c]) /\ PlaceOf(Start[c], t) = i /\ Leg(Start[c], i) \in WayLeg
      BY <1>2, <1>8, PlaceFound, LegType
    <2>3. Ways[t][c] = Leg(Start[c], i)
      BY <2>2, <1>4 DEF Ways, LegOn
    <2> HIDE DEF own, taken
    <2>4. QED
      BY <2>1, <2>2, <2>3, <1>7
  <1>9. ASSUME NEW t \in Tile, ~taken(t)
        PROVE  way[t] = [first |-> Free, second |-> Free]
    BY <1>7, <1>9
  <1>10. ASSUME NEW t \in Tile
         PROVE  SlotsOK(t, way[t], Ways[t], Alive)
    <2>1. CASE taken(t)
      <3>1. PICK c \in Train : \E i \in 1..Length[c] : Start[c][i] = t
        BY <2>1
      <3>2. PICK i \in 1..Length[c] : Start[c][i] = t
        BY <3>1
      <3> DEFINE s == SlotOf(c, Leg(Start[c], i))
      <3>3. /\ way[t] = [first |-> s, second |-> Free] /\ Leg(Start[c], i) \in WayLeg
            /\ Ways[t][c] = Leg(Start[c], i)
        BY <3>2, <1>8
      <3>4. s \in Slot /\ s.cnv = c /\ Agrees(s, Ways[t][c])
        BY <3>3 DEF SlotOf, Slot, WayLeg, Agrees
      <3> HIDE DEF s
      <3>5. way[t] \in Pair /\ way[t].first = s /\ way[t].second = Free
        BY <3>3, <3>4, FreeSlot DEF Pair
      <3>6. QED
        BY <3>4, <3>5, FreeSlot DEF SlotsOK, Alive
    <2>2. CASE ~taken(t)
      <3>1. way[t] \in Pair /\ way[t].first = Free /\ way[t].second = Free
        BY <2>2, <1>9, FreeSlot DEF Pair
      <3>2. QED
        BY <3>1, FreeSlot DEF SlotsOK, Alive
    <2>3. QED
      BY <2>1, <2>2
  <1>11. way \in [Tile -> Pair]
    <2>1. \A t \in Tile : way[t] \in Pair
      BY <1>10 DEF SlotsOK
    <2>2. DOMAIN way = Tile /\ way = [t \in Tile |-> way[t]]
      BY <1>6
    <2>3. QED
      BY <2>1, <2>2
  <1>12. WaysOK(way, Ways, Alive)
    BY <1>10, <1>11 DEF WaysOK
  <1>13. ASSUME NEW c \in Train
         PROVE  PlacesOK(c) /\ ReachOK(c) /\ WayOK(c)
    <2>1. PlacesOK(c) /\ ReachOK(c)
      <3> DEFINE l == Length[c]
                 m == Len(Start[c])
                 k == MaxTrips[c]
      <3>1. /\ phase[c] = "canstart" /\ route[c] = Start[c] /\ Start[c] \in Routes[c]
            /\ front[c] = l /\ back[c] = 1 /\ stop[c] = 0 /\ granted[c] = l /\ trips[c] = 1
            /\ l \in Nat \ {0} /\ m \in Nat /\ l < m /\ k \in Nat \ {0}
        <4> HIDE DEF own, taken
        <4>1. QED
          BY <1>2, <1>4
      <3>2. Len(route[c]) = m
        BY <3>1
      <3> HIDE DEF l, m, k
      <3>3. QED
        BY <3>1, <3>2 DEF PlacesOK, ReachOK, l, k
    <2>2. ASSUME NEW i \in 1..Length[c]
          PROVE  Holds(way[Start[c][i]], c)
      <3>1. Start[c][i] \in Tile
        BY <1>2
      <3>2. way[Start[c][i]] = [first |-> SlotOf(c, Leg(Start[c], i)), second |-> Free]
        BY <3>1, <1>8
      <3>3. QED
        BY <3>2 DEF Holds, SlotOf
    <2>3. Limit(c) = Length[c]
      BY <1>4 DEF Limit
    <2>4. QED
      BY <2>1, <2>2, <2>3, <1>4 DEF WayOK, HoldsWay
  <1>14. ASSUME NEW c \in Train
         PROVE  HoldingsOK(c)
    <2>1. SUFFICES ASSUME NEW t \in Tile, Holds(way[t], c)
                   PROVE  \E i \in 1..Len(Start[c]) : Start[c][i] = t /\ i <= Length[c]
      BY <1>4 DEF HoldingsOK
    <2>2. taken(t)
      BY <2>1, <1>9, FreeSlot DEF Holds
    <2>3. PICK d \in Train : \E i \in 1..Length[d] : Start[d][i] = t
      BY <2>2
    <2>4. PICK i \in 1..Length[d] : Start[d][i] = t
      BY <2>3
    <2>5. way[t] = [first |-> SlotOf(d, Leg(Start[d], i)), second |-> Free]
      BY <2>4, <1>8
    <2>6. c = d
      BY <2>1, <2>5, FreeSlot DEF Holds, SlotOf
    <2>7. QED
      BY <2>4, <2>6, <1>2
  <1>15. Typed
    <2>1. /\ Length \in [Train -> Nat] /\ Start \in [Train -> Seq(Tile)] /\ MaxEvents \in Nat
      BY <1>2, BlockAssumption DEF BlockAssumption
    <2>2. QED
      BY <2>1, <1>3 DEF Typed, Phases
  <1>16. TypeOK
    BY <1>11, <1>13, <1>15 DEF TypeOK, Typed, PlacesOK, Pair
  <1>17. \A c \in Train : SignalOK(c)
    BY <1>4 DEF SignalOK
  <1>18. QED
    BY <1>12, <1>13, <1>14, <1>16, <1>17 DEF Inv, Base, TrainOK

\* A step of some train but no loading, and what it does to the invariants.
LEMMA NextKeeps ==
  ASSUME Base, Next
  PROVE  \E c \in Train : Keeps(c)
  <1>1. PICK c \in Train :
           Runs(c) \/ NoRoute(c) \/ Reroute(c) \/ EditSchedule(c) \/ Sell(c)
    BY DEF Next
  <1>2. CASE FrontHop(c)
    BY <1>2, FrontHopOK
  <1>3. CASE Wait(c) \/ Retry(c)
    BY <1>3, WaitOrRetryOK
  <1>4. CASE Arrive(c) \/ Depart(c) \/ Reroute(c) \/ EditSchedule(c)
    BY <1>4, PhaseOnlyOK
  <1>5. CASE RearHop(c)
    BY <1>5, RearHopOK
  <1>6. CASE NoRoute(c) \/ EditDone(c)
    BY <1>6, NoRouteOrEditDoneOK
  <1>7. CASE StartUp(c)
    BY <1>7, StartUpOK
  <1>8. CASE \E r \in Routes[c] : FindRoute(c, r)
    BY <1>8, FindRouteOK
  <1>9. CASE Sell(c)
    BY <1>9, SellOK
  <1>10. QED
    BY <1>1, <1>2, <1>3, <1>4, <1>5, <1>6, <1>7, <1>8, <1>9 DEF Runs

LEMMA Stutters ==
  ASSUME UNCHANGED vars
  PROVE  /\ Base => Base'
         /\ \A c \in Train : (WayOK(c) => WayOK(c)') /\ (SignalOK(c) => SignalOK(c)')
  <1>1. /\ Ways' = Ways /\ Alive' = Alive /\ way' = way
        /\ TypeOK' = TypeOK /\ \A c \in Train : TrainOK(c)' = TrainOK(c)
    BY DEF vars, Ways, LegOn, Alive, TypeOK, TrainOK, ReachOK, HoldingsOK, Live
  <1>2. \A c \in Train : (WayOK(c) => WayOK(c)') /\ (SignalOK(c) => SignalOK(c)')
    BY DEF vars, WayOK, HoldsWay, Limit, Live, SignalOK
  <1>3. QED
    BY <1>1, <1>2 DEF Base

-----------------------------------------------------------------------------
(* Load: the trains reserve their ways again, in the order of the list.     *)

ReadStep(p, q, r, w, c) == Reread(w, c)
DoneStep(p, q, r, st, c) == Finished(st, c)
Reading == INSTANCE Folding WITH Step <- ReadStep
Finishing == INSTANCE Folding WITH Step <- DoneStep

Blank == [t \in Tile |-> [first |-> Free, second |-> Free]]
AllRead == FoldLeft(Reread, Blank, Order)
ReadState == [way |-> AllRead, stop |-> stop, granted |-> granted]
AllDone == FoldLeft(Finished, ReadState, Order)

\* Slots of which each train has at most those of the tiles it stands on,
ReadSlots == {w \in [Tile -> Pair] :
                 /\ WaysOK(w, Ways, Alive)
                 /\ \A t \in Tile : \A d \in Alive : Holds(w[t], d) => Standing(d, t)}
\* and what finish_rd works on.
LoadStates == {st \in [way : [Tile -> Pair], stop : [Train -> Nat], granted : [Train -> Nat]] :
                 WaysOK(st.way, Ways, Alive)}

LEMMA OrderIs ==
  /\ Len(Order) \in Nat /\ Order \in Seq(Train)
  /\ Order \in [1..Len(Order) -> Train]
  /\ \A i, j \in 1..Len(Order) : Order[i] = Order[j] => i = j
  /\ \A c \in Train : \E i \in 1..Len(Order) : Order[i] = c
  <1>1. Order \in Seq(Train) /\ ToSet(Order) = Train /\ Injective(Order)
    BY LoadAssumption DEF LoadAssumption
  <1>2. DOMAIN Order = 1..Len(Order)
    BY <1>1
  <1>3. QED
    BY <1>1, <1>2 DEF ToSet, Injective

LEMMA BlankOK == Blank \in ReadSlots
  <1>1. ASSUME NEW t \in Tile
        PROVE  /\ Blank[t] \in Pair /\ Blank[t].first = Free /\ Blank[t].second = Free
    BY FreeSlot DEF Blank, Pair
  <1>2. ASSUME NEW t \in Tile
        PROVE  /\ SlotsOK(t, Blank[t], Ways[t], Alive)
               /\ \A d \in Alive : ~Holds(Blank[t], d)
    BY <1>1, FreeSlot DEF SlotsOK, Holds, Alive
  <1>3. Blank \in [Tile -> Pair]
    BY <1>1 DEF Blank
  <1>4. QED
    BY <1>2, <1>3 DEF ReadSlots, WaysOK

\* convoi_t::rdwr of one train.
LEMMA RereadOK ==
  ASSUME NEW w \in ReadSlots, NEW c \in Train
  PROVE  Reread(w, c) \in ReadSlots
  <1> DEFINE v == Reread(w, c)
  <1>1. /\ w \in [Tile -> Pair] /\ WaysOK(w, Ways, Alive)
        /\ \A t \in Tile : \A d \in Alive : Holds(w[t], d) => Standing(d, t)
    BY DEF ReadSlots
  <1>2. \A t \in Tile : v[t] = IF Standing(c, t) THEN Reserved(t, w[t], c, NoLeg) ELSE w[t]
    BY DEF Reread
  <1>3. \A l : NoLeg \in WayLeg /\ Agrees(NoLeg, l)
    BY DEF NoLeg, WayLeg, Agrees
  <1>4. ASSUME NEW t \in Tile
        PROVE  /\ SlotsOK(t, v[t], Ways[t], Alive)
               /\ \A d \in Alive : Holds(v[t], d) => Standing(d, t)
    <2>1. SlotsOK(t, w[t], Ways[t], Alive)
      BY <1>1 DEF WaysOK
    <2>2. CASE Standing(c, t)
      <3>1. c \in Alive
        BY <2>2 DEF Standing, Alive
      <3>2. v[t] = Reserved(t, w[t], c, NoLeg)
        BY <1>2, <2>2
      <3>3. SlotsOK(t, v[t], Ways[t], Alive) /\ OnlyFor(c, Alive, w[t], v[t])
        BY <1>3, <2>1, <3>1, <3>2, ReservedOK
      <3>4. Alive \subseteq Train
        BY DEF Alive
      <3>5. QED
        BY <1>1, <2>2, <3>3, <3>4 DEF OnlyFor
    <2>3. CASE ~Standing(c, t)
      <3>1. v[t] = w[t]
        BY <1>2, <2>3
      <3>2. QED
        BY <1>1, <2>1, <3>1
    <2>4. QED
      BY <2>2, <2>3
  <1>5. v \in [Tile -> Pair]
    BY <1>4 DEF Reread, SlotsOK
  <1>6. QED
    BY <1>4, <1>5 DEF ReadSlots, WaysOK

LEMMA AllReadOK == AllRead \in ReadSlots
  <1>1. Reading!Closed(0, 0, 0, ReadSlots, Train)
    BY RereadOK DEF Reading!Closed, ReadStep
  <1>2. Reading!Run(0, 0, 0, Blank, Order) \in ReadSlots
    BY <1>1, BlankOK, OrderIs, Reading!FoldIn
  <1>3. AllRead = Reading!Run(0, 0, 0, Blank, Order)
    BY DEF AllRead, ReadStep, Reading!Run, FoldLeft, MapThenFoldSet, Max,
           Reading!FoldLeft, Reading!MapThenFoldSet, Reading!Max
  <1>4. QED
    BY <1>2, <1>3

\* A train before its finish_rd,
Unread(st, c) ==
    /\ st.stop[c] = stop[c] /\ st.granted[c] = granted[c]
    /\ c \in Alive => \A t \in Tile : Holds(st.way[t], c) => Standing(c, t)
\* and after it.
Read(st, c) ==
    /\ \/ st.stop[c] = stop[c] /\ st.granted[c] = granted[c]
       \/ /\ phase[c] \in {"driving", "waiting", "canstart"}
          /\ st.stop[c] = st.granted[c] /\ st.granted[c] < granted[c]
    /\ c \in Alive => \A t \in Tile : Holds(st.way[t], c) =>
          \/ Standing(c, t)
          \/ \E i \in back[c]..Len(route[c]) : route[c][i] = t /\ i <= st.granted[c]

\* How far c gets its way back.
LEMMA RegainedIs ==
  ASSUME Base, NEW w, NEW c \in Train
  PROVE  LET e == Regained(w, c)
         IN  /\ Claimed(c) \in Nat /\ e \in Nat /\ e <= Len(route[c])
             /\ Denied(w, c) = {} => e = Claimed(c)
             /\ Denied(w, c) # {} => /\ e < Claimed(c)
                                     /\ phase[c] \in {"driving", "waiting", "canstart"}
             /\ phase[c] \in {"driving", "waiting", "canstart"} => Claimed(c) = granted[c]
             /\ phase[c] \notin {"driving", "waiting", "canstart"} => e <= front[c]
             /\ phase[c] = "gone" => e = back[c] - 1
  <1> DEFINE e == Regained(w, c)
             D == Denied(w, c)
  <1>1. /\ PlacesOK(c) /\ front[c] \in Nat /\ back[c] \in Nat /\ granted[c] \in Nat
        /\ Len(route[c]) \in Nat
    BY TrainTypes DEF Base
  <1>2. /\ Claimed(c) \in Nat /\ Claimed(c) <= Len(route[c])
        /\ phase[c] \in {"driving", "waiting", "canstart"} => Claimed(c) = granted[c]
        /\ phase[c] = "loading" => Claimed(c) = front[c]
        /\ phase[c] \notin {"driving", "waiting", "canstart", "loading"} => Claimed(c) = back[c] - 1
    BY <1>1 DEF Claimed, PlacesOK
  <1>3. D \subseteq back[c]..Claimed(c) /\ (phase[c] = "loading" => D = {})
    BY DEF Denied
  <1>4. phase[c] \notin {"driving", "waiting", "canstart"} => D = {}
    <2>1. back[c]..(back[c] - 1) = {}
      BY <1>1
    <2>2. QED
      BY <1>2, <1>3, <2>1
  <1>5. CASE D = {}
    <2>1. e = Claimed(c)
      BY <1>5 DEF Regained
    <2> HIDE DEF D, e
    <2>2. QED
      BY <1>1, <1>2, <1>5, <2>1 DEF PlacesOK, D, e
  <1>6. CASE D # {}
    <2>1. e = Min(D) - 1
      BY <1>6 DEF Regained
    <2>2. Min(D) \in D
      <3>1. D \subseteq Nat
        BY <1>1, <1>2, <1>3
      <3> HIDE DEF D
      <3>2. PICK x \in D : \A y \in D : x <= y
        BY <1>6, <3>1, Minimum
      <3>3. QED
        BY <3>2 DEF Min
    <2> DEFINE m == Min(D)
    <2>3. m \in back[c]..Claimed(c) /\ e = m - 1
      BY <1>3, <2>1, <2>2
    <2> HIDE DEF m, D, e
    <2>4. e \in Nat /\ e < Claimed(c) /\ e <= Len(route[c])
      BY <1>1, <1>2, <2>3 DEF PlacesOK
    <2>5. QED
      BY <1>2, <1>4, <1>6, <2>4 DEF D, e
  <1>7. QED
    BY <1>5, <1>6

\* convoi_t::finish_rd of one train.
LEMMA FinishedOK ==
  ASSUME Base, NEW st \in LoadStates, NEW c \in Train
  PROVE  LET v == Finished(st, c)
         IN  /\ v \in LoadStates
             /\ Unread(st, c) => Read(v, c)
             /\ \A d \in Train \ {c} : /\ Unread(st, d) => Unread(v, d)
                                       /\ Read(st, d) => Read(v, d)
  <1> DEFINE v == Finished(st, c)
             e == Regained(st.way, c)
             w == Taken(st.way, c, route[c], back[c], e)
             D == Denied(st.way, c)
  <1>1. /\ PlacesOK(c) /\ front[c] \in Nat /\ back[c] \in Nat \ {0} /\ granted[c] \in Nat
        /\ route[c] \in Seq(Tile) /\ Injective(route[c]) /\ Len(route[c]) \in Nat
    BY TrainTypes DEF Base, PlacesOK
  <1>2. /\ st.way \in [Tile -> Pair] /\ st.stop \in [Train -> Nat]
        /\ st.granted \in [Train -> Nat] /\ WaysOK(st.way, Ways, Alive)
    BY DEF LoadStates
  <1>3. /\ Claimed(c) \in Nat /\ e \in Nat /\ e <= Len(route[c])
        /\ D = {} => e = Claimed(c)
        /\ D # {} => e < Claimed(c) /\ phase[c] \in {"driving", "waiting", "canstart"}
        /\ phase[c] \in {"driving", "waiting", "canstart"} => Claimed(c) = granted[c]
        /\ phase[c] \notin {"driving", "waiting", "canstart"} => e <= front[c]
        /\ phase[c] = "gone" => e = back[c] - 1
    BY RegainedIs
  <1>4. /\ v.way = w
        /\ v.stop = IF D = {} THEN st.stop ELSE [st.stop EXCEPT ![c] = e]
        /\ v.granted = IF D = {} THEN st.granted ELSE [st.granted EXCEPT ![c] = e]
        /\ v = [way |-> v.way, stop |-> v.stop, granted |-> v.granted]
    BY DEF Finished
  <1> HIDE DEF v, e, D
  <1>5. /\ v.stop \in [Train -> Nat] /\ v.granted \in [Train -> Nat]
        /\ \A d \in Train \ {c} : v.stop[d] = st.stop[d] /\ v.granted[d] = st.granted[d]
        /\ D = {} => v.stop[c] = st.stop[c] /\ v.granted[c] = st.granted[c]
        /\ D # {} => v.stop[c] = e /\ v.granted[c] = e
    BY <1>2, <1>3, <1>4
  <1>6. /\ WaysOK(w, Ways, Alive)
        /\ \A d \in Alive \ {c} : \A t \in Tile : Holds(w[t], d) => Holds(st.way[t], d)
        /\ \A t \in Tile : c \in Alive /\ Holds(w[t], c) =>
              Holds(st.way[t], c) \/ \E i \in back[c]..e : route[c][i] = t
    <2>1. CASE c \in Alive
      <3>1. \A i \in 1..Len(route[c]) : Ways[route[c][i]][c] = Leg(route[c], i)
        BY WaysAre DEF Base
      <3>2. /\ WaysOK(w, Ways, Alive) /\ Along(c, Alive, st.way, w)
            /\ Untouches(route[c], back[c], e, st.way, w)
        BY <1>1, <1>2, <1>3, <2>1, <3>1, TakenOK
      <3>3. Alive \subseteq Train
        BY DEF Alive
      <3> HIDE DEF w
      <3>4. QED
        BY <3>2, <3>3 DEF Along, OnlyFor, Untouches
    <2>2. CASE c \notin Alive
      <3>1. e = back[c] - 1 /\ back[c]..(back[c] - 1) = {}
        BY <1>1, <1>3, <2>2 DEF Alive
      <3>2. w = [t \in Tile |-> st.way[t]]
        BY <3>1 DEF Taken
      <3>3. w = st.way
        BY <1>2, <3>2
      <3>4. QED
        BY <1>2, <2>2, <3>3
    <2>3. QED
      BY <2>1, <2>2
  <1> HIDE DEF w
  <1>7. v \in LoadStates
    <2>1. w \in [Tile -> Pair]
      BY <1>6 DEF WaysOK
    <2>2. QED
      BY <1>4, <1>5, <1>6, <2>1 DEF LoadStates
  <1>8. ASSUME Unread(st, c)
        PROVE  Read(v, c)
    <2>1. st.stop[c] = stop[c] /\ st.granted[c] = granted[c]
      BY <1>8 DEF Unread
    <2>2. \/ v.stop[c] = stop[c] /\ v.granted[c] = granted[c]
          \/ /\ phase[c] \in {"driving", "waiting", "canstart"}
             /\ v.stop[c] = v.granted[c] /\ v.granted[c] < granted[c]
      BY <1>3, <1>5, <2>1
    <2>3. ASSUME c \in Alive, NEW t \in Tile, Holds(v.way[t], c), ~Standing(c, t)
          PROVE  \E i \in back[c]..Len(route[c]) : route[c][i] = t /\ i <= v.granted[c]
      <3>1. ~Holds(st.way[t], c)
        BY <1>8, <2>3 DEF Unread
      <3>2. PICK i \in back[c]..e : route[c][i] = t
        BY <1>4, <1>6, <2>3, <3>1
      <3>3. ~(i <= front[c])
        BY <1>1, <1>3, <2>3, <3>2 DEF Standing, Occupied, Alive
      <3>4. phase[c] \in {"driving", "waiting", "canstart"}
        BY <1>1, <1>3, <3>2, <3>3
      <3>5. v.granted[c] = e
        BY <1>3, <1>5, <2>1, <3>4
      <3>6. QED
        BY <1>1, <1>3, <3>2, <3>5
    <2>4. QED
      BY <2>2, <2>3 DEF Read
  <1>9. ASSUME NEW d \in Train \ {c}
        PROVE  (Unread(st, d) => Unread(v, d)) /\ (Read(st, d) => Read(v, d))
    <2>1. /\ v.stop[d] = st.stop[d] /\ v.granted[d] = st.granted[d]
          /\ d \in Alive => \A t \in Tile : Holds(v.way[t], d) => Holds(st.way[t], d)
      BY <1>4, <1>5, <1>6
    <2>2. QED
      BY <2>1 DEF Unread, Read
  <1>10. QED
    BY <1>7, <1>8, <1>9 DEF v

\* After the last finish_rd.
LEMMA AllDoneOK ==
  ASSUME Base
  PROVE  AllDone \in LoadStates /\ \A c \in Train : Read(AllDone, c)
  <1> DEFINE N == Len(Order)
  <1>1. N \in Nat /\ Order \in [1..N -> Train]
    BY OrderIs
  <1>2. Finishing!Closed(0, 0, 0, LoadStates, Train)
    BY FinishedOK DEF Finishing!Closed, DoneStep
  <1>3. ReadState \in LoadStates /\ \A c \in Train : Unread(ReadState, c)
    <2>1. /\ stop \in [Train -> Nat] /\ granted \in [Train -> Nat]
      BY TypeOKIs DEF Base, Typed
    <2>2. /\ AllRead \in [Tile -> Pair] /\ WaysOK(AllRead, Ways, Alive)
          /\ \A t \in Tile : \A d \in Alive : Holds(AllRead[t], d) => Standing(d, t)
      BY AllReadOK DEF ReadSlots
    <2>3. QED
      BY <2>1, <2>2 DEF ReadState, LoadStates, Unread
  <1>4. AllDone = Finishing!Run(0, 0, 0, ReadState, Order)
    BY DEF AllDone, DoneStep, Finishing!Run, FoldLeft, MapThenFoldSet, Max,
           Finishing!FoldLeft, Finishing!MapThenFoldSet, Finishing!Max
  <1> HIDE DEF N
  <1>5. PICK g \in [0..N -> LoadStates] : Finishing!Steps(g, 0, 0, 0, ReadState, Order, N)
    BY <1>1, <1>2, <1>3, Finishing!FoldSteps
  <1>6. /\ g[0] = ReadState /\ AllDone = g[N]
        /\ \A n \in 1..N : g[n] = Finished(g[n - 1], Order[n])
    BY <1>4, <1>5 DEF Finishing!Steps, DoneStep
  <1> DEFINE Done(n) == \A i \in 1..N : IF i <= n THEN Read(g[n], Order[i])
                                                  ELSE Unread(g[n], Order[i])
             K == {n \in Nat : n <= N => Done(n)}
  <1>7. 0 \in K
    <2>1. ASSUME NEW i \in 1..N
          PROVE  ~(i <= 0) /\ Unread(g[0], Order[i])
      BY <1>1, <1>3, <1>6
    <2>2. QED
      BY <2>1
  <1>8. ASSUME NEW n \in Nat, n \in K
        PROVE  n + 1 \in K
    <2> SUFFICES ASSUME n + 1 <= N PROVE Done(n + 1)
      OBVIOUS
    <2>1. n + 1 \in 1..N /\ (n + 1) - 1 = n /\ n \in 0..N /\ n <= N
      BY <1>1
    <2>2. g[n + 1] = Finished(g[n], Order[n + 1])
      BY <1>6, <2>1
    <2>3. g[n] \in LoadStates /\ Order[n + 1] \in Train /\ Done(n)
      BY <1>1, <1>8, <2>1
    <2> HIDE DEF K, Done
    <2>4. /\ Unread(g[n], Order[n + 1]) => Read(g[n + 1], Order[n + 1])
          /\ \A d \in Train \ {Order[n + 1]} :
                /\ Unread(g[n], d) => Unread(g[n + 1], d)
                /\ Read(g[n], d) => Read(g[n + 1], d)
      BY <2>2, <2>3, FinishedOK
    <2>5. ASSUME NEW i \in 1..N
          PROVE  IF i <= n + 1 THEN Read(g[n + 1], Order[i]) ELSE Unread(g[n + 1], Order[i])
      <3>1. IF i <= n THEN Read(g[n], Order[i]) ELSE Unread(g[n], Order[i])
        BY <2>3 DEF Done
      <3>2. CASE i = n + 1
        <4>1. ~(i <= n) /\ i <= n + 1
          BY <3>2
        <4>2. QED
          BY <2>4, <3>1, <3>2, <4>1
      <3>3. CASE i # n + 1
        <4>1. Order[i] \in Train \ {Order[n + 1]}
          BY <1>1, <2>1, <3>3, OrderIs DEF N
        <4>2. i <= n + 1 <=> i <= n
          BY <3>3
        <4>3. QED
          BY <2>4, <3>1, <4>1, <4>2
      <3>4. QED
        BY <3>2, <3>3
    <2>6. QED
      BY <2>5 DEF Done
  <1> HIDE DEF Done
  <1>9. Nat \subseteq K
    <2> HIDE DEF K
    <2>1. QED
      BY <1>7, <1>8, Finishing!Induction
  <1>10. Done(N) /\ N \in 0..N
    BY <1>1, <1>9
  <1>11. ASSUME NEW c \in Train
         PROVE  Read(AllDone, c)
    <2>1. PICK i \in 1..N : Order[i] = c
      BY OrderIs DEF N
    <2>2. i <= N
      BY <1>1
    <2>3. QED
      BY <1>6, <1>10, <2>1, <2>2 DEF Done
  <1>12. QED
    BY <1>5, <1>6, <1>10, <1>11

LEMMA LoadOK ==
  ASSUME Base, Load
  PROVE  /\ Base' /\ \A c \in Train : WayOK(c)'
         /\ \A c \in Train : /\ Live(c)' = Live(c) /\ lost'[c] = ~HoldsWay(c)'
                             /\ UNCHANGED <<phase[c], route[c], front[c], back[c]>>
  <1>1. /\ way' = AllDone.way /\ stop' = AllDone.stop /\ granted' = AllDone.granted
        /\ UNCHANGED <<phase, route, front, back, trips>>
        /\ lost' = [c \in Train |-> ~HoldsWay(c)'] /\ events' \in 0..MaxEvents
    <2>1. events' \in 0..MaxEvents
      BY TypeOKIs, BlockAssumption DEF Load, Rare, Base, Typed, BlockAssumption
    <2>2. QED
      BY <2>1 DEF Load, AllDone, ReadState, AllRead, Blank
  <1>2. AllDone \in LoadStates /\ \A c \in Train : Read(AllDone, c)
    BY AllDoneOK
  <1>3. /\ way' \in [Tile -> Pair] /\ WaysOK(way', Ways, Alive)
        /\ stop' \in [Train -> Nat] /\ granted' \in [Train -> Nat]
    BY <1>1, <1>2 DEF LoadStates
  <1>4. ASSUME NEW c \in Train
        PROVE  lost'[c] = ~HoldsWay(c)' /\ lost'[c] \in BOOLEAN
    <2>1. HoldsWay(c)' \in BOOLEAN
      BY DEF HoldsWay
    <2>2. QED
      BY <1>1, <2>1
  <1>5. Typed'
    <2>1. lost' \in [Train -> BOOLEAN]
      BY <1>1, <1>4
    <2>2. Typed
      BY TypeOKIs DEF Base
    <2>3. QED
      BY <1>1, <1>3, <2>1, <2>2 DEF Typed
  <1>6. ASSUME NEW c \in Train
        PROVE  PlacesOK(c)' /\ ReachOK(c)' /\ HoldingsOK(c)'
    <2>1. /\ PlacesOK(c) /\ ReachOK(c) /\ front[c] \in Nat /\ back[c] \in Nat
          /\ stop[c] \in Nat /\ granted[c] \in Nat /\ Len(route[c]) \in Nat
      BY TrainTypes DEF Base, TrainOK
    <2>2. /\ \/ stop'[c] = stop[c] /\ granted'[c] = granted[c]
             \/ /\ phase[c] \in {"driving", "waiting", "canstart"}
                /\ stop'[c] = granted'[c] /\ granted'[c] < granted[c]
          /\ c \in Alive => \A t \in Tile : Holds(way'[t], c) =>
                \/ Standing(c, t)
                \/ \E i \in back[c]..Len(route[c]) : route[c][i] = t /\ i <= granted'[c]
      BY <1>1, <1>2 DEF Read
    <2>3. stop'[c] \in Nat /\ granted'[c] \in Nat
      BY <1>3
    <2>4. PlacesOK(c)'
      BY <1>1, <2>1, <2>2, <2>3 DEF PlacesOK
    <2>5. ReachOK(c)'
      BY <1>1, <2>1, <2>2, <2>3 DEF ReachOK, PlacesOK
    <2>6. HoldingsOK(c)'
      <3>1. SUFFICES ASSUME NEW t \in Tile, Live(c), Holds(way'[t], c)
                     PROVE  \E i \in back[c]..Len(route[c]) :
                                route[c][i] = t /\ (i <= front[c] \/ i <= granted'[c])
        BY <1>1 DEF HoldingsOK, Live
      <3>2. CASE Standing(c, t)
        <4>1. PICK i \in back[c]..front[c] : route[c][i] = t
          BY <3>2 DEF Standing, Occupied
        <4>2. QED
          BY <2>1, <4>1 DEF PlacesOK
      <3>3. CASE ~Standing(c, t)
        BY <2>2, <3>1, <3>3 DEF Live, Alive
      <3>4. QED
        BY <3>2, <3>3
    <2>7. QED
      BY <2>4, <2>5, <2>6
  <1>7. Ways' = Ways /\ Alive' = Alive
    BY <1>1, SameWays DEF Alive
  <1>8. TypeOK'
    BY <1>3, <1>5, <1>6 DEF TypeOK, Typed, PlacesOK, Pair
  <1>9. Base'
    BY <1>3, <1>6, <1>7, <1>8 DEF Base, TrainOK
  <1>10. \A c \in Train : WayOK(c)'
    BY <1>4 DEF WayOK
  <1>11. QED
    BY <1>1, <1>4, <1>9, <1>10 DEF Live

-----------------------------------------------------------------------------
(* The theorems.                                                            *)

SignalsOK == \A c \in Train : SignalOK(c)

LEMMA NextOK == Inv /\ SignalsOK /\ [Next]_vars => (Inv /\ SignalsOK)'
  <1>1. SUFFICES ASSUME Inv, SignalsOK, [Next]_vars PROVE (Inv /\ SignalsOK)'
    OBVIOUS
  <1>2. CASE UNCHANGED vars
    BY <1>1, <1>2, Stutters DEF Inv, SignalsOK
  <1>3. CASE Next
    <2>1. PICK c \in Train : Keeps(c)
      BY <1>1, <1>3, NextKeeps DEF Inv
    <2>2. Sighted(c)
      BY <1>1 DEF Sighted, SignalsOK, SignalOK
    <2>3. Base'
      BY <2>1 DEF Keeps
    <2>4. ASSUME NEW d \in Train PROVE WayOK(d)' /\ SignalOK(d)'
      <3>1. (Sighted(c) /\ WayOK(d) => WayOK(d)') /\ (SignalOK(d) => SignalOK(d)')
        BY <2>1 DEF Keeps
      <3>2. WayOK(d) /\ SignalOK(d)
        BY <1>1 DEF Inv, SignalsOK
      <3>3. QED
        BY <2>2, <3>1, <3>2
    <2>5. QED
      BY <2>3, <2>4 DEF Inv, SignalsOK
  <1>4. QED
    BY <1>1, <1>2, <1>3

LEMMA LoadNextOK ==
  /\ Base /\ [LoadNext]_vars => Base'
  /\ Inv /\ NoStaleSlot /\ [LoadNext]_vars => Inv'
  <1>1. SUFFICES ASSUME Base, [LoadNext]_vars
                 PROVE  Base' /\ (Inv /\ NoStaleSlot => Inv')
    BY DEF Inv
  <1>2. CASE UNCHANGED vars
    BY <1>1, <1>2, Stutters DEF Inv
  <1>3. CASE Next
    <2>1. PICK c \in Train : Keeps(c)
      BY <1>1, <1>3, NextKeeps
    <2>2. Base'
      BY <2>1 DEF Keeps
    <2>3. NoStaleSlot => Sighted(c)
      BY DEF Sighted, NoStaleSlot
    <2>4. ASSUME Inv, NoStaleSlot, NEW d \in Train PROVE WayOK(d)'
      <3>1. Sighted(c) /\ WayOK(d) => WayOK(d)'
        BY <2>1 DEF Keeps
      <3>2. WayOK(d)
        BY <2>4 DEF Inv
      <3>3. QED
        BY <2>3, <2>4, <3>1, <3>2
    <2>5. QED
      BY <2>2, <2>4 DEF Inv
  <1>4. CASE Load
    BY <1>1, <1>4, LoadOK DEF Inv
  <1>5. QED
    BY <1>1, <1>2, <1>3, <1>4 DEF LoadNext

\* What holds of the trains of loaded games, too, holds of those of Spec.
LEMMA SpecLoads == Spec => LoadSpec
  <1>1. [Next]_vars => [LoadNext]_vars
    BY DEF LoadNext
  <1>2. QED
    BY <1>1, PTL DEF Spec, LoadSpec

\* The invariant holds for any tracks, routes, signals and number of trains,
THEOREM InvHolds == Spec => []Inv
  <1>1. Init => Inv /\ SignalsOK
    BY InitOK DEF SignalsOK
  <1>2. QED
    BY <1>1, NextOK, PTL DEF Spec

\* in loaded games but for the ways,
THEOREM BaseHolds == LoadSpec => []Base
  <1>1. Init => Base
    BY InitOK DEF Inv
  <1>2. QED
    BY <1>1, LoadNextOK, PTL DEF LoadSpec

\* and there with the ways, too, as long as no slot is stale.
THEOREM LoadInvHolds == LoadSpec /\ []NoStaleSlot => []Inv
  <1>1. Init => Inv
    BY InitOK
  <1>2. QED
    BY <1>1, LoadNextOK, PTL DEF LoadSpec

\* Only a train that is sold leaves a stale slot (~rail_vehicle_t does not give
\* the tile of the first vehicle back when the end of the route is near).
THEOREM UnsoldIsFresh == "sell" \notin Events => (LoadSpec => []NoStaleSlot)
  <1> DEFINE Unsold == \A c \in Train : phase[c] # "gone"
  <1>1. Init => Unsold
    BY DEF Init
  <1>2. "sell" \notin Events /\ Base /\ Unsold /\ [LoadNext]_vars => Unsold'
    <2>1. SUFFICES ASSUME "sell" \notin Events, Base, Unsold, [LoadNext]_vars, NEW d \in Train
                   PROVE  phase'[d] # "gone"
      OBVIOUS
    <2>2. phase \in [Train -> Phases] /\ phase[d] # "gone"
      BY <2>1, TypeOKIs DEF Base, Typed
    <2>3. CASE UNCHANGED phase
      BY <2>2, <2>3
    <2>4. CASE \E c \in Train, p \in Phases \ {"gone"} : phase' = [phase EXCEPT ![c] = p]
      BY <2>2, <2>4
    <2>5. CASE \E c \in Train : Sell(c)
      BY <2>1, <2>5 DEF Sell, Rare
    <2>6. [LoadNext]_vars =>
            \/ UNCHANGED phase
            \/ \E c \in Train, p \in Phases \ {"gone"} : phase' = [phase EXCEPT ![c] = p]
            \/ \E c \in Train : Sell(c)
      <3>1. ASSUME NEW c \in Train, Wait(c) \/ Arrive(c) \/ Depart(c) \/ NoRoute(c) \/ Reroute(c)
                                    \/ EditSchedule(c)
            PROVE  \E p \in Phases \ {"gone"} : phase' = [phase EXCEPT ![c] = p]
        BY <3>1 DEF Wait, Arrive, Depart, NoRoute, Reroute, EditSchedule, Phases
      <3>2. ASSUME NEW c \in Train, Retry(c)
            PROVE  \E p \in Phases \ {"gone"} : phase' = [phase EXCEPT ![c] = p]
        <4>1. phase[c] = "waiting" /\ phase' = [phase EXCEPT ![c] = IF MayGo(c) THEN "driving" ELSE @]
          BY <3>2 DEF Retry
        <4>2. phase' = [phase EXCEPT ![c] = "driving"] \/ phase' = [phase EXCEPT ![c] = "waiting"]
          BY <4>1
        <4>3. QED
          BY <4>2 DEF Phases
      <3>3. ASSUME NEW c \in Train, StartUp(c) \/ \E r \in Routes[c] : FindRoute(c, r)
            PROVE  \E p \in Phases \ {"gone"} : phase' = [phase EXCEPT ![c] = p]
        <4>1. PICK drive : phase' = [phase EXCEPT ![c] = IF drive THEN "driving" ELSE "canstart"]
          BY <3>3 DEF StartUp, FindRoute, Starts
        <4>2. phase' = [phase EXCEPT ![c] = "driving"] \/ phase' = [phase EXCEPT ![c] = "canstart"]
          BY <4>1
        <4>3. QED
          BY <4>2 DEF Phases
      <3>4. ASSUME NEW c \in Train, EditDone(c)
            PROVE  \E p \in Phases \ {"gone"} : phase' = [phase EXCEPT ![c] = p]
        <4>1. PICK p \in {"routing", "loading", "driving"} : phase' = [phase EXCEPT ![c] = p]
          BY <3>4 DEF EditDone
        <4>2. p \in Phases \ {"gone"}
          BY DEF Phases
        <4>3. QED
          BY <4>1, <4>2
      <3>5. ASSUME NEW c \in Train, FrontHop(c) \/ RearHop(c)
            PROVE  UNCHANGED phase
        BY <3>5 DEF FrontHop, RearHop
      <3>6. Load => UNCHANGED phase
        BY DEF Load
      <3>7. UNCHANGED vars => UNCHANGED phase
        BY DEF vars
      <3>8. QED
        BY <3>1, <3>2, <3>3, <3>4, <3>5, <3>6, <3>7 DEF LoadNext, Next, Runs
    <2>7. QED
      BY <2>1, <2>3, <2>4, <2>5, <2>6
  <1>3. Base /\ Unsold => NoStaleSlot
    <2>1. SUFFICES ASSUME Base, Unsold, NEW t \in Tile, way[t].second.cnv \in Train
                   PROVE  way[t].first.cnv \in Train /\ phase[way[t].first.cnv] # "gone"
      BY DEF NoStaleSlot, Bound
    <2>2. way[t].first.cnv \in Train
      BY <2>1 DEF Base, WaysOK, SlotsOK
    <2>3. QED
      BY <2>1, <2>2
  <1> HIDE DEF Unsold
  <1>4. "sell" \notin Events => (LoadSpec => []NoStaleSlot)
    <2>1. SUFFICES ASSUME "sell" \notin Events PROVE LoadSpec => []NoStaleSlot
      OBVIOUS
    <2>2. Base /\ Unsold /\ [LoadNext]_vars => Unsold'
      BY <2>1, <1>2
    <2>3. QED
      BY <2>2, <1>1, <1>3, BaseHolds, PTL DEF LoadSpec
  <1>5. QED
    BY <1>4

\* The variables have their types and every place is on its route, whatever
\* the trains do and whenever the game is loaded.
THEOREM TypeCorrect == LoadSpec => []TypeOK
  <1>1. Base => TypeOK
    BY DEF Base
  <1>2. QED
    BY <1>1, BaseHolds, PTL

LEMMA InvImpliesWays == Inv => WayIsHeld
  BY DEF Inv, WayOK, WayIsHeld

\* No other train and no refused block takes a way from a train that drives on
\* it (schiene_t::reserve, unreserve, block_reserver),
THEOREM WayIsHeldAlways == Spec => []WayIsHeld
  BY InvImpliesWays, InvHolds, PTL

\* nor does it in a loaded game in which no slot is stale.
THEOREM LoadWayIsHeld == LoadSpec /\ []NoStaleSlot => []WayIsHeld
  BY InvImpliesWays, LoadInvHolds, PTL

\* block_reserver and unreserve_route leave no reservation behind or ahead,
\* nor does finish_rd.
THEOREM NoStrayReservationAlways == LoadSpec => []NoStrayReservation
  <1>1. Base => NoStrayReservation
    BY DEF Base, TrainOK, HoldingsOK, NoStrayReservation
  <1>2. QED
    BY <1>1, BaseHolds, PTL

\* What a track notes of the ways of its trains is right, so can_co_reserve_dirs
\* and can_co_reserve_offset decide on the true ways.
THEOREM LegsKnownAlways == LoadSpec => []LegsKnown
  <1>1. Base => LegsKnown
    <2>1. SUFFICES ASSUME Base, NEW t \in Tile, NEW s \in {way[t].first, way[t].second}, Bound(s)
                   PROVE  /\ s.corner \in {{}, LegOn(s.cnv, t).corner}
                          /\ s.heading \in {NoSide, LegOn(s.cnv, t).heading}
      BY DEF LegsKnown
    <2>2. s.cnv \in Alive /\ s.cnv \in Train
      BY <2>1, BoundIsAlive DEF Alive
    <2>3. Ways[t][s.cnv] = LegOn(s.cnv, t)
      BY <2>2 DEF Ways
    <2>4. Agrees(s, Ways[t][s.cnv])
      BY <2>1, <2>2 DEF Base, WaysOK, SlotsOK
    <2>5. QED
      BY <2>3, <2>4 DEF Agrees
  <1>2. QED
    BY <1>1, BaseHolds, PTL

LEMMA StandingHolds ==
  ASSUME Inv, NEW c \in Train, NEW t \in Tile, Standing(c, t), ~lost[c]
  PROVE  Holds(way[t], c) /\ c \in Alive
  <1>1. PICK i \in back[c]..front[c] : route[c][i] = t
    BY DEF Standing, Occupied
  <1>2. Limit(c) >= front[c] /\ Limit(c) \in Nat /\ front[c] \in Nat /\ back[c] \in Nat
    BY TrainTypes DEF Inv, Base, Limit, PlacesOK
  <1>3. HoldsWay(c)
    BY DEF Inv, WayOK, Live, Standing
  <1>4. QED
    BY <1>1, <1>2, <1>3 DEF HoldsWay, Standing, Alive

LEMMA InvImpliesNoCollision == Inv => NoCollision
  <1>1. SUFFICES ASSUME Inv, NEW t \in Tile, NEW a \in Train, NEW b \in Train, a # b,
                        Standing(a, t), Standing(b, t), ~lost[a], ~lost[b]
                 PROVE  Untouched(t, LegOn(a, t), LegOn(b, t))
    BY DEF NoCollision
  <1>2. Holds(way[t], a) /\ Holds(way[t], b) /\ a \in Alive /\ b \in Alive
    BY <1>1, StandingHolds
  <1>3. SlotsOK(t, way[t], Ways[t], Alive)
    BY <1>1 DEF Inv, Base, WaysOK
  <1>4. Ways[t][a] = LegOn(a, t) /\ Ways[t][b] = LegOn(b, t)
    BY DEF Ways
  <1>5. PICK p \in {way[t].first, way[t].second}, q \in {way[t].first, way[t].second} :
             /\ p.cnv = a /\ q.cnv = b /\ MayShare(t, p, q)
             /\ Agrees(p, LegOn(a, t)) /\ Agrees(q, LegOn(b, t))
    BY <1>1, <1>2, <1>3, <1>4, SharingIsMutual DEF SlotsOK, Holds
  <1>6. {} \notin Bends
    BY BlockAssumption DEF BlockAssumption
  <1>7. QED
    BY <1>5, <1>6 DEF MayShare, DisjointBends, OppositeHeadings, Agrees, Untouched

\* Two trains on one tile run over it without touching (can_co_reserve_dirs,
\* can_co_reserve_offset),
THEOREM NoCollisionAlways == Spec => []NoCollision
  BY InvImpliesNoCollision, InvHolds, PTL

\* in a loaded game, too, if no slot is stale.
THEOREM LoadNoCollision == LoadSpec /\ []NoStaleSlot => []NoCollision
  BY InvImpliesNoCollision, LoadInvHolds, PTL

\* A train keeps what it has when it asks in vain (block_reserver).
LEMMA AsksInVain ==
  ASSUME Base, NEW c \in Train, Retry(c) \/ StartUp(c), phase'[c] = phase[c],
         NEW t \in Tile, Holds(way[t], c)
  PROVE  Holds(way'[t], c)
  <1>1. /\ PlacesOK(c) /\ ReachOK(c) /\ HoldingsOK(c) /\ Typed /\ TypeOK
        /\ route[c] \in Seq(Tile) /\ Len(route[c]) \in Nat /\ Injective(route[c])
        /\ front[c] \in Nat /\ back[c] \in Nat /\ stop[c] \in Nat /\ granted[c] \in Nat
    BY TrainTypes, TypeOKIs DEF Base, TrainOK
  <1>2. CASE Retry(c)
    <2>1. phase[c] = "waiting" /\ way' = WayAsked(c) /\ PlacesAsked(c)
      BY <1>2 DEF Retry
    <2>2. front[c] < Len(route[c])
      BY <2>1, <1>1 DEF ReachOK
    <2>3. Asked(c)
      BY <2>1, <2>2, AskedOK
    <2>4. QED
      BY <2>1, <2>3 DEF Asked
  <1>3. CASE StartUp(c)
    <2> DEFINE r == route[c]
               f == front[c]
    <2>1. phase[c] = "canstart" /\ Starts(way, c, r, f, stop[c])
      BY <1>3 DEF StartUp
    <2>2. /\ f \in Nat \ {0} /\ f < Len(r) /\ c \in Alive /\ granted[c] <= f
          /\ stop[c] # 0 => stop[c] < Len(r)
          /\ r \in Seq(Tile) /\ Injective(r) /\ stop[c] \in Nat /\ Typed
          /\ Len(r) \in Nat /\ back[c] \in Nat \ {0}
      BY <1>1, <2>1 DEF PlacesOK, ReachOK, Alive
    <2>3. WaysOK(way, Ways, Alive) /\ \A i \in 1..Len(r) : Ways[r[i]][c] = Leg(r, i)
      BY WaysAre DEF Base
    <2> HIDE DEF r, f
    <2>4. \A u \in Tile : Holds(way[u], c) =>
              Holds(way'[u], c) \/ \E i \in f + 1..Len(r) : r[i] = u
      <3>1. Started(way, Ways, c, r, f, stop[c])
        BY <2>1, <2>2, <2>3, StartsOK
      <3>2. QED
        BY <3>1 DEF Started
    <2>5. PICK i \in back[c]..Len(r) : r[i] = t /\ i <= f
      <3>1. Live(c)
        BY <2>1 DEF Live
      <3>2. PICK i \in back[c]..Len(r) : r[i] = t /\ (i <= f \/ i <= granted[c])
        BY <3>1, <1>1 DEF HoldingsOK, r, f
      <3>3. QED
        BY <3>2, <2>2, <1>1
    <2>6. \A j \in f + 1..Len(r) : r[j] # t
      <3>1. \A j \in f + 1..Len(r) : j # i /\ j \in DOMAIN r
        BY <2>5, <2>2
      <3>2. i \in DOMAIN r
        BY <2>2
      <3>3. QED
        BY <2>2, <2>5, <3>1, <3>2 DEF Injective
    <2>7. QED
      BY <2>4, <2>6
  <1>4. QED
    BY <1>2, <1>3

\* A train in its stop or on its way holds no tile but those of its own way.
LEMMA HoldsOnWay ==
  ASSUME Base, NEW c \in Train, phase[c] \in Served, NEW t \in Tile, Holds(way[t], c)
  PROVE  \E i \in back[c]..Limit(c) : route[c][i] = t
  <1>1. /\ PlacesOK(c) /\ ReachOK(c) /\ HoldingsOK(c) /\ Live(c)
        /\ front[c] \in Nat /\ back[c] \in Nat /\ stop[c] \in Nat /\ granted[c] \in Nat
        /\ Len(route[c]) \in Nat
    BY TrainTypes DEF Base, TrainOK, Served, Live
  <1>2. PICK i \in back[c]..Len(route[c]) : route[c][i] = t /\ (i <= front[c] \/ i <= granted[c])
    BY <1>1 DEF HoldingsOK
  <1>3. i <= Limit(c) /\ Limit(c) \in Nat
    BY <1>1, <1>2 DEF Limit, ReachOK, PlacesOK, Served
  <1>4. QED
    BY <1>1, <1>2, <1>3

\* Nobody loses a tile by what another train does (unreserve of a shared tile,
\* leave_tile, ~rail_vehicle_t, finish_rd).
THEOREM TakenOnlyByItselfAlways == LoadSpec => TakenOnlyByItself
  <1> DEFINE Same(c) == /\ phase[c] \in Served /\ ~lost'[c]
                        /\ phase'[c] = phase[c] /\ front'[c] = front[c] /\ back'[c] = back[c]
                        /\ stop'[c] = stop[c] /\ granted'[c] = granted[c]
             HoldsOn(c) == \A t \in Tile : Holds(way[t], c) => Holds(way'[t], c)
  <1>1. Base /\ [LoadNext]_vars => [\A c \in Train : Same(c) => HoldsOn(c)]_vars
    <2>1. SUFFICES ASSUME Base, LoadNext, NEW c \in Train, Same(c)
                   PROVE  HoldsOn(c)
      OBVIOUS
    <2>2. CASE Next
      <3>1. PICK e \in Train :
               Runs(e) \/ NoRoute(e) \/ Reroute(e) \/ EditSchedule(e) \/ Sell(e)
        BY <2>2 DEF Next
      <3>2. CASE e # c
        <4>1. Keeps(e)
          BY <2>1, <3>1, FrontHopOK, WaitOrRetryOK, PhaseOnlyOK, RearHopOK,
             NoRouteOrEditDoneOK, StartUpOK, FindRouteOK, SellOK DEF Runs
        <4>2. phase[c] # "gone"
          BY <2>1 DEF Served
        <4>3. QED
          BY <3>2, <4>1, <4>2 DEF Keeps, OthersKeep, TilesKept
      <3>3. CASE e = c
        <4>1. Typed /\ front[c] \in Nat /\ back[c] \in Nat
          BY <2>1, TrainTypes, TypeOKIs DEF Base
        <4>2. ~FrontHop(c) /\ ~RearHop(c)
          BY <2>1, <4>1 DEF FrontHop, RearHop, Typed
        <4>3. ~Wait(c) /\ ~Arrive(c) /\ ~Depart(c) /\ ~Reroute(c) /\ ~EditSchedule(c) /\ ~Sell(c)
          BY <2>1, <4>1 DEF Wait, Arrive, Depart, Reroute, EditSchedule, Sell, Typed
        <4>4. ~EditDone(c) /\ ~NoRoute(c) /\ \A r \in Routes[c] : ~FindRoute(c, r)
          BY <2>1 DEF EditDone, NoRoute, FindRoute, Served
        <4>5. Retry(c) \/ StartUp(c)
          BY <3>1, <3>3, <4>2, <4>3, <4>4 DEF Runs
        <4>6. QED
          BY <2>1, <4>5, AsksInVain
      <3>4. QED
        BY <3>2, <3>3
    <2>3. CASE Load
      <3>1. /\ UNCHANGED <<phase[c], route[c], front[c], back[c], stop[c], granted[c]>>
            /\ HoldsWay(c)'
        <4>1. lost'[c] = ~HoldsWay(c)' /\ UNCHANGED <<phase[c], route[c], front[c], back[c]>>
          BY <2>1, <2>3, LoadOK
        <4>2. QED
          BY <2>1, <4>1
      <3>2. Limit(c)' = Limit(c)
        BY <3>1 DEF Limit
      <3>3. ASSUME NEW t \in Tile, Holds(way[t], c)
            PROVE  Holds(way'[t], c)
        <4>1. PICK i \in back[c]..Limit(c) : route[c][i] = t
          BY <2>1, <3>3, HoldsOnWay
        <4>2. QED
          BY <3>1, <3>2, <4>1 DEF HoldsWay
      <3>4. QED
        BY <3>3
    <2>4. QED
      BY <2>1, <2>2, <2>3 DEF LoadNext
  <1>2. [\A c \in Train : Same(c) => HoldsOn(c)]_vars =>
        [\A c \in Train :
          /\ phase[c] \in Served /\ ~lost[c] /\ ~lost'[c]
          /\ phase'[c] = phase[c] /\ front'[c] = front[c] /\ back'[c] = back[c]
          /\ stop'[c] = stop[c] /\ granted'[c] = granted[c]
          => \A t \in Tile : Holds(way[t], c) => Holds(way'[t], c)]_vars
    OBVIOUS
  <1>3. QED
    BY <1>1, <1>2, BaseHolds, PTL DEF LoadSpec, TakenOnlyByItself
=============================================================================
