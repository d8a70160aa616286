------------------------ MODULE ReplicatedWorldProofs ------------------------
(* Agreement of the replicas, for every set of replicas and of things to do. *)
EXTENDS ReplicatedWorld, TLAPS

\* What two worlds have in common, they agree about.
Same(v, w) == \A i \in Nat : 1 <= i /\ i <= Len(v) /\ i <= Len(w) => v[i] = w[i]

LEMMA AgreementIsSame ==
    ASSUME TypeOK
    PROVE  Agreement <=> \A p, q \in Replica :
                             Present(p) /\ Present(q) => Same(world[p], world[q])
<1>1. \A p \in Replica : Present(p) => Len(world[p]) \in Nat
  BY DEF TypeOK, Present
<1> QED
  BY <1>1 DEF Agreement, Same, TypeOK

\* A copy of the beginning of v agrees with whatever v agrees with.
LEMMA CopyIsSame ==
    ASSUME NEW S, NEW v \in Seq(S), NEW w \in Seq(S), NEW n \in 0..Len(v), Same(v, w)
    PROVE  /\ SubSeq(v, 1, n) \in Seq(S)
           /\ Same(SubSeq(v, 1, n), w) /\ Same(w, SubSeq(v, 1, n))
<1>1. SubSeq(v, 1, n) \in Seq(S) /\ Len(SubSeq(v, 1, n)) = n
      /\ \A i \in 1..n : SubSeq(v, 1, n)[i] = v[i]
  OBVIOUS
<1> QED
  BY <1>1 DEF Same

\* A world that grows by what a longer one has in that place still agrees.
LEMMA GrownIsSame ==
    ASSUME NEW S, NEW v \in Seq(S), NEW w \in Seq(S), NEW x \in S, Same(v, w),
           Len(w) > Len(v) => w[Len(v) + 1] = x
    PROVE  Same(Append(v, x), w) /\ Same(w, Append(v, x))
  BY DEF Same

\* The worlds are sequences and the server has one, whatever the replicas do.
THEOREM ReplicasTyped ==
    ASSUME Server \in Replica, Absent \notin Seq(Entry)
    PROVE  Spec => []TypeOK
<1>1. Init => TypeOK
  <2>1. <<>> \in Seq(Entry)
    OBVIOUS
  <2> QED
    BY <2>1 DEF Init, TypeOK, Present
<1>2. TypeOK /\ [Next]_world => TypeOK'
  <2> SUFFICES ASSUME TypeOK, [Next]_world PROVE TypeOK'
    OBVIOUS
  <2>1. ASSUME NEW r \in Replica, Enter(r) PROVE TypeOK'
    <3>1. PICK n \in 0..Len(world[Server]) :
              world' = [world EXCEPT ![r] = SubSeq(world[Server], 1, n)]
      BY <2>1 DEF Enter
    <3>2. SubSeq(world[Server], 1, n) \in Seq(Entry)
      BY DEF TypeOK, Present
    <3>3. r # Server
      BY <2>1 DEF Enter, TypeOK
    <3> QED
      BY <3>1, <3>2, <3>3 DEF TypeOK, Present
  <2>2. ASSUME NEW r \in Replica, Leave(r) PROVE TypeOK'
    BY <2>2 DEF Leave, TypeOK, Present
  <2>3. ASSUME NEW r \in Replica, NEW x \in Entry, Do(r, x) PROVE TypeOK'
    <3>1. Append(world[r], x) \in Seq(Entry)
      BY <2>3 DEF Do, TypeOK, Present
    <3> QED
      BY <2>3, <3>1 DEF Do, TypeOK, Present
  <2>4. ASSUME NEW r \in Replica, Advance(r) PROVE TypeOK'
    <3>1. world'[r][Len(world'[r])] \in Entry
      BY <2>4 DEF Advance
    <3> QED
      BY <2>3, <2>4, <3>1 DEF Advance
  <2>5. CASE UNCHANGED world
    BY <2>5 DEF TypeOK, Present
  <2> QED
    BY <2>1, <2>2, <2>4, <2>5 DEF Next
<1> QED
  BY <1>1, <1>2, PTL DEF Spec

\* Two machines of a network game never did different things in one place.
THEOREM ReplicasAgree ==
    ASSUME Server \in Replica, Absent \notin Seq(Entry)
    PROVE  Spec => []Agreement
<1> DEFINE Agree == \A p, q \in Replica :
                        Present(p) /\ Present(q) => Same(world[p], world[q])
<1>1. Init => Agree
  BY DEF Init, Present, Same
<1>2. TypeOK /\ TypeOK' /\ Agree /\ [Next]_world => Agree'
  <2> SUFFICES ASSUME TypeOK, TypeOK', Agree, [Next]_world PROVE Agree'
    OBVIOUS
  <2>0. \A p \in Replica : Present(p) => world[p] \in Seq(Entry) /\ Same(world[p], world[p])
    BY DEF TypeOK, Present
  <2>1. ASSUME NEW r \in Replica, Enter(r) PROVE Agree'
    <3>1. PICK n \in 0..Len(world[Server]) :
              world' = [world EXCEPT ![r] = SubSeq(world[Server], 1, n)]
      BY <2>1 DEF Enter
    <3>2. world[Server] \in Seq(Entry) /\ Present(Server)
      BY <2>0 DEF TypeOK
    <3>3. /\ world'[r] = SubSeq(world[Server], 1, n)
          /\ \A q \in Replica \ {r} : world'[q] = world[q]
      BY <3>1 DEF TypeOK
    <3>4. ASSUME NEW q \in Replica, Present(q)
          PROVE  Same(world'[r], world[q]) /\ Same(world[q], world'[r])
      BY <2>0, <3>2, <3>3, <3>4, CopyIsSame
    <3>5. Same(world'[r], world'[r])
      BY DEF Same
    <3> QED
      BY <3>3, <3>4, <3>5 DEF Present
  <2>2. ASSUME NEW r \in Replica, Leave(r) PROVE Agree'
    BY <2>2 DEF Leave, TypeOK, Present
  <2>3. ASSUME NEW r \in Replica, NEW x \in Entry, Do(r, x) PROVE Agree'
    <3>1. /\ Present(r) /\ world'[r] = Append(world[r], x)
          /\ \A q \in Replica \ {r} : world'[q] = world[q]
      BY <2>3 DEF Do, TypeOK
    <3>2. ASSUME NEW q \in Replica, Present(q)
          PROVE  Same(world'[r], world[q]) /\ Same(world[q], world'[r])
      <4>1. Len(world[q]) > Len(world[r]) => world[q][Len(world[r]) + 1] = x
        BY <2>3, <3>2 DEF Do
      <4>2. world[q] \in Seq(Entry) /\ world[r] \in Seq(Entry) /\ Same(world[r], world[q])
        BY <2>0, <3>1, <3>2
      <4> QED
        BY <3>1, <4>1, <4>2, GrownIsSame
    <3>3. Same(world'[r], world'[r])
      BY DEF Same
    <3> QED
      BY <3>1, <3>2, <3>3 DEF Present
  <2>4. ASSUME NEW r \in Replica, Advance(r) PROVE Agree'
    <3>1. world'[r][Len(world'[r])] \in Entry
      BY <2>4 DEF Advance
    <3> QED
      BY <2>3, <2>4, <3>1 DEF Advance
  <2>5. CASE UNCHANGED world
    BY <2>5 DEF Present
  <2> QED
    BY <2>1, <2>2, <2>4, <2>5 DEF Next
<1>3. TypeOK /\ Agree => Agreement
  BY AgreementIsSame
<1>4. Spec => []TypeOK
  BY ReplicasTyped
<1> QED
  BY <1>1, <1>2, <1>3, <1>4, PTL DEF Spec

=============================================================================
