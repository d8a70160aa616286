---------------------------- MODULE FreightProofs ----------------------------
(* What Freight keeps, for any stops, convoys, factories, schedules, amounts *)
(* and events: goods are filed where they are bound for, no convoy is        *)
(* overloaded, what a factory counts follows the goods that are under way to *)
(* it, and the connections that goods are routed by are those of the         *)
(* schedules whenever no change is pending.                                  *)
(*                                                                           *)
(* The loops of the code are folds; Folding has what is known of any fold.   *)
EXTENDS Freight, FiniteSetTheorems, TLAPS

SelectStep(S, q, r, s, x) == IF x \in S THEN Append(s, x) ELSE s
Selecting == INSTANCE Folding WITH Step <- SelectStep

------------------------------------------------------------------------------
(* Sequences and sums.                                                      *)

\* Selected keeps elements that are in S.
LEMMA SelectedIn ==
    ASSUME NEW T, NEW seq \in Seq(T), NEW S
    PROVE  Selected(seq, S) \in Seq(T \cap S)
<1>1. Selected(seq, S) = Selecting!Run(S, 0, 0, <<>>, seq)
    BY DEF Selected, SelectStep, Selecting!Run, FoldLeft, MapThenFoldSet, Max,
           Selecting!FoldLeft, Selecting!MapThenFoldSet, Selecting!Max
<1> DEFINE R == Seq(T \cap S)
<1>2. Selecting!Closed(S, 0, 0, R, T)
    BY DEF Selecting!Closed, SelectStep
<1>3. <<>> \in R
    OBVIOUS
<1> HIDE DEF R
<1>4. Selecting!Run(S, 0, 0, <<>>, seq) \in R
    BY <1>2, <1>3, Selecting!FoldIn
<1> QED
    BY <1>1, <1>4 DEF R

\* Sets that are finite here are finite there.
LEMMA FiniteThere ==
    ASSUME NEW S, IsFiniteSet(S)
    PROVE  Selecting!IsFiniteSet(S)
BY DEF IsFiniteSet, Selecting!IsFiniteSet

\* The first n numbers are a finite set.
LEMMA FinitePositions ==
    ASSUME NEW n \in Nat
    PROVE  Selecting!IsFiniteSet(1..n)
<1>1. IsFiniteSet(1..n)
    BY FS_Interval
<1> QED
    BY <1>1, FiniteThere

\* The sums of the library, and those of Folding.
LEMMA SumsAre ==
    ASSUME NEW fun
    PROVE  SumFunction(fun) = Selecting!Sum(fun, DOMAIN fun)
BY DEF SumFunction, SumFunctionOnSet, FoldFunctionOnSet, MapThenFoldSet,
       Selecting!Sum, Selecting!SumFunctionOnSet, Selecting!FoldFunctionOnSet,
       Selecting!MapThenFoldSet

Amount(load) == [i \in DOMAIN load |-> load[i].amount]

\* A total is a sum of natural numbers.
LEMMA TotalIs ==
    ASSUME NEW load \in Seq(Goods)
    PROVE  /\ Total(load) = Selecting!Sum(Amount(load), 1..Len(load))
           /\ \A i \in 1..Len(load) : Amount(load)[i] = load[i].amount /\ load[i].amount \in Nat
           /\ Total(load) \in Nat
<1> DEFINE S == 1..Len(load)
           fun == Amount(load)
<1>0. Len(load) \in Nat /\ DOMAIN load = 1..Len(load) /\ \A i \in S : load[i] \in Goods
    OBVIOUS
<1>1. \A i \in S : fun[i] = load[i].amount /\ load[i].amount \in Nat
    BY <1>0 DEF Amount, Goods
<1>2. DOMAIN fun = S /\ Selecting!IsFiniteSet(S)
    BY <1>0, FinitePositions DEF Amount
<1>3. Total(load) = SumFunction(fun)
    BY DEF Total, Amount
<1> HIDE DEF S, fun
<1>4. Total(load) = Selecting!Sum(fun, S)
    BY <1>2, <1>3, SumsAre
<1>5. \A i \in S : fun[i] \in Nat
    BY <1>1
<1>6. Selecting!Sum(fun, S) \in Nat
    BY <1>2, <1>5, Selecting!SumNat
<1> QED
    BY <1>1, <1>4, <1>6 DEF S, fun

\* What is loaded on top counts with the rest, at either end.
LEMMA TotalAppend ==
    ASSUME NEW load \in Seq(Goods), NEW g \in Goods
    PROVE  Total(Append(load, g)) = Total(load) + g.amount
<1> DEFINE N == Len(load)
           more == Append(load, g)
<1>1. /\ more \in Seq(Goods) /\ Len(more) = N + 1 /\ N \in Nat /\ more[N + 1] = g
      /\ \A i \in 1..N : more[i] = load[i]
    OBVIOUS
<1> HIDE DEF more, N
<1>2. /\ Selecting!IsFiniteSet(1..(N + 1)) /\ Selecting!IsFiniteSet(1..N)
      /\ N + 1 \in 1..(N + 1) /\ (1..(N + 1)) \ {N + 1} = 1..N
    BY FinitePositions, <1>1
<1>3. /\ Total(more) = Selecting!Sum(Amount(more), 1..(N + 1))
      /\ \A i \in 1..(N + 1) : Amount(more)[i] = more[i].amount /\ Amount(more)[i] \in Int
    BY <1>1, TotalIs
<1>4. /\ Total(load) = Selecting!Sum(Amount(load), 1..N)
      /\ \A i \in 1..N : Amount(load)[i] = load[i].amount
      /\ Total(load) \in Int
    BY TotalIs DEF N
<1>5. Total(more) = Amount(more)[N + 1] + Selecting!Sum(Amount(more), 1..N)
    <2> DEFINE S == 1..(N + 1)
               fun == Amount(more)
    <2>1. Selecting!IsFiniteSet(S) /\ N + 1 \in S /\ \A i \in S : fun[i] \in Int
        BY <1>2, <1>3
    <2> HIDE DEF S, fun
    <2>2. Selecting!Sum(fun, S) = fun[N + 1] + Selecting!Sum(fun, S \ {N + 1})
        BY <2>1, Selecting!SumRemove
    <2> QED
        BY <1>2, <1>3, <2>2 DEF S, fun
<1>6. \A i \in 1..N : i \in 1..(N + 1)
    BY <1>1
<1>7. Selecting!Sum(Amount(more), 1..N) = Selecting!Sum(Amount(load), 1..N)
    <2>1. \A i \in 1..N : Amount(more)[i] = Amount(load)[i] /\ Amount(more)[i] \in Int
        BY <1>1, <1>3, <1>4, <1>6
    <2> DEFINE S == 1..N
               fun == Amount(more)
               gun == Amount(load)
    <2>2. Selecting!IsFiniteSet(S) /\ \A i \in S : fun[i] = gun[i] /\ fun[i] \in Int
        BY <1>2, <2>1
    <2> HIDE DEF S, fun, gun
    <2>3. Selecting!Sum(fun, S) = Selecting!Sum(gun, S)
        BY <2>2, Selecting!SumSame
    <2> QED
        BY <2>3 DEF S, fun, gun
<1>8. g.amount \in Int /\ Amount(more)[N + 1] = g.amount
    BY <1>1, <1>2, <1>3
<1> QED
    BY <1>4, <1>5, <1>7, <1>8 DEF more

\* The sum of the first n amounts.
LEMMA TotalPrefix ==
    ASSUME NEW load \in Seq(Goods), NEW n \in 1..Len(load)
    PROVE  /\ Selecting!Sum(Amount(load), 1..n)
              = load[n].amount + Selecting!Sum(Amount(load), 1..(n - 1))
           /\ Selecting!Sum(Amount(load), 1..(n - 1)) \in Nat
<1> DEFINE S == 1..n
           R == 1..(n - 1)
           fun == Amount(load)
<1>1. n \in Nat /\ n - 1 \in Nat /\ S \ {n} = R /\ n \in S
    OBVIOUS
<1>2. Selecting!IsFiniteSet(S) /\ Selecting!IsFiniteSet(R)
    BY <1>1, FinitePositions
<1>3. /\ \A i \in S : fun[i] = load[i].amount /\ fun[i] \in Nat
      /\ \A i \in R : fun[i] \in Nat
    BY TotalIs
<1>4. \A i \in S : fun[i] \in Int
    BY <1>3
<1> HIDE DEF S, R, fun
<1>5. Selecting!Sum(fun, S) = fun[n] + Selecting!Sum(fun, S \ {n})
    BY <1>1, <1>2, <1>4, Selecting!SumRemove
<1>6. Selecting!Sum(fun, R) \in Nat
    BY <1>2, <1>3, Selecting!SumNat
<1> QED
    BY <1>1, <1>3, <1>5, <1>6 DEF S, R, fun

\* The sum of no amounts.
LEMMA TotalNone ==
    ASSUME NEW load \in Seq(Goods)
    PROVE  Selecting!Sum(Amount(load), {}) = 0
<1> DEFINE S == 1..Len(load)
           fun == Amount(load)
<1>1. Selecting!IsFiniteSet(S) /\ \A i \in S : fun[i] \in Int
    BY FinitePositions, TotalIs
<1> HIDE DEF S, fun
<1>2. Selecting!Sum(fun, {}) = 0
    BY <1>1, Selecting!SumInt
<1> QED
    BY <1>2 DEF fun

\* An empty vehicle carries nothing.
LEMMA TotalEmpty == Total(<<>>) = 0
<1>1. <<>> \in Seq(Goods) /\ 1..Len(<<>>) = {}
    OBVIOUS
<1> QED
    BY <1>1, TotalIs, TotalNone

\* What is joined with goods counts with them.
LEMMA TotalJoined ==
    ASSUME NEW load \in Seq(Goods), NEW j \in DOMAIN load, NEW n \in Nat
    PROVE  /\ [load EXCEPT ![j].amount = @ + n] \in Seq(Goods)
           /\ Total([load EXCEPT ![j].amount = @ + n]) = Total(load) + n
<1> DEFINE more == [load EXCEPT ![j].amount = @ + n]
           N == Len(load)
           S == 1..N
<1>1. N \in Nat /\ DOMAIN load = S /\ \A i \in S : load[i] \in Goods
    OBVIOUS
<1>2. /\ more = [i \in S |-> more[i]]
      /\ \A i \in S : more[i] = IF i = j THEN [load[i] EXCEPT !.amount = @ + n] ELSE load[i]
    BY <1>1
<1> HIDE DEF more
<1>3. \A i \in S : more[i] \in Goods /\ more[i].amount = load[i].amount + (IF i = j THEN n ELSE 0)
    <2>1. ASSUME NEW g \in Goods
          PROVE  /\ [g EXCEPT !.amount = @ + n] \in Goods
                 /\ [g EXCEPT !.amount = @ + n].amount = g.amount + n
                 /\ g.amount + 0 = g.amount
        BY DEF Goods
    <2>2. ASSUME NEW i \in S
          PROVE  more[i] \in Goods /\ more[i].amount = load[i].amount + (IF i = j THEN n ELSE 0)
        <3>1. CASE i = j
            BY <1>1, <1>2, <2>1, <3>1
        <3>2. CASE i # j
            BY <1>1, <1>2, <2>1, <3>2
        <3> QED
            BY <3>1, <3>2
    <2> QED
        BY <2>2
<1>4. more \in Seq(Goods) /\ Len(more) = N
    <2>1. more \in [1..N -> Goods]
        BY <1>2, <1>3
    <2> QED
        BY <1>1, <2>1
<1> DEFINE fun == Amount(load)
           gun == Amount(more)
           R == S \ {j}
<1>5. Selecting!IsFiniteSet(S) /\ Selecting!IsFiniteSet(R) /\ j \in S
    <2>1. IsFiniteSet(S)
        BY <1>1, FS_Interval
    <2>2. IsFiniteSet(R)
        BY <2>1, FS_RemoveElement
    <2> QED
        BY <1>1, <2>1, <2>2, FiniteThere
<1>6. /\ Total(load) = Selecting!Sum(fun, S) /\ Total(more) = Selecting!Sum(gun, S)
      /\ Total(load) \in Nat /\ Total(more) \in Nat
    BY <1>4, TotalIs
<1>7. /\ \A i \in S : fun[i] = load[i].amount /\ fun[i] \in Int
      /\ \A i \in S : gun[i] = more[i].amount /\ gun[i] \in Int
    BY <1>4, TotalIs
<1>8. \A i \in R : fun[i] = gun[i] /\ fun[i] \in Int
    BY <1>1, <1>3, <1>7
<1>9. gun[j] = fun[j] + n /\ fun[j] \in Int
    BY <1>1, <1>3, <1>5, <1>7
<1> HIDE DEF S, R, fun, gun
<1>10. Selecting!Sum(fun, S) = fun[j] + Selecting!Sum(fun, S \ {j})
    BY <1>5, <1>7, Selecting!SumRemove
<1>11. Selecting!Sum(gun, S) = gun[j] + Selecting!Sum(gun, S \ {j})
    BY <1>5, <1>7, Selecting!SumRemove
<1>12. Selecting!Sum(fun, R) = Selecting!Sum(gun, R)
    BY <1>5, <1>8, Selecting!SumSame
<1>13. Selecting!Sum(fun, R) \in Int
    BY <1>5, <1>8, Selecting!SumInt
<1>14. Total(more) = (fun[j] + n) + Selecting!Sum(fun, R) /\ Total(load) = fun[j] + Selecting!Sum(fun, R)
    BY <1>6, <1>9, <1>10, <1>11, <1>12 DEF R
<1>15. Total(more) = Total(load) + n
    BY <1>9, <1>13, <1>14
<1> QED
    BY <1>4, <1>15 DEF more

\* Only the amounts count.
LEMMA TotalSame ==
    ASSUME NEW load \in Seq(Goods), NEW other \in Seq(Goods), Len(other) = Len(load),
           \A i \in 1..Len(load) : other[i].amount = load[i].amount
    PROVE  Total(other) = Total(load)
<1> DEFINE S == 1..Len(load)
           fun == Amount(load)
           gun == Amount(other)
<1>1. Selecting!IsFiniteSet(S)
    BY FinitePositions
<1>2. \A i \in S : fun[i] = gun[i] /\ fun[i] \in Int
    BY TotalIs
<1>3. Total(load) = Selecting!Sum(fun, S) /\ Total(other) = Selecting!Sum(gun, S)
    BY TotalIs
<1> HIDE DEF S, fun, gun
<1>4. Selecting!Sum(fun, S) = Selecting!Sum(gun, S)
    BY <1>1, <1>2, Selecting!SumSame
<1> QED
    BY <1>3, <1>4

\* Goods put before the others count with them.
LEMMA TotalInserted ==
    ASSUME NEW load \in Seq(Goods), NEW g \in Goods
    PROVE  /\ <<g>> \o load \in Seq(Goods)
           /\ Total(<<g>> \o load) = g.amount + Total(load)
<1> DEFINE more == <<g>> \o load
           N == Len(load)
           fun == Amount(load)
           gun == Amount(more)
           K == {n \in Nat : n <= N => Selecting!Sum(gun, 1..(n + 1)) = g.amount + Selecting!Sum(fun, 1..n)}
<1>1. /\ more \in Seq(Goods) /\ Len(more) = N + 1 /\ N \in Nat
      /\ more[1] = g /\ \A i \in 1..N : more[i + 1] = load[i]
    OBVIOUS
<1>2. g.amount \in Nat
    BY DEF Goods
<1> HIDE DEF more
<1>3. /\ \A i \in 1..N : fun[i] = load[i].amount /\ load[i].amount \in Nat
      /\ \A i \in 1..(N + 1) : gun[i] = more[i].amount
      /\ Total(load) = Selecting!Sum(fun, 1..N) /\ Total(more) = Selecting!Sum(gun, 1..(N + 1))
    BY <1>1, TotalIs
<1>4. Selecting!Sum(fun, {}) = 0 /\ Selecting!Sum(gun, {}) = 0
    BY <1>1, TotalNone
<1>5. \A n \in 1..N : /\ Selecting!Sum(fun, 1..n) = load[n].amount + Selecting!Sum(fun, 1..(n - 1))
                      /\ Selecting!Sum(fun, 1..(n - 1)) \in Nat
    BY TotalPrefix
<1>6. \A n \in 1..(N + 1) : Selecting!Sum(gun, 1..n) = more[n].amount + Selecting!Sum(gun, 1..(n - 1))
    BY <1>1, TotalPrefix
<1> HIDE DEF N, fun, gun
<1>7. 0 \in K
    <2>1. 1..0 = {} /\ 1 \in 1..(N + 1) /\ 1 - 1 = 0 /\ 0 + 1 = 1
        BY <1>1
    <2>2. Selecting!Sum(gun, 1..1) = more[1].amount + Selecting!Sum(gun, 1..0)
        BY <1>6, <2>1
    <2> QED
        BY <1>1, <1>2, <1>4, <2>1, <2>2
<1>8. ASSUME NEW n \in Nat, n \in K PROVE n + 1 \in K
    <2> SUFFICES ASSUME n + 1 <= N
                 PROVE  Selecting!Sum(gun, 1..((n + 1) + 1)) = g.amount + Selecting!Sum(fun, 1..(n + 1))
        OBVIOUS
    <2>1. /\ n + 1 \in 1..N /\ (n + 1) - 1 = n
          /\ (n + 1) + 1 \in 1..(N + 1) /\ ((n + 1) + 1) - 1 = n + 1
        BY <1>1
    <2>2. Selecting!Sum(gun, 1..(n + 1)) = g.amount + Selecting!Sum(fun, 1..n)
        BY <1>1, <1>8, <2>1
    <2>3. /\ Selecting!Sum(fun, 1..(n + 1)) = load[n + 1].amount + Selecting!Sum(fun, 1..n)
          /\ Selecting!Sum(fun, 1..n) \in Nat
        BY <1>5, <2>1
    <2>4. Selecting!Sum(gun, 1..((n + 1) + 1)) = more[(n + 1) + 1].amount + Selecting!Sum(gun, 1..(n + 1))
        BY <1>6, <2>1
    <2>5. more[(n + 1) + 1] = load[n + 1] /\ load[n + 1].amount \in Nat
        BY <1>1, <1>3, <2>1
    <2> QED
        BY <1>2, <2>2, <2>3, <2>4, <2>5
<1> HIDE DEF K
<1>9. Nat \subseteq K
    BY <1>7, <1>8, Selecting!Induction
<1>10. Selecting!Sum(gun, 1..(N + 1)) = g.amount + Selecting!Sum(fun, 1..N)
    BY <1>1, <1>9 DEF K
<1> QED
    BY <1>1, <1>3, <1>10 DEF more

HopStep(L, h, r, s, n) == s \cup (((UNION {L[x] : x \in s}) \cap Alive) \ {h})
Hopping == INSTANCE Folding WITH Step <- HopStep

------------------------------------------------------------------------------
(* Stops, and what is found of routes.                                      *)

OnMap == haltAt \in [Place -> Target]

\* The stops of places are stops.
LEMMA HaltsIn ==
    ASSUME OnMap
    PROVE  /\ Alive \subseteq Halt
           /\ \A P \in SUBSET Place : HaltsAt(P) \subseteq Halt
BY DEF OnMap, Alive, HaltsAt, Target

\* The stops that reach a factory are stops.
LEMMA FinishIn ==
    ASSUME OnMap, NEW f \in Factory
    PROVE  HaltsAt(Covers[f]) \subseteq Halt
BY HaltsIn, FreightAssumption

\* A search comes to stops only.
LEMMA ReachedIn ==
    ASSUME OnMap, NEW L, NEW S \in SUBSET Halt, NEW h
    PROVE  Reached(L, S, h) \in SUBSET Halt
<1> DEFINE N == Cardinality(Halt)
           Hops(g) == [n \in 0..N |-> IF n = 0 THEN S
                          ELSE g[n - 1] \cup (((UNION {L[x] : x \in g[n - 1]}) \cap Alive) \ {h})]
           hops == CHOOSE g : g = Hops(g)
           seq == [n \in 1..N |-> n]
           R == SUBSET Halt
<1>1. N \in Nat
    BY FreightAssumption, FS_CardinalityType
<1>2. Reached(L, S, h) = hops[N]
    BY DEF Reached
<1>3. Hopping!Closed(L, h, 0, R, Nat)
    BY HaltsIn DEF Hopping!Closed, HopStep
<1>4. seq \in [1..N -> Nat] /\ S \in R
    OBVIOUS
<1>5. PICK g \in [0..N -> R] : Hopping!Steps(g, L, h, 0, S, seq, N)
    <2> HIDE DEF N, seq, R
    <2> QED
        BY <1>1, <1>3, <1>4, Hopping!FoldSteps
<1>6. g[0] = S /\ \A n \in 1..N : g[n] = HopStep(L, h, 0, g[n - 1], n)
    <2> HIDE DEF N
    <2> QED
        BY <1>5 DEF Hopping!Steps
<1>7. g = Hops(g)
    <2> HIDE DEF N
    <2>1. \A n \in 0..N : n = 0 \/ n \in 1..N
        BY <1>1
    <2>2. g = [n \in 0..N |-> g[n]]
        BY <1>5
    <2>3. ASSUME NEW n \in 0..N PROVE g[n] = Hops(g)[n]
        <3>1. CASE n = 0
            BY <1>6, <3>1
        <3>2. CASE n \in 1..N
            BY <1>6, <3>2 DEF HopStep
        <3> QED
            BY <2>1, <3>1, <3>2
    <2> QED
        BY <2>2, <2>3
<1>8. hops = Hops(hops)
    BY <1>7
<1> HIDE DEF hops
<1> DEFINE K == {n \in Nat : n <= N => hops[n] \in R}
<1>9. 0 \in K
    <2> HIDE DEF N
    <2> QED
        BY <1>1, <1>8
<1>10. ASSUME NEW n \in Nat, n \in K PROVE n + 1 \in K
    <2> HIDE DEF N
    <2>1. CASE n + 1 <= N
        <3>1. n + 1 \in 0..N /\ n + 1 # 0 /\ (n + 1) - 1 = n /\ hops[n] \in R
            BY <1>1, <1>10, <2>1
        <3>2. hops[n + 1] = hops[n] \cup (((UNION {L[x] : x \in hops[n]}) \cap Alive) \ {h})
            BY <1>8, <3>1
        <3>3. hops[n + 1] \in R
            BY <3>1, <3>2, HaltsIn
        <3> QED
            BY <3>3
    <2> QED
        BY <2>1
<1> HIDE DEF K
<1>11. Nat \subseteq K
    BY <1>9, <1>10, Hopping!Induction
<1> HIDE DEF N
<1> QED
    BY <1>1, <1>2, <1>11 DEF K

Searches == [origin : Target, known : [Halt -> Target]]

\* An exploration gives a first hop or none for each stop.
LEMMA ExplorationIn ==
    ASSUME OnMap, NEW h, NEW e \in Explorations(h)
    PROVE  e \in [Halt -> Target]
<1> DEFINE hops == [d \in Halt |-> IF d \in Alive THEN FirstHops(h, d) ELSE {}]
           V == (UNION {hops[d] : d \in Halt}) \cup {NoHalt}
<1>1. \A d : FirstHops(h, d) \subseteq Halt
    BY HaltsIn DEF FirstHops
<1>2. V \subseteq Target
    BY <1>1 DEF Target
<1>3. e \in [Halt -> V]
    BY DEF Explorations
<1> HIDE DEF V
<1> QED
    BY <1>2, <1>3

\* After a reset nothing is known.
LEMMA NoSearchIn == NoSearch \in Searches /\ NoHalt \in Target /\ Halt \subseteq Target
BY DEF NoSearch, Searches, Nothing, Target

\* A route changes nothing else.
LEMMA RoutedGoods ==
    ASSUME NEW g \in Goods, NEW d \in Target, NEW n \in Target
    PROVE  /\ Routed(g, d, n) \in Goods
           /\ Routed(g, d, n).amount = g.amount /\ Routed(g, d, n).factory = g.factory
           /\ Routed(g, d, n).ziel = d /\ Routed(g, d, n).via = n
BY DEF Routed, Goods

\* What a search gives.
Answer(s, h, g, e) ==
    LET r == SearchRouteResumable(s, h, g, e)
    IN  /\ r.search \in Searches /\ r.goods \in Goods
        /\ r.goods.amount = g.amount /\ r.goods.factory = g.factory

\* A search changes the route of goods and nothing else of them.
LEMMA SearchAnswers ==
    ASSUME OnMap, NEW s \in Searches, NEW h \in Halt, NEW g \in Goods, NEW e \in [Halt -> Target]
    PROVE  Answer(s, h, g, e)
<1> DEFINE ends == HaltsAt(Covers[g.factory])
           resumed == s.origin = h
           known == IF resumed THEN s.known ELSE Nothing
           To(k, D) == IF D = {} THEN Routed(g, NoHalt, NoHalt)
                       ELSE LET d == CHOOSE x \in D : TRUE IN Routed(g, d, k[d])
           Found(k, r) == [search |-> [origin |-> h, known |-> k], goods |-> r]
           Marked(k) == {d \in ends : k[d] # NoHalt}
           Fits(a) == /\ a.search \in Searches /\ a.goods \in Goods
                      /\ a.goods.amount = g.amount /\ a.goods.factory = g.factory
<1>1. ends \subseteq Halt
    <2>1. g.factory \in Factory
        BY DEF Goods
    <2> QED
        BY <2>1, FinishIn
<1>2. known \in [Halt -> Target]
    BY DEF Searches, Nothing, Target
<1>3. ASSUME NEW k \in [Halt -> Target], NEW D \in SUBSET ends PROVE Fits(Found(k, To(k, D)))
    <2>1. [origin |-> h, known |-> k] \in Searches
        BY DEF Searches, Target
    <2>2. /\ To(k, D) \in Goods
          /\ To(k, D).amount = g.amount /\ To(k, D).factory = g.factory
        <3>1. CASE D = {}
            BY <3>1, RoutedGoods, NoSearchIn
        <3>2. CASE D # {}
            <4> DEFINE d == CHOOSE x \in D : TRUE
            <4>1. d \in D
                BY <3>2
            <4>2. To(k, D) = Routed(g, d, k[d])
                BY <3>2
            <4> HIDE DEF d
            <4>3. d \in Target /\ k[d] \in Target
                BY <1>1, <4>1 DEF Target
            <4> HIDE DEF To
            <4> DEFINE v == k[d]
            <4> HIDE DEF v
            <4>5. v \in Target
                BY <4>3 DEF v
            <4>6. Routed(g, d, v) \in Goods
                BY <4>3, <4>5, RoutedGoods
            <4>7. Routed(g, d, v).amount = g.amount /\ Routed(g, d, v).factory = g.factory
                BY <4>3, <4>5, RoutedGoods
            <4>4. /\ Routed(g, d, k[d]) \in Goods
                  /\ Routed(g, d, k[d]).amount = g.amount /\ Routed(g, d, k[d]).factory = g.factory
                BY <4>6, <4>7 DEF v
            <4> QED
                BY ONLY <4>2, <4>4
        <3> QED
            BY <3>1, <3>2
    <2> HIDE DEF To
    <2> QED
        BY <2>1, <2>2
<1>4. Fits(Found(known, Routed(g, h, NoHalt)))
    <2> HIDE DEF known
    <2>1. [origin |-> h, known |-> known] \in Searches
        BY <1>2 DEF Searches, Target
    <2>2. /\ Routed(g, h, NoHalt) \in Goods
          /\ Routed(g, h, NoHalt).amount = g.amount /\ Routed(g, h, NoHalt).factory = g.factory
        BY RoutedGoods, NoSearchIn
    <2> QED
        BY <2>1, <2>2
<1>5. \A k : Marked(k) \subseteq ends
    OBVIOUS
<1>6. {d \in Marked(e) : SameComponent(h, d)} \subseteq ends
    OBVIOUS
<1>7. \/ SearchRouteResumable(s, h, g, e) = Found(known, Routed(g, h, NoHalt))
      \/ SearchRouteResumable(s, h, g, e) = Found(known, To(known, Marked(known)))
      \/ SearchRouteResumable(s, h, g, e) = Found(e, To(e, {d \in Marked(e) : SameComponent(h, d)}))
    BY DEF SearchRouteResumable
<1> HIDE DEF ends, known, To, Found, Marked
<1>8. Fits(Found(known, To(known, Marked(known))))
    BY <1>2, <1>3, <1>5
<1>9. Fits(Found(e, To(e, {d \in Marked(e) : SameComponent(h, d)})))
    BY <1>3, <1>6
<1>10. Fits(SearchRouteResumable(s, h, g, e))
    BY <1>4, <1>7, <1>8, <1>9
<1> QED
    BY <1>10 DEF Answer

------------------------------------------------------------------------------
(* The queue of a stop.                                                     *)

\* What is filed is filed under its own stops.
Filed == {Indexed(g) : g \in Goods}

\* Filed goods are goods with the stops they are bound for.
LEMMA FiledIs ==
    /\ Filed \subseteq Cargo
    /\ \A x \in Filed : x.goods \in Goods /\ x = Indexed(x.goods)
    /\ \A g \in Goods : Indexed(g) \in Filed /\ Indexed(g).goods = g
BY DEF Filed, Indexed, Cargo, Goods

\* An amount says nothing of where goods are filed.
LEMMA FiledAmount ==
    ASSUME NEW x \in Filed, NEW n \in Nat
    PROVE  /\ [x EXCEPT !.goods.amount = n] \in Filed
           /\ [x EXCEPT !.goods.amount = n].goods = [x.goods EXCEPT !.amount = n]
           /\ [x.goods EXCEPT !.amount = n] \in Goods
<1>1. PICK g \in Goods : x = [goods |-> g, at |-> [ziel |-> g.ziel, via |-> g.via]]
    BY DEF Filed, Indexed
<1> DEFINE k == [g EXCEPT !.amount = n]
<1>2. k \in Goods /\ k.ziel = g.ziel /\ k.via = g.via
    BY DEF Goods
<1>3. [x EXCEPT !.goods.amount = n] = [goods |-> k, at |-> [ziel |-> g.ziel, via |-> g.via]]
    BY <1>1
<1> HIDE DEF k
<1>4. [x EXCEPT !.goods.amount = n] = Indexed(k)
    BY <1>2, <1>3 DEF Indexed
<1>5. x.goods = g
    BY <1>1
<1> QED
    BY <1>2, <1>4, <1>5, FiledIs DEF k

\* The first of some positions.
LEMMA JoinableFirst ==
    ASSUME NEW T, NEW queue \in Seq(T), NEW S \in SUBSET (DOMAIN queue), S # {}
    PROVE  First(S) \in S /\ \A j \in S : First(S) <= j
<1>1. S \in SUBSET Nat
    OBVIOUS
<1>2. \E i \in S : \A j \in S : i <= j
    BY <1>1, Selecting!LeastOne
<1> QED
    BY <1>2 DEF First

\* vereinige_waren leaves the goods filed under their own stops.
LEMMA Joined ==
    ASSUME NEW h, NEW queue \in Seq(Filed), NEW g \in Goods, Joinable(queue, g) # {}
    PROVE  VereinigeWaren(h, queue, g) \in Seq(Filed)
<1> DEFINE i == First(Joinable(queue, g))
           there == queue[i].goods
           newer == g.via \in Alive /\ g.via # h
           more == [there EXCEPT !.amount = @ + g.amount,
                                 !.via = IF newer THEN g.via ELSE @]
           new == IF newer THEN Indexed(more) ELSE [queue[i] EXCEPT !.goods = more]
<1>1. i \in DOMAIN queue /\ queue[i] \in Filed
    <2>1. Joinable(queue, g) \subseteq DOMAIN queue
        BY DEF Joinable
    <2>2. i \in DOMAIN queue
        BY <2>1, JoinableFirst
    <2> HIDE DEF i
    <2> QED
        BY <2>2
<1>2. VereinigeWaren(h, queue, g) = [queue EXCEPT ![i] = new]
    BY DEF VereinigeWaren
<1> HIDE DEF i
<1>3. there \in Goods /\ queue[i] = Indexed(there)
    BY <1>1, FiledIs
<1>4. more \in Goods /\ (~newer => more.ziel = there.ziel /\ more.via = there.via)
    <2> HIDE DEF there, newer
    <2> DEFINE via == IF newer THEN g.via ELSE there.via
    <2>1. via \in Target /\ there.amount + g.amount \in Nat /\ (~newer => via = there.via)
        BY <1>3 DEF Goods
    <2>2. more = [there EXCEPT !.amount = there.amount + g.amount, !.via = via]
        OBVIOUS
    <2> HIDE DEF via, more
    <2>3. \A n \in Nat, v \in Target :
              LET m == [there EXCEPT !.amount = n, !.via = v]
              IN  m \in Goods /\ m.ziel = there.ziel /\ m.via = v
        BY <1>3 DEF Goods
    <2> QED
        BY <2>1, <2>2, <2>3
<1>5. ~newer => new = Indexed(more)
    <2>1. queue[i] = [goods |-> there, at |-> [ziel |-> there.ziel, via |-> there.via]]
        BY <1>3 DEF Indexed
    <2> HIDE DEF more, there, newer
    <2>2. [queue[i] EXCEPT !.goods = more] = [goods |-> more, at |-> [ziel |-> there.ziel, via |-> there.via]]
        BY <2>1
    <2> QED
        BY <1>4, <2>2 DEF Indexed
<1> HIDE DEF more
<1>6. new \in Filed
    BY <1>4, <1>5, FiledIs
<1> HIDE DEF new
<1> QED
    BY <1>1, <1>2, <1>6

\* So does add_ware_to_halt.
LEMMA QueuedIn ==
    ASSUME NEW h, NEW queue \in Seq(Filed), NEW g \in Goods
    PROVE  Queued(h, queue, g) \in Seq(Filed)
<1>1. Append(queue, Indexed(g)) \in Seq(Filed)
    BY FiledIs
<1> QED
    BY <1>1, Joined DEF Queued

RouteStep(h, e, r, s, cargo) ==
    LET t == SearchRouteResumable(s.search, h, cargo.goods, e)
    IN  IF cargo.at.via \in Alive THEN [s EXCEPT !.queue = Append(@, cargo)]
        ELSE [s EXCEPT !.search = t.search,
                       !.queue = IF t.goods.ziel \in Alive
                                 THEN Append(@, Indexed(t.goods)) ELSE @]
Routing == INSTANCE Folding WITH Step <- RouteStep

ReroutedStep(h, e, r, s, cargo) ==
    LET t == SearchRouteResumable(s.search, h, cargo.goods, e)
    IN  IF t.goods.ziel = NoHalt
          THEN [s EXCEPT !.search = t.search,
                         !.transit = Told(@, cargo.goods.factory, -cargo.goods.amount)]
        ELSE [s EXCEPT !.search = t.search, !.queue = Append(@, Indexed(t.goods))]
Rerouting == INSTANCE Folding WITH Step <- ReroutedStep

------------------------------------------------------------------------------
(* What a stop works on.                                                    *)

Counters == [Factory -> Int]
Sides == [queue : Seq(Filed), search : Searches, transit : Counters]

\* A side takes a queue, an answer or a count.
WithQueue(side, queue) == [side EXCEPT !.queue = queue]
WithSearch(side, s) == [side EXCEPT !.search = s]
WithTransit(side, n) == [side EXCEPT !.transit = n]

\* A side stays one with another queue,
LEMMA SideQueue ==
    ASSUME NEW side \in Sides, NEW queue \in Seq(Filed)
    PROVE  WithQueue(side, queue) \in Sides
BY DEF Sides, WithQueue

\* with another search,
LEMMA SideSearch ==
    ASSUME NEW side \in Sides, NEW s \in Searches
    PROVE  WithSearch(side, s) \in Sides
BY DEF Sides, WithSearch

\* and with other counters.
LEMMA SideTransit ==
    ASSUME NEW side \in Sides, NEW n \in Counters
    PROVE  WithTransit(side, n) \in Sides
BY DEF Sides, WithTransit

\* The parts of a side.
LEMMA SideParts ==
    ASSUME NEW side \in Sides
    PROVE  side.queue \in Seq(Filed) /\ side.search \in Searches /\ side.transit \in Counters
BY DEF Sides

\* A counter that is told of goods stays a number.
LEMMA ToldIn ==
    ASSUME NEW counter \in Counters, NEW f, NEW n \in Int
    PROVE  Told(counter, f, n) \in Counters
<1>1. CASE f \in Factory
    <2>1. counter[f] + n \in Int
        BY <1>1 DEF Counters
    <2> QED
        BY <1>1, <2>1 DEF Told, Counters
<1>2. CASE f \notin Factory
    <2>1. [counter EXCEPT ![f] = @ + n] = counter
        BY <1>2 DEF Counters
    <2> QED
        BY <2>1 DEF Told
<1> QED
    BY <1>1, <1>2

\* An amount, and its opposite.
LEMMA LessAmount ==
    ASSUME NEW g \in Goods
    PROVE  g.amount \in Nat /\ g.amount \in Int /\ -g.amount \in Int
BY DEF Goods

\* The goods of one factory are a natural number of them.
LEMMA SumOfIn ==
    ASSUME NEW load \in Seq(Goods), NEW f
    PROVE  SumOf(load, f) \in Nat
<1> DEFINE S == 1..Len(load)
           fun == [i \in DOMAIN load |-> IF load[i].factory = f THEN load[i].amount ELSE 0]
<1>1. DOMAIN fun = S /\ Selecting!IsFiniteSet(S)
    BY FinitePositions
<1>2. \A i \in S : fun[i] \in Nat
    BY TotalIs
<1>3. SumOf(load, f) = SumFunction(fun)
    BY DEF SumOf
<1> HIDE DEF S, fun
<1> QED
    BY <1>1, <1>2, <1>3, SumsAre, Selecting!SumNat

\* Counters that are told of all the goods of a vehicle or stop stay numbers.
LEMMA ToldAllIn ==
    ASSUME NEW counter \in Counters, NEW load \in Seq(Goods)
    PROVE  ToldAll(counter, load) \in Counters
BY SumOfIn DEF ToldAll, Counters

\* What waits at a stop is goods.
LEMMA GoodsOfIn ==
    ASSUME NEW queue \in Seq(Filed)
    PROVE  GoodsOf(queue) \in Seq(Goods)
<1>1. \A i \in 1..Len(queue) : queue[i].goods \in Goods
    BY FiledIs
<1> QED
    BY <1>1 DEF GoodsOf

\* starte_mit_route keeps goods and index together.
LEMMA StarteIn ==
    ASSUME NEW side \in Sides, NEW h, NEW g \in Goods
    PROVE  StarteMitRoute(side, h, g) \in Sides
<1>1. Told(side.transit, g.factory, -g.amount) \in Counters
    BY SideParts, ToldIn, LessAmount
<1>2. Queued(h, side.queue, g) \in Seq(Filed)
    BY SideParts, QueuedIn
<1> QED
    BY <1>1, <1>2, SideQueue, SideTransit DEF StarteMitRoute, WithQueue, WithTransit

\* So does liefere_an,
LEMMA LiefereIn ==
    ASSUME OnMap, NEW side \in Sides, NEW h \in Halt, NEW g \in Goods, NEW e \in [Halt -> Target]
    PROVE  LiefereAn(side, h, g, e) \in Sides
<1> DEFINE t == SearchRouteResumable(side.search, h, g, e)
           told == Told(side.transit, g.factory, -g.amount)
           joined == VereinigeWaren(h, side.queue, g)
           queue == IF t.goods.ziel # g.ziel THEN Queued(h, side.queue, t.goods)
                    ELSE Append(side.queue, Indexed(t.goods))
<1>1. side.queue \in Seq(Filed) /\ side.search \in Searches /\ told \in Counters
    BY SideParts, ToldIn, LessAmount
<1>2. t.search \in Searches /\ t.goods \in Goods
    BY <1>1, SearchAnswers DEF Answer
<1>3. Joinable(side.queue, g) # {} => joined \in Seq(Filed)
    BY <1>1, Joined
<1>4. queue \in Seq(Filed)
    BY <1>1, <1>2, QueuedIn, FiledIs
<1>5. \/ LiefereAn(side, h, g, e) = WithTransit(side, told)
      \/ Joinable(side.queue, g) # {} /\ LiefereAn(side, h, g, e) = WithQueue(side, joined)
      \/ LiefereAn(side, h, g, e) = WithTransit(WithSearch(side, t.search), told)
      \/ LiefereAn(side, h, g, e) = WithQueue(WithSearch(side, t.search), queue)
    BY DEF LiefereAn, WithQueue, WithSearch, WithTransit
<1> HIDE DEF t, told, joined, queue
<1> QED
    BY <1>1, <1>2, <1>3, <1>4, <1>5, SideQueue, SideSearch, SideTransit

\* so does search_route_for_invalid_zwischenziel_goods,
LEMMA RouteInvalidIn ==
    ASSUME OnMap, NEW side \in Sides, NEW h \in Halt, NEW e \in [Halt -> Target]
    PROVE  RouteInvalid(side, h, e) \in Sides
<1> DEFINE b == WithQueue(side, <<>>)
<1>1. RouteInvalid(side, h, e) = Routing!Run(h, e, 0, b, side.queue)
    BY DEF WithQueue, RouteInvalid, RouteStep, Routing!Run, FoldLeft, MapThenFoldSet, Max,
           Routing!FoldLeft, Routing!MapThenFoldSet, Routing!Max
<1>2. ASSUME NEW s \in Sides, NEW cargo \in Filed PROVE RouteStep(h, e, 0, s, cargo) \in Sides
    <2> DEFINE t == SearchRouteResumable(s.search, h, cargo.goods, e)
               queue == IF t.goods.ziel \in Alive THEN Append(s.queue, Indexed(t.goods)) ELSE s.queue
    <2>1. s.queue \in Seq(Filed) /\ s.search \in Searches /\ cargo.goods \in Goods
        BY SideParts, FiledIs
    <2>2. t.search \in Searches /\ t.goods \in Goods
        BY <2>1, SearchAnswers DEF Answer
    <2>3. queue \in Seq(Filed) /\ Append(s.queue, cargo) \in Seq(Filed)
        BY <2>1, <2>2, FiledIs
    <2>4. \/ RouteStep(h, e, 0, s, cargo) = WithQueue(s, Append(s.queue, cargo))
          \/ RouteStep(h, e, 0, s, cargo) = WithQueue(WithSearch(s, t.search), queue)
        BY DEF RouteStep, WithQueue, WithSearch, WithTransit
    <2> HIDE DEF t, queue
    <2> QED
        BY <2>2, <2>3, <2>4, SideQueue, SideSearch, SideTransit, SideParts
<1>3. Routing!Closed(h, e, 0, Sides, Filed)
    BY <1>2 DEF Routing!Closed
<1>4. b \in Sides /\ side.queue \in Seq(Filed)
    <2>1. <<>> \in Seq(Filed)
        OBVIOUS
    <2> QED
        BY <2>1, SideQueue, SideSearch, SideTransit, SideParts
<1> HIDE DEF b
<1>5. Routing!Run(h, e, 0, b, side.queue) \in Sides
    BY <1>3, <1>4, Routing!FoldIn
<1> QED
    BY <1>1, <1>5

\* and so does reroute_goods.
LEMMA ReroutedIn ==
    ASSUME OnMap, NEW side \in Sides, NEW h \in Halt, NEW e \in [Halt -> Target]
    PROVE  Rerouted(side, h, e) \in Sides
<1> DEFINE cargos == Range(side.queue)
           arrived == {cargo \in cargos : Connected(h, cargo.goods.factory)}
           empty == {cargo \in cargos : cargo.goods.amount = 0}
           told == ToldAll(side.transit, GoodsOf(Selected(side.queue, arrived)))
           b == WithTransit(WithQueue(side, <<>>), told)
           stay == Selected(side.queue, cargos \ (arrived \cup empty))
<1>1. Rerouted(side, h, e) = Rerouting!Run(h, e, 0, b, stay)
    BY DEF WithQueue, WithTransit, Rerouted, ReroutedStep, Rerouting!Run, FoldLeft, MapThenFoldSet, Max,
           Rerouting!FoldLeft, Rerouting!MapThenFoldSet, Rerouting!Max
<1>2. ASSUME NEW S PROVE Selected(side.queue, S) \in Seq(Filed)
    <2>1. Selected(side.queue, S) \in Seq(Filed \cap S)
        BY SideParts, SelectedIn
    <2> QED
        BY <2>1
<1>3. told \in Counters
    BY <1>2, SideParts, GoodsOfIn, ToldAllIn
<1>4. stay \in Seq(Filed)
    BY <1>2
<1>5. ASSUME NEW s \in Sides, NEW cargo \in Filed PROVE ReroutedStep(h, e, 0, s, cargo) \in Sides
    <2> DEFINE t == SearchRouteResumable(s.search, h, cargo.goods, e)
               lost == Told(s.transit, cargo.goods.factory, -cargo.goods.amount)
    <2>1. s.queue \in Seq(Filed) /\ s.search \in Searches /\ cargo.goods \in Goods
        BY SideParts, FiledIs
    <2>2. t.search \in Searches /\ t.goods \in Goods
        BY <2>1, SearchAnswers DEF Answer
    <2>3. lost \in Counters /\ Append(s.queue, Indexed(t.goods)) \in Seq(Filed)
        BY <2>1, <2>2, SideParts, ToldIn, LessAmount, FiledIs
    <2>4. \/ ReroutedStep(h, e, 0, s, cargo) = WithTransit(WithSearch(s, t.search), lost)
          \/ ReroutedStep(h, e, 0, s, cargo)
                = WithQueue(WithSearch(s, t.search), Append(s.queue, Indexed(t.goods)))
        BY DEF ReroutedStep, WithQueue, WithSearch, WithTransit
    <2> HIDE DEF t, lost
    <2> QED
        BY <2>2, <2>3, <2>4, SideQueue, SideSearch, SideTransit, SideParts
<1>6. Rerouting!Closed(h, e, 0, Sides, Filed)
    BY <1>5 DEF Rerouting!Closed
<1> HIDE DEF told, stay
<1>7. b \in Sides
    <2>1. <<>> \in Seq(Filed)
        OBVIOUS
    <2> QED
        BY <1>3, <2>1, SideQueue, SideSearch, SideTransit
<1> HIDE DEF b
<1>8. Rerouting!Run(h, e, 0, b, stay) \in Sides
    BY <1>4, <1>6, <1>7, Rerouting!FoldIn
<1> QED
    BY <1>1, <1>8

PicksStep(queue, q, r, p, h) ==
    p \o Selected([i \in DOMAIN queue |-> i], {i \in DOMAIN queue : queue[i].at.via = h})
Looking == INSTANCE Folding WITH Step <- PicksStep

PickStep(p, q, r, s, i) ==
    LET there == s.rest[i].goods
        n == Lesser(there.amount, s.room)
    IN  IF s.room = 0 THEN s
        ELSE [room |-> s.room - n,
              load |-> IF n = 0 THEN s.load ELSE <<[there EXCEPT !.amount = n]>> \o s.load,
              rest |-> [s.rest EXCEPT ![i].goods.amount = @ - n],
              gone |-> IF n = there.amount THEN s.gone \cup {i} ELSE s.gone]
Picking == INSTANCE Folding WITH Step <- PickStep

------------------------------------------------------------------------------
(* Loading.                                                                 *)

\* The items a convoy picks are items of the queue.
LEMMA PicksIn ==
    ASSUME NEW queue \in Seq(Filed), NEW stops \in Seq(Halt)
    PROVE  /\ Looking!Run(queue, 0, 0, <<>>, stops) \in Seq(1..Len(queue))
           /\ stops = <<>> => Looking!Run(queue, 0, 0, <<>>, stops) = <<>>
<1> DEFINE D == 1..Len(queue)
           R == Seq(D)
<1>1. ASSUME NEW p \in R, NEW h \in Halt PROVE PicksStep(queue, 0, 0, p, h) \in R
    <2> DEFINE places == [i \in DOMAIN queue |-> i]
               S == {i \in DOMAIN queue : queue[i].at.via = h}
    <2>1. places \in Seq(D)
        OBVIOUS
    <2> HIDE DEF places, S, D
    <2>2. Selected(places, S) \in Seq(D \cap S)
        BY <2>1, SelectedIn
    <2>3. Selected(places, S) \in Seq(D)
        BY <2>2
    <2>4. p \o Selected(places, S) \in Seq(D)
        BY <2>3
    <2> QED
        BY <2>4 DEF PicksStep, places, S
<1>2. Looking!Closed(queue, 0, 0, R, Halt)
    BY <1>1 DEF Looking!Closed
<1>3. <<>> \in R
    OBVIOUS
<1> HIDE DEF R
<1>4. Looking!Run(queue, 0, 0, <<>>, stops) \in R
    BY <1>2, <1>3, Looking!FoldIn
<1>5. ASSUME stops = <<>> PROVE Looking!Run(queue, 0, 0, <<>>, stops) = <<>>
    <2> DEFINE none == {<<>>}
               T == {}
    <2>1. Looking!Closed(queue, 0, 0, none, T) /\ <<>> \in none /\ stops \in Seq(T)
        BY <1>5 DEF Looking!Closed
    <2> HIDE DEF none, T
    <2>2. Looking!Run(queue, 0, 0, <<>>, stops) \in none
        BY <2>1, Looking!FoldIn
    <2> QED
        BY <2>2 DEF none
<1> QED
    BY <1>4, <1>5 DEF R

\* Picking, from a queue of n items: what is loaded uses up the room.
Picked(n, room) ==
    {s \in [room : Int, load : Seq(Goods), rest : [1..n -> Filed], gone : SUBSET (1..n)] :
         /\ s.room + Total(s.load) = room
         /\ room \in Nat => s.room \in Nat
         /\ room \notin Nat => s.load = <<>>}

\* One more item is picked.
LEMMA PickKeeps ==
    ASSUME NEW n \in Nat, NEW room \in Nat, NEW s \in Picked(n, room), NEW i \in 1..n
    PROVE  PickStep(0, 0, 0, s, i) \in Picked(n, room)
<1> DEFINE there == s.rest[i].goods
           m == Lesser(there.amount, s.room)
           part == [there EXCEPT !.amount = m]
           load == IF m = 0 THEN s.load ELSE <<part>> \o s.load
           rest == [s.rest EXCEPT ![i].goods.amount = @ - m]
           gone == IF m = there.amount THEN s.gone \cup {i} ELSE s.gone
           new == [room |-> s.room - m, load |-> load, rest |-> rest, gone |-> gone]
<1>1. /\ s.room \in Nat /\ s.load \in Seq(Goods) /\ s.rest \in [1..n -> Filed]
      /\ s.gone \in SUBSET (1..n) /\ s.room + Total(s.load) = room
    BY DEF Picked
<1>2. there \in Goods /\ s.rest[i] \in Filed
    <2>1. s.rest[i] \in Filed
        BY <1>1
    <2> QED
        BY <2>1, FiledIs
<1>3. PickStep(0, 0, 0, s, i) = IF s.room = 0 THEN s ELSE new
    BY DEF PickStep
<1>4. m \in Nat /\ m <= s.room /\ there.amount \in Nat /\ there.amount - m \in Nat
    <2>1. there.amount \in Nat
        BY <1>2, LessAmount
    <2> HIDE DEF there
    <2> QED
        BY <1>1, <2>1 DEF Lesser
<1>5. gone \in SUBSET (1..n)
    BY <1>1
<1>6. rest \in [1..n -> Filed]
    <2> DEFINE less == [s.rest[i] EXCEPT !.goods.amount = there.amount - m]
    <2>1. less \in Filed
        <3> HIDE DEF m, there
        <3> QED
            BY <1>2, <1>4, FiledAmount
    <2>2. rest = [s.rest EXCEPT ![i] = less]
        OBVIOUS
    <2> HIDE DEF less
    <2> QED
        BY <1>1, <2>1, <2>2
<1>7. part \in Goods /\ part.amount = m
    <2> HIDE DEF m, there
    <2> QED
        BY <1>2, <1>4 DEF Goods
<1> HIDE DEF there, m, part, rest, gone
<1>8. load \in Seq(Goods) /\ Total(load) = m + Total(s.load)
    <2>1. Total(s.load) \in Nat
        BY <1>1, TotalIs
    <2>2. CASE m = 0
        BY <1>1, <2>1, <2>2
    <2>3. CASE m # 0
        BY <1>1, <1>7, <2>3, TotalInserted
    <2> QED
        BY <2>2, <2>3
<1>9. Total(s.load) \in Nat
    BY <1>1, TotalIs
<1> HIDE DEF load
<1>10. new \in [room : Int, load : Seq(Goods), rest : [1..n -> Filed], gone : SUBSET (1..n)]
    BY <1>1, <1>4, <1>5, <1>6, <1>8
<1>11. new.room + Total(new.load) = room /\ new.room \in Nat
    BY <1>1, <1>4, <1>8, <1>9
<1> HIDE DEF new
<1>12. new \in Picked(n, room)
    BY <1>10, <1>11 DEF Picked
<1> QED
    BY <1>3, <1>12

\* A convoy is given no more than it has room for, and nothing when it has none.
LEMMA FetchIn ==
    ASSUME NEW queue \in Seq(Filed), NEW room \in Int, NEW stops \in Seq(Halt),
           room \in Nat \/ stops = <<>>
    PROVE  /\ Fetch(queue, room, stops).queue \in Seq(Filed)
           /\ Fetch(queue, room, stops).load \in Seq(Goods)
           /\ Total(Fetch(queue, room, stops).load) <= room \/ Fetch(queue, room, stops).load = <<>>
<1> DEFINE N == Len(queue)
           picks == Looking!Run(queue, 0, 0, <<>>, stops)
           b == [room |-> room, load |-> <<>>, rest |-> queue, gone |-> {}]
           end == Picking!Run(0, 0, 0, b, picks)
           places == [i \in DOMAIN queue |-> i]
           kept == Selected(places, DOMAIN queue \ end.gone)
           R == Picked(N, room)
           T == IF room \in Nat THEN 1..N ELSE {}
<1>1. picks = FoldLeft(LAMBDA p, h : p \o Selected(places, {i \in DOMAIN queue : queue[i].at.via = h}),
                       <<>>, stops)
    BY DEF PicksStep, Looking!Run, FoldLeft, MapThenFoldSet, Max,
           Looking!FoldLeft, Looking!MapThenFoldSet, Looking!Max
<1>2. ASSUME NEW ps
      PROVE  Picking!Run(0, 0, 0, b, ps) = FoldLeft(LAMBDA s, i : PickStep(0, 0, 0, s, i), b, ps)
    BY DEF Picking!Run, FoldLeft, MapThenFoldSet, Max,
           Picking!FoldLeft, Picking!MapThenFoldSet, Picking!Max
<1>3. Fetch(queue, room, stops)
      = [queue |-> [k \in DOMAIN kept |-> end.rest[kept[k]]], load |-> end.load]
    BY <1>1, <1>2 DEF Fetch, PickStep
<1>4. N \in Nat /\ DOMAIN queue = 1..N /\ queue \in [1..N -> Filed]
    OBVIOUS
<1>5. Picking!Closed(0, 0, 0, R, T)
    BY <1>4, PickKeeps DEF Picking!Closed
<1>6. b \in R
    <2>1. Total(<<>>) = 0 /\ <<>> \in Seq(Goods)
        BY TotalEmpty
    <2> HIDE DEF N
    <2> QED
        BY <1>4, <2>1 DEF Picked
<1>7. picks \in Seq(T)
    <2>1. picks \in Seq(1..N) /\ (stops = <<>> => picks = <<>>)
        BY PicksIn
    <2> HIDE DEF picks, N
    <2> QED
        BY <2>1
<1> HIDE DEF R, T, b, picks
<1>8. end \in R
    BY <1>5, <1>6, <1>7, Picking!FoldIn
<1> HIDE DEF end
<1>9. end.load \in Seq(Goods) /\ end.rest \in [1..N -> Filed] /\ end.room + Total(end.load) = room
    BY <1>8 DEF R, Picked
<1>10. Total(end.load) <= room \/ end.load = <<>>
    <2>1. Total(end.load) \in Nat
        BY <1>9, TotalIs
    <2>2. CASE room \in Nat
        <3>1. end.room \in Nat
            BY <1>8, <2>2 DEF R, Picked
        <3> QED
            BY <1>9, <2>1, <3>1
    <2>3. CASE room \notin Nat
        BY <1>8, <2>3 DEF R, Picked
    <2> QED
        BY <2>2, <2>3
<1>11. kept \in Seq(1..N)
    <2> DEFINE S == DOMAIN queue \ end.gone
               D == 1..N
    <2>1. places \in Seq(D)
        BY <1>4
    <2> HIDE DEF places, S, D
    <2>2. Selected(places, S) \in Seq(D \cap S)
        BY <2>1, SelectedIn
    <2>3. Selected(places, S) \in Seq(D)
        BY <2>2
    <2> QED
        BY <2>3 DEF S, D
<1> HIDE DEF kept, N
<1>12. [k \in DOMAIN kept |-> end.rest[kept[k]]] \in Seq(Filed)
    <2> DEFINE D == 1..N
    <2>3. kept \in Seq(D)
        BY <1>11
    <2> HIDE DEF D
    <2>4. Len(kept) \in Nat /\ DOMAIN kept = 1..Len(kept) /\ \A k \in 1..Len(kept) : kept[k] \in D
        BY <2>3
    <2>1. Len(kept) \in Nat /\ DOMAIN kept = 1..Len(kept) /\ \A k \in 1..Len(kept) : kept[k] \in 1..N
        BY <2>4 DEF D
    <2>2. \A k \in 1..Len(kept) : end.rest[kept[k]] \in Filed
        BY <1>9, <2>1
    <2> QED
        BY <2>1, <2>2
<1> QED
    BY <1>3, <1>9, <1>10, <1>12

LoadStep(load, q, r, s, g) ==
    LET same == {i \in DOMAIN load : load[i].ziel = g.ziel /\ load[i].factory = g.factory}
    IN  IF same = {} THEN Append(s, g) ELSE [s EXCEPT ![First(same)].amount = @ + g.amount]
Joining == INSTANCE Folding WITH Step <- LoadStep

\* load_cargo neither loses nor adds anything.
LEMMA LoadCargoIn ==
    ASSUME NEW load \in Seq(Goods), NEW fetched \in Seq(Goods)
    PROVE  /\ LoadCargo(load, fetched) \in Seq(Goods)
           /\ Total(LoadCargo(load, fetched)) = Total(load) + Total(fetched)
<1> DEFINE N == Len(fetched)
           R == {s \in Seq(Goods) : Len(s) >= Len(load)}
           fun == Amount(fetched)
<1>1. LoadCargo(load, fetched) = Joining!Run(load, 0, 0, load, fetched)
    BY DEF LoadCargo, LoadStep, Joining!Run, FoldLeft, MapThenFoldSet, Max,
           Joining!FoldLeft, Joining!MapThenFoldSet, Joining!Max
<1>2. ASSUME NEW s \in R, NEW g \in Goods
      PROVE  /\ LoadStep(load, 0, 0, s, g) \in R
             /\ Total(LoadStep(load, 0, 0, s, g)) = Total(s) + g.amount
    <2> DEFINE same == {i \in DOMAIN load : load[i].ziel = g.ziel /\ load[i].factory = g.factory}
               j == First(same)
    <2>1. s \in Seq(Goods) /\ Len(s) >= Len(load) /\ Len(load) \in Nat /\ Len(s) \in Nat
        OBVIOUS
    <2>2. CASE same = {}
        <3>1. LoadStep(load, 0, 0, s, g) = Append(s, g)
            BY <2>2 DEF LoadStep
        <3>2. Append(s, g) \in Seq(Goods) /\ Len(Append(s, g)) >= Len(load)
            BY <2>1
        <3>3. Total(Append(s, g)) = Total(s) + g.amount
            BY <2>1, TotalAppend
        <3> QED
            BY <3>1, <3>2, <3>3
    <2>3. CASE same # {}
        <3>1. same \in SUBSET (DOMAIN load)
            OBVIOUS
        <3>2. LoadStep(load, 0, 0, s, g) = [s EXCEPT ![j].amount = @ + g.amount]
            BY <2>3 DEF LoadStep
        <3> HIDE DEF same
        <3>3. j \in DOMAIN load
            BY <2>3, <3>1, JoinableFirst
        <3> HIDE DEF j
        <3>4. j \in DOMAIN s
            BY <2>1, <3>3
        <3> DEFINE more == [s EXCEPT ![j].amount = @ + g.amount]
        <3>5. more \in Seq(Goods) /\ Total(more) = Total(s) + g.amount
            <4> DEFINE n == g.amount
            <4>1. n \in Nat
                BY LessAmount
            <4> HIDE DEF n
            <4>2. /\ [s EXCEPT ![j].amount = @ + n] \in Seq(Goods)
                  /\ Total([s EXCEPT ![j].amount = @ + n]) = Total(s) + n
                BY <2>1, <3>4, <4>1, TotalJoined
            <4> QED
                BY <4>2 DEF n
        <3>6. Len(more) = Len(s)
            BY <2>1
        <3> HIDE DEF more
        <3>7. more \in R
            BY <2>1, <3>5, <3>6
        <3>8. LoadStep(load, 0, 0, s, g) = more
            BY <3>2 DEF more
        <3> QED
            BY <3>5, <3>7, <3>8
    <2> QED
        BY <2>2, <2>3
<1>3. Joining!Closed(load, 0, 0, R, Goods)
    BY <1>2 DEF Joining!Closed
<1>4. load \in R /\ N \in Nat /\ fetched \in [1..N -> Goods]
    OBVIOUS
<1>5. R \subseteq Seq(Goods)
    OBVIOUS
<1> HIDE DEF R, N
<1>6. PICK t \in [0..N -> R] : Joining!Steps(t, load, 0, 0, load, fetched, N)
    BY <1>3, <1>4, Joining!FoldSteps
<1>7. /\ t[0] = load /\ LoadCargo(load, fetched) = t[N]
      /\ \A n \in 1..N : t[n] = LoadStep(load, 0, 0, t[n - 1], fetched[n])
    BY <1>1, <1>6 DEF Joining!Steps
<1>8. Total(fetched) = Selecting!Sum(fun, 1..N)
    BY TotalIs DEF N
<1>9. \A n \in 1..N : /\ Selecting!Sum(fun, 1..n) = fetched[n].amount + Selecting!Sum(fun, 1..(n - 1))
                      /\ Selecting!Sum(fun, 1..(n - 1)) \in Nat
    BY TotalPrefix DEF N
<1>10. Selecting!Sum(fun, {}) = 0
    BY TotalNone
<1>11. Total(load) \in Nat
    BY TotalIs
<1> DEFINE K == {n \in Nat : n <= N => Total(t[n]) = Total(load) + Selecting!Sum(fun, 1..n)}
<1> HIDE DEF fun
<1>12. 0 \in K
    <2>1. 1..0 = {}
        OBVIOUS
    <2> QED
        BY <1>7, <1>10, <1>11, <2>1
<1>13. ASSUME NEW n \in Nat, n \in K PROVE n + 1 \in K
    <2> SUFFICES ASSUME n + 1 <= N PROVE Total(t[n + 1]) = Total(load) + Selecting!Sum(fun, 1..(n + 1))
        OBVIOUS
    <2>1. n + 1 \in 1..N /\ (n + 1) - 1 = n /\ n \in 0..N
        BY <1>4
    <2>2. Total(t[n]) = Total(load) + Selecting!Sum(fun, 1..n)
        BY <1>4, <1>13, <2>1
    <2>3. t[n] \in R /\ fetched[n + 1] \in Goods
        BY <1>4, <1>6, <2>1
    <2>4. Total(t[n + 1]) = Total(t[n]) + fetched[n + 1].amount
        <3>1. t[n + 1] = LoadStep(load, 0, 0, t[n], fetched[n + 1])
            BY <1>7, <2>1
        <3> QED
            BY <1>2, <2>3, <3>1
    <2>5. /\ Selecting!Sum(fun, 1..(n + 1)) = fetched[n + 1].amount + Selecting!Sum(fun, 1..n)
          /\ Selecting!Sum(fun, 1..n) \in Nat
        BY <1>9, <2>1
    <2>6. fetched[n + 1].amount \in Nat
        BY <2>3, LessAmount
    <2> QED
        BY <1>11, <2>2, <2>4, <2>5, <2>6
<1> HIDE DEF K
<1>14. Nat \subseteq K
    BY <1>12, <1>13, Joining!Induction
<1>15. Total(t[N]) = Total(load) + Selecting!Sum(fun, 1..N)
    BY <1>4, <1>14 DEF K
<1>16. t[N] \in Seq(Goods)
    BY <1>4, <1>5, <1>6
<1> QED
    BY <1>7, <1>8, <1>15, <1>16

UnloadStep(h, all, e, s, g) ==
    IF g.ziel \notin Alive \/ g.via \notin Alive
      THEN [s EXCEPT !.side.transit = Told(@, g.factory, -g.amount), !.total = @ - g.amount]
    ELSE IF g.ziel = h \/ g.via = h \/ all
      THEN [s EXCEPT !.side = LiefereAn(@, h, g, e), !.total = @ - g.amount]
    ELSE [s EXCEPT !.load = Append(@, g)]
Unloading == INSTANCE Folding WITH Step <- UnloadStep

------------------------------------------------------------------------------
(* Unloading.                                                               *)

Unloads == [side : Sides, load : Seq(Goods), total : Int]

\* What is in the vehicle and what total_freight counts decrease together.
LEMMA UnloadKeeps ==
    ASSUME OnMap, NEW h \in Halt, NEW all, NEW e \in [Halt -> Target], NEW s \in Unloads, NEW g \in Goods
    PROVE  LET t == UnloadStep(h, all, e, s, g)
           IN  /\ t \in Unloads
               /\ t.total <= s.total
               /\ t.total - Total(t.load) = (s.total - Total(s.load)) - g.amount
<1> DEFINE t == UnloadStep(h, all, e, s, g)
           told == WithTransit(s.side, Told(s.side.transit, g.factory, -g.amount))
           side == LiefereAn(s.side, h, g, e)
           Less(x) == [side |-> x, load |-> s.load, total |-> s.total - g.amount]
           More == [side |-> s.side, load |-> Append(s.load, g), total |-> s.total]
<1>1. s.side \in Sides /\ s.load \in Seq(Goods) /\ s.total \in Int /\ g.amount \in Nat
    BY LessAmount DEF Unloads
<1>2. s = [side |-> s.side, load |-> s.load, total |-> s.total]
    BY DEF Unloads
<1>3. told \in Sides
    <2>1. Told(s.side.transit, g.factory, -g.amount) \in Counters
        BY <1>1, SideParts, ToldIn, LessAmount
    <2> QED
        BY <1>1, <2>1, SideTransit
<1>4. side \in Sides
    BY <1>1, LiefereIn
<1>5. t = Less(told) \/ t = Less(side) \/ t = More
    BY <1>2 DEF UnloadStep, WithTransit
<1>6. Total(s.load) \in Nat
    BY <1>1, TotalIs
<1>7. Append(s.load, g) \in Seq(Goods) /\ Total(Append(s.load, g)) = Total(s.load) + g.amount
    BY <1>1, TotalAppend
<1> HIDE DEF t, told, side
<1>8. ASSUME NEW x \in Sides, t = Less(x)
      PROVE  /\ t \in Unloads /\ t.total <= s.total
             /\ t.total - Total(t.load) = (s.total - Total(s.load)) - g.amount
    BY <1>1, <1>6, <1>8 DEF Unloads
<1>9. ASSUME t = More
      PROVE  /\ t \in Unloads /\ t.total <= s.total
             /\ t.total - Total(t.load) = (s.total - Total(s.load)) - g.amount
    BY <1>1, <1>6, <1>7, <1>9 DEF Unloads
<1> HIDE DEF Less, More
<1>10. /\ t \in Unloads /\ t.total <= s.total
       /\ t.total - Total(t.load) = (s.total - Total(s.load)) - g.amount
    BY <1>3, <1>4, <1>5, <1>8, <1>9
<1> QED
    BY <1>10 DEF t

\* unload_cargo keeps what is in the vehicle within what is counted.
LEMMA UnloadIn ==
    ASSUME OnMap, NEW side \in Sides, NEW h \in Halt, NEW con, con.load \in Seq(Goods),
           con.total \in Int, Total(con.load) <= con.total, NEW all, NEW e \in [Halt -> Target]
    PROVE  LET un == UnloadCargo(side, h, con, all, e)
           IN  un \in Unloads /\ un.total <= con.total /\ Total(un.load) <= un.total
<1> DEFINE N == Len(con.load)
           fun == Amount(con.load)
           b == [side |-> side, load |-> <<>>, total |-> con.total]
           un == UnloadCargo(side, h, con, all, e)
<1>1. un = Unloading!Run(h, all, e, b, con.load)
    BY DEF UnloadCargo, UnloadStep, Unloading!Run, FoldLeft, MapThenFoldSet, Max,
           Unloading!FoldLeft, Unloading!MapThenFoldSet, Unloading!Max
<1>2. Unloading!Closed(h, all, e, Unloads, Goods)
    BY UnloadKeeps DEF Unloading!Closed
<1>3. b \in Unloads
    BY DEF Unloads
<1>4. N \in Nat /\ con.load \in [1..N -> Goods]
    OBVIOUS
<1>5. b.total = con.total /\ b.load = <<>>
    OBVIOUS
<1> HIDE DEF N, b, un
<1>6. PICK t \in [0..N -> Unloads] : Unloading!Steps(t, h, all, e, b, con.load, N)
    BY <1>2, <1>3, <1>4, Unloading!FoldSteps
<1>7. /\ t[0] = b /\ un = t[N]
      /\ \A n \in 1..N : t[n] = UnloadStep(h, all, e, t[n - 1], con.load[n])
    BY <1>1, <1>6 DEF Unloading!Steps
<1>8. Total(con.load) = Selecting!Sum(fun, 1..N)
    BY TotalIs DEF N
<1>9. \A n \in 1..N : /\ Selecting!Sum(fun, 1..n) = con.load[n].amount + Selecting!Sum(fun, 1..(n - 1))
                      /\ Selecting!Sum(fun, 1..(n - 1)) \in Nat
    BY TotalPrefix DEF N
<1>10. Selecting!Sum(fun, {}) = 0
    BY TotalNone
<1> DEFINE K == {n \in Nat : n <= N =>
                    /\ t[n].total <= con.total
                    /\ t[n].total - Total(t[n].load) = con.total - Selecting!Sum(fun, 1..n)}
<1> HIDE DEF fun
<1>11. 0 \in K
    <2>1. 1..0 = {}
        OBVIOUS
    <2> QED
        BY <1>5, <1>7, <1>10, <2>1, TotalEmpty
<1>12. ASSUME NEW n \in Nat, n \in K PROVE n + 1 \in K
    <2> SUFFICES ASSUME n + 1 <= N
                 PROVE  /\ t[n + 1].total <= con.total
                        /\ t[n + 1].total - Total(t[n + 1].load)
                           = con.total - Selecting!Sum(fun, 1..(n + 1))
        OBVIOUS
    <2>1. n + 1 \in 1..N /\ (n + 1) - 1 = n /\ n \in 0..N /\ n + 1 \in 0..N
        BY <1>4
    <2>2. /\ t[n].total <= con.total
          /\ t[n].total - Total(t[n].load) = con.total - Selecting!Sum(fun, 1..n)
        BY <1>4, <1>12, <2>1
    <2>3. t[n] \in Unloads /\ con.load[n + 1] \in Goods
        BY <1>4, <1>6, <2>1
    <2>4. t[n + 1] = UnloadStep(h, all, e, t[n], con.load[n + 1])
        BY <1>7, <2>1
    <2>5. /\ t[n + 1] \in Unloads /\ t[n + 1].total <= t[n].total
          /\ t[n + 1].total - Total(t[n + 1].load)
             = (t[n].total - Total(t[n].load)) - con.load[n + 1].amount
        BY <2>3, <2>4, UnloadKeeps
    <2>6. /\ Selecting!Sum(fun, 1..(n + 1)) = con.load[n + 1].amount + Selecting!Sum(fun, 1..n)
          /\ Selecting!Sum(fun, 1..n) \in Nat
        BY <1>9, <2>1
    <2>7. con.load[n + 1].amount \in Nat /\ t[n].total \in Int /\ t[n + 1].total \in Int
        BY <2>3, <2>5, LessAmount DEF Unloads
    <2> QED
        BY <2>2, <2>5, <2>6, <2>7
<1> HIDE DEF K
<1>13. Nat \subseteq K
    BY <1>11, <1>12, Unloading!Induction
<1>14. t[N].total <= con.total /\ t[N].total - Total(t[N].load) = con.total - Selecting!Sum(fun, 1..N)
    BY <1>4, <1>13 DEF K
<1>15. t[N] \in Unloads
    BY <1>4, <1>6
<1>16. t[N].total \in Int /\ Total(t[N].load) \in Nat /\ Total(con.load) \in Nat
    BY <1>15, TotalIs DEF Unloads
<1>17. Total(t[N].load) <= t[N].total
    BY <1>8, <1>14, <1>16
<1> QED
    BY <1>7, <1>14, <1>15, <1>17 DEF un

------------------------------------------------------------------------------
(* Convoys.                                                                 *)

\* A convoy is at a stop of its schedule and carries no more than it counts.
Convoys == {r \in [schedule : Schedules, stop : Nat, load : Seq(Goods), total : 0..Capacity] :
               r.stop \in DOMAIN r.schedule /\ Total(r.load) <= r.total}

\* The parts of a convoy.
LEMMA ConvoyIs ==
    ASSUME NEW con \in Convoys
    PROVE  /\ con.schedule \in Seq(Place) /\ con.schedule # <<>> /\ con.stop \in DOMAIN con.schedule
           /\ con.stop \in Nat /\ con.load \in Seq(Goods) /\ con.total \in Nat
           /\ con.total <= Capacity /\ Total(con.load) <= con.total
           /\ con = [schedule |-> con.schedule, stop |-> con.stop, load |-> con.load,
                     total |-> con.total]
BY FreightAssumption DEF Convoys, Schedules

\* The cargo of a convoy is exchanged.
WithCargo(con, load, total) == [con EXCEPT !.load = load, !.total = total]

\* A convoy takes a cargo that it counts and has room for.
LEMMA CargoIn ==
    ASSUME NEW con \in Convoys, NEW load \in Seq(Goods), NEW total \in Int,
           Total(load) <= total, total <= Capacity
    PROVE  WithCargo(con, load, total) \in Convoys
<1> DEFINE r == [schedule |-> con.schedule, stop |-> con.stop, load |-> load, total |-> total]
<1>1. Total(load) \in Nat /\ Capacity \in Nat
    BY TotalIs, FreightAssumption
<1>2. total \in 0..Capacity
    BY <1>1
<1>3. WithCargo(con, load, total) = r
    <2> DEFINE full == [con EXCEPT !.load = load]
    <2>1. con \in [schedule : Schedules, stop : Nat, load : Seq(Goods), total : 0..Capacity]
        BY DEF Convoys
    <2>2. full = [schedule |-> con.schedule, stop |-> con.stop, load |-> load,
                  total |-> con.total]
        BY <2>1
    <2>3. WithCargo(con, load, total) = [full EXCEPT !.total = total]
        BY DEF WithCargo
    <2> HIDE DEF full
    <2> QED
        BY <2>2, <2>3
<1>4. con.schedule \in Schedules /\ con.stop \in Nat /\ con.stop \in DOMAIN con.schedule
    BY DEF Convoys
<1>5. r \in [schedule : Schedules, stop : Nat, load : Seq(Goods), total : 0..Capacity]
    BY <1>2, <1>4
<1>6. r.stop \in DOMAIN r.schedule /\ Total(r.load) <= r.total
    BY <1>4
<1> HIDE DEF r
<1> QED
    BY <1>3, <1>5, <1>6 DEF Convoys

\* The stops of a convoy are stops.
LEMMA StopsIn ==
    ASSUME OnMap, NEW con, con.schedule \in Seq(Place), con.schedule # <<>>, con.stop \in Nat
    PROVE  StopsFrom(con) \in Seq(Halt)
<1> DEFINE n == Len(con.schedule)
           at == [k \in 1..n |-> ((con.stop + k - 2) % n) + 1]
           round == [k \in 1..n |-> haltAt[con.schedule[((con.stop + k - 2) % n) + 1]]]
<1>1. n \in Nat \ {0} /\ DOMAIN con.schedule = 1..n /\ \A k \in 1..n : con.schedule[k] \in Place
    OBVIOUS
<1>2. \A k \in 1..n : ((con.stop + k - 2) % n) + 1 \in 1..n
    <2> HIDE DEF n
    <2>1. \A x \in Int : (x % n) + 1 \in 1..n
        BY <1>1
    <2>2. \A k \in 1..n : con.stop + k - 2 \in Int
        BY <1>1
    <2> QED
        BY <2>1, <2>2
<1>3. \A k \in 1..n : round[k] \in Target
    BY <1>1, <1>2 DEF OnMap
<1>4. StopsFrom(con) = Selected(round, Halt)
    BY DEF StopsFrom
<1> HIDE DEF n
<1>5. round \in Seq(Target)
    BY <1>1, <1>3
<1> HIDE DEF round
<1>6. Selected(round, Halt) \in Seq(Target \cap Halt)
    BY <1>5, SelectedIn
<1>7. Target \cap Halt = Halt
    BY DEF Target
<1> QED
    BY <1>4, <1>6, <1>7

\* Goods that are sent elsewhere do not weigh more.
LEMMA StaleRemovedIn ==
    ASSUME OnMap, NEW con \in Convoys, NEW counter \in Counters
    PROVE  /\ RemoveStaleCargo(con, counter).con \in Convoys
           /\ RemoveStaleCargo(con, counter).transit \in Counters
<1> DEFINE stops == StopsFrom(con)
           Sent(g) == IF g.via \in Range(stops) THEN g
                      ELSE Routed(g, IF g.ziel \in Alive THEN g.ziel ELSE Head(stops), Head(stops))
           moved == [i \in DOMAIN con.load |-> Sent(con.load[i])]
           load == IF stops = <<>> THEN <<>> ELSE moved
           told == IF stops = <<>> THEN ToldAll(counter, con.load) ELSE counter
<1>1. RemoveStaleCargo(con, counter) = [con |-> WithCargo(con, load, Total(load)), transit |-> told]
    BY DEF RemoveStaleCargo, WithCargo
<1>2. told \in Counters
    BY ConvoyIs, ToldAllIn
<1>3. stops \in Seq(Halt)
    BY ConvoyIs, StopsIn
<1>4. ASSUME stops # <<>>, NEW g \in Goods PROVE Sent(g) \in Goods /\ Sent(g).amount = g.amount
    <2> DEFINE first == Head(stops)
               ziel == IF g.ziel \in Alive THEN g.ziel ELSE first
    <2>1. first \in Target
        <3> HIDE DEF stops
        <3>1. first \in Halt
            BY <1>3, <1>4
        <3> QED
            BY <3>1 DEF Target
    <2>2. ziel \in Target
        BY <2>1 DEF Goods
    <2>3. Sent(g) = g \/ Sent(g) = Routed(g, ziel, first)
        OBVIOUS
    <2> HIDE DEF first, ziel, Sent
    <2>4. Routed(g, ziel, first) \in Goods /\ Routed(g, ziel, first).amount = g.amount
        BY <2>1, <2>2, RoutedGoods
    <2> QED
        BY <2>3, <2>4
<1>5. load \in Seq(Goods) /\ Total(load) <= Capacity
    <2>1. con.load \in Seq(Goods) /\ Total(con.load) \in Nat /\ Total(con.load) <= Capacity /\ Capacity \in Nat
        BY ConvoyIs, TotalIs, FreightAssumption
    <2>2. CASE stops = <<>>
        <3>1. load = <<>>
            BY <2>2
        <3>2. <<>> \in Seq(Goods)
            OBVIOUS
        <3> HIDE DEF load
        <3> QED
            BY <2>1, <3>1, <3>2, TotalEmpty
    <2>3. CASE stops # <<>>
        <3> DEFINE N == Len(con.load)
        <3>1. N \in Nat /\ DOMAIN con.load = 1..N /\ \A i \in 1..N : con.load[i] \in Goods
            BY <2>1
        <3> HIDE DEF stops, N, Sent
        <3>2. \A i \in 1..N : moved[i] = Sent(con.load[i])
            BY <3>1
        <3>3. \A i \in 1..N : moved[i] \in Goods /\ moved[i].amount = con.load[i].amount
            BY <1>4, <2>3, <3>1, <3>2
        <3>4. moved = [i \in 1..N |-> moved[i]]
            BY <3>1
        <3> HIDE DEF moved
        <3>5. moved \in Seq(Goods) /\ Len(moved) = N
            BY <3>1, <3>3, <3>4
        <3>6. Total(moved) = Total(con.load)
            BY <2>1, <3>3, <3>5, TotalSame DEF N
        <3> QED
            BY <2>1, <2>3, <3>5, <3>6
    <2> QED
        BY <2>2, <2>3
<1> HIDE DEF load, told
<1>6. WithCargo(con, load, Total(load)) \in Convoys
    <2>1. Total(load) \in Nat
        BY <1>5, TotalIs
    <2> QED
        BY <1>5, <2>1, CargoIn
<1> QED
    BY <1>1, <1>2, <1>6

\* A discarded cargo still counts, which is no harm.
LEMMA DiscardedIn ==
    ASSUME NEW con \in Convoys, NEW counter \in Counters
    PROVE  /\ Discarded(con, counter).con \in Convoys
           /\ Discarded(con, counter).transit \in Counters
<1>1. ToldAll(counter, con.load) \in Counters
    BY ConvoyIs, ToldAllIn
<1>2. <<>> \in Seq(Goods) /\ con.total \in Int /\ Total(<<>>) <= con.total
    BY ConvoyIs, TotalEmpty
<1>3. WithCargo(con, <<>>, con.total) \in Convoys
    BY <1>2, ConvoyIs, CargoIn
<1>4. [con EXCEPT !.load = <<>>] = WithCargo(con, <<>>, con.total)
    BY ConvoyIs DEF WithCargo
<1> QED
    BY <1>1, <1>3, <1>4 DEF Discarded

\* A convoy with another schedule.
LEMMA EditedIn ==
    ASSUME NEW con \in Convoys, NEW s \in Timetables, NEW k \in DOMAIN s
    PROVE  LET new == [con EXCEPT !.schedule = s, !.stop = k]
           IN  new \in Convoys /\ new.load = con.load
<1> DEFINE half == [con EXCEPT !.schedule = s]
           new == [half EXCEPT !.stop = k]
           Shaped == [schedule : Schedules, stop : Nat, load : Seq(Goods), total : 0..Capacity]
<1>1. s \in Schedules /\ k \in Nat
    BY FreightAssumption DEF Schedules
<1>2. con \in Shaped /\ Total(con.load) <= con.total
    BY DEF Convoys
<1>3. half \in Shaped /\ half.schedule = s /\ half.load = con.load /\ half.total = con.total
    BY <1>1, <1>2
<1> HIDE DEF half
<1>4. /\ new \in Shaped /\ new.schedule = s /\ new.load = con.load /\ new.total = con.total
      /\ new.stop = k
    BY <1>1, <1>3
<1>5. new = [con EXCEPT !.schedule = s, !.stop = k]
    BY DEF half
<1> HIDE DEF new
<1>6. new \in Convoys
    BY <1>2, <1>4 DEF Convoys
<1> QED
    BY <1>4, <1>5, <1>6

\* So are those that it loads for.
LEMMA ReachableIn ==
    ASSUME OnMap, NEW con \in Convoys, NEW h \in Halt
    PROVE  Reachable(con, h) \in Seq(Halt)
<1> DEFINE stops == StopsFrom(con)
           again == {i \in 2..Len(stops) : stops[i] = h}
           end == IF again = {} THEN Len(stops) ELSE First(again) - 1
<1>1. stops \in Seq(Halt)
    BY ConvoyIs, StopsIn
<1>2. Reachable(con, h) = SubSeq(stops, 2, end)
    BY DEF Reachable
<1> HIDE DEF stops
<1>3. end \in Nat /\ end <= Len(stops)
    <2>1. CASE again = {}
        BY <1>1, <2>1
    <2>2. CASE again # {}
        <3>1. again \in SUBSET (DOMAIN stops) /\ again \subseteq 2..Len(stops)
            BY <1>1
        <3>2. First(again) \in again
            BY <1>1, <2>2, <3>1, JoinableFirst
        <3>3. First(again) \in 2..Len(stops)
            BY <3>1, <3>2
        <3> QED
            BY <1>1, <2>2, <3>3
    <2> QED
        BY <2>1, <2>2
<1> HIDE DEF end
<1> QED
    BY <1>1, <1>2, <1>3

\* What a convoy does at a stop.
LEMMA ExchangedIn ==
    ASSUME OnMap, NEW h \in Halt, Side(h) \in Sides, NEW con \in Convoys, NEW all,
           NEW e \in [Halt -> Target]
    PROVE  Exchanged(h, con, all, e).side \in Sides /\ Exchanged(h, con, all, e).con \in Convoys
<1> DEFINE un == UnloadCargo(Side(h), h, con, all, e)
           room == FreeCapacity(un)
           ready == IF room > 0 /\ un.side.queue # <<>> THEN RouteInvalid(un.side, h, e)
                    ELSE un.side
           ahead == Reachable(con, h)
           stops == IF room > 0 THEN ahead ELSE <<>>
           got == Fetch(ready.queue, room, stops)
           load == LoadCargo(un.load, got.load)
           total == un.total + Total(got.load)
<1>1. Exchanged(h, con, all, e)
      = [side |-> WithQueue(ready, got.queue), con |-> WithCargo(con, load, total)]
    BY DEF Exchanged, WithQueue, WithCargo
<1>2. un \in Unloads /\ un.total <= con.total /\ Total(un.load) <= un.total
    BY ConvoyIs, UnloadIn
<1> HIDE DEF un
<1>3. un.side \in Sides /\ un.load \in Seq(Goods) /\ un.total \in Int /\ Total(un.load) \in Nat
    BY <1>2, TotalIs DEF Unloads
<1>4. room = Capacity - un.total /\ Capacity \in Nat /\ room \in Int
    BY <1>3, FreightAssumption DEF FreeCapacity
<1> HIDE DEF room
<1>5. ready \in Sides
    BY <1>3, RouteInvalidIn
<1> HIDE DEF ready
<1>6. ahead \in Seq(Halt)
    BY ReachableIn
<1> HIDE DEF ahead
<1>7. stops \in Seq(Halt) /\ (room \in Nat \/ stops = <<>>)
    BY <1>4, <1>6
<1> HIDE DEF stops
<1>8. /\ got.queue \in Seq(Filed) /\ got.load \in Seq(Goods)
      /\ Total(got.load) <= room \/ got.load = <<>>
    <2>1. ready.queue \in Seq(Filed)
        BY <1>5, SideParts
    <2> QED
        BY <1>4, <1>7, <2>1, FetchIn
<1> HIDE DEF got
<1>9. load \in Seq(Goods) /\ Total(load) = Total(un.load) + Total(got.load)
    BY <1>3, <1>8, LoadCargoIn
<1> HIDE DEF load
<1>10. Total(got.load) \in Nat
    BY <1>8, TotalIs
<1>11. total \in Int /\ Total(load) <= total /\ total <= Capacity
    <2>1. con.total \in Nat /\ con.total <= Capacity
        BY ConvoyIs
    <2>2. Total(got.load) <= room \/ Total(got.load) = 0
        BY <1>8, TotalEmpty
    <2> QED
        BY <1>2, <1>3, <1>4, <1>9, <1>10, <2>1, <2>2
<1> HIDE DEF total
<1>12. WithQueue(ready, got.queue) \in Sides
    BY <1>5, <1>8, SideQueue
<1>13. WithCargo(con, load, total) \in Convoys
    BY <1>9, <1>11, CargoIn
<1> QED
    BY <1>1, <1>12, <1>13

------------------------------------------------------------------------------
(* Whose goods are whose.                                                   *)

\* What goods count for f, and those of a vehicle or stop.
Share(g, f) == IF g.factory = f THEN g.amount ELSE 0
Shares(load, f) == [i \in DOMAIN load |-> Share(load[i], f)]
Waits(queue, f) == SumOf(GoodsOf(queue), f)

\* A share is a natural number.
LEMMA ShareIn ==
    ASSUME NEW g \in Goods, NEW f
    PROVE  Share(g, f) \in Nat /\ Share(g, f) \in Int
BY LessAmount DEF Share

\* What counts for f is a sum of shares.
LEMMA SumOfIs ==
    ASSUME NEW load \in Seq(Goods), NEW f
    PROVE  /\ SumOf(load, f) = Selecting!Sum(Shares(load, f), 1..Len(load))
           /\ \A i \in 1..Len(load) : Shares(load, f)[i] = Share(load[i], f) /\ Shares(load, f)[i] \in Int
           /\ SumOf(load, f) \in Nat
<1> DEFINE S == 1..Len(load)
           fun == Shares(load, f)
<1>0. Len(load) \in Nat /\ DOMAIN load = S /\ \A i \in S : load[i] \in Goods
    OBVIOUS
<1>1. \A i \in S : fun[i] = Share(load[i], f) /\ fun[i] \in Int
    BY <1>0, ShareIn DEF Shares
<1>2. DOMAIN fun = S
    BY <1>0 DEF Shares
<1>3. SumOf(load, f) = SumFunction(fun)
    BY DEF SumOf, Shares, Share
<1> HIDE DEF S, fun
<1>4. SumOf(load, f) = Selecting!Sum(fun, S)
    BY <1>2, <1>3, SumsAre
<1> QED
    BY <1>1, <1>4, SumOfIn DEF S, fun

\* No goods are of no use.
LEMMA SumOfNone ==
    ASSUME NEW f
    PROVE  SumOf(<<>>, f) = 0
<1>1. <<>> \in Seq(Goods) /\ 1..Len(<<>>) = {}
    OBVIOUS
<1> DEFINE fun == Shares(<<>>, f)
           S == {}
<1>2. SumOf(<<>>, f) = Selecting!Sum(fun, S)
    BY <1>1, SumOfIs
<1>3. Selecting!IsFiniteSet(S) /\ \A i \in S : fun[i] \in Int
    <2>1. IsFiniteSet(S)
        BY FS_EmptySet
    <2> QED
        BY <2>1, FiniteThere
<1> HIDE DEF fun
<1>4. Selecting!Sum(fun, {}) = 0
    BY <1>3, Selecting!SumInt
<1> QED
    BY <1>2, <1>4

\* Only the shares count.
LEMMA SumOfSame ==
    ASSUME NEW f, NEW load \in Seq(Goods), NEW other \in Seq(Goods), Len(other) = Len(load),
           \A i \in 1..Len(load) : Share(other[i], f) = Share(load[i], f)
    PROVE  SumOf(other, f) = SumOf(load, f)
<1> DEFINE S == 1..Len(load)
           fun == Shares(load, f)
           gun == Shares(other, f)
<1>1. Selecting!IsFiniteSet(S)
    BY FinitePositions
<1>2. \A i \in S : fun[i] = gun[i] /\ fun[i] \in Int
    BY SumOfIs
<1>3. SumOf(load, f) = Selecting!Sum(fun, S) /\ SumOf(other, f) = Selecting!Sum(gun, S)
    BY SumOfIs
<1> HIDE DEF S, fun, gun
<1>4. Selecting!Sum(fun, S) = Selecting!Sum(gun, S)
    BY <1>1, <1>2, Selecting!SumSame
<1> QED
    BY <1>3, <1>4

\* Goods are replaced by others.
LEMMA SumOfChanged ==
    ASSUME NEW f, NEW load \in Seq(Goods), NEW j \in DOMAIN load, NEW g \in Goods
    PROVE  /\ [load EXCEPT ![j] = g] \in Seq(Goods)
           /\ SumOf([load EXCEPT ![j] = g], f) = SumOf(load, f) - Share(load[j], f) + Share(g, f)
<1> DEFINE other == [load EXCEPT ![j] = g]
           S == 1..Len(load)
           fun == Shares(load, f)
           gun == Shares(other, f)
<1>1. /\ other \in Seq(Goods) /\ Len(other) = Len(load) /\ j \in S
      /\ other[j] = g /\ \A i \in S : i # j => other[i] = load[i]
    OBVIOUS
<1> HIDE DEF other
<1>2. Selecting!IsFiniteSet(S)
    BY FinitePositions
<1>3. /\ SumOf(load, f) = Selecting!Sum(fun, S)
      /\ \A i \in S : fun[i] = Share(load[i], f) /\ fun[i] \in Int
    BY SumOfIs
<1>4. /\ SumOf(other, f) = Selecting!Sum(gun, S)
      /\ \A i \in S : gun[i] = Share(other[i], f) /\ gun[i] \in Int
    BY <1>1, SumOfIs
<1>5. /\ \A i \in S : fun[i] \in Int
      /\ \A i \in S : gun[i] \in Int
      /\ \A i \in S \ {j} : fun[i] = gun[i]
    BY <1>1, <1>3, <1>4
<1>6. fun[j] = Share(load[j], f) /\ gun[j] = Share(g, f)
    BY <1>1, <1>3, <1>4
<1> HIDE DEF S, fun, gun
<1>7. Selecting!Changed(fun, gun, S, j)
    BY <1>1, <1>2, <1>5, Selecting!SumChanged
<1>8. Selecting!Sum(gun, S) = Selecting!Sum(fun, S) - fun[j] + gun[j]
    BY <1>7 DEF Selecting!Changed
<1> QED
    BY <1>1, <1>3, <1>4, <1>6, <1>8 DEF other

\* What counts for f is a total, of what is left when the others are taken as nothing.
Parts(load, f) == [i \in DOMAIN load |-> [load[i] EXCEPT !.amount = Share(load[i], f)]]

\* A part of some goods.
LEMMA PartIn ==
    ASSUME NEW g \in Goods, NEW f
    PROVE  /\ [g EXCEPT !.amount = Share(g, f)] \in Goods
           /\ [g EXCEPT !.amount = Share(g, f)].amount = Share(g, f)
<1> DEFINE n == Share(g, f)
<1>1. n \in Nat
    BY ShareIn
<1> HIDE DEF n
<1>2. [g EXCEPT !.amount = n] \in Goods /\ [g EXCEPT !.amount = n].amount = n
    BY <1>1 DEF Goods
<1> QED
    BY <1>2 DEF n

\* The parts of goods are goods.
LEMMA PartsIn ==
    ASSUME NEW load \in Seq(Goods), NEW f
    PROVE  /\ Parts(load, f) \in Seq(Goods) /\ Len(Parts(load, f)) = Len(load)
           /\ \A i \in 1..Len(load) : /\ Parts(load, f)[i] = [load[i] EXCEPT !.amount = Share(load[i], f)]
                                      /\ Parts(load, f)[i].amount = Share(load[i], f)
           /\ SumOf(load, f) = Total(Parts(load, f))
<1> DEFINE N == Len(load)
           parts == Parts(load, f)
<1>1. N \in Nat /\ DOMAIN load = 1..N /\ \A i \in 1..N : load[i] \in Goods
    OBVIOUS
<1> HIDE DEF N
<1>2. parts = [i \in 1..N |-> [load[i] EXCEPT !.amount = Share(load[i], f)]]
    BY <1>1 DEF Parts
<1> HIDE DEF parts
<1>3. \A i \in 1..N : /\ parts[i] = [load[i] EXCEPT !.amount = Share(load[i], f)]
                      /\ parts[i].amount = Share(load[i], f) /\ parts[i] \in Goods
    BY <1>1, <1>2, PartIn
<1>4. parts \in Seq(Goods) /\ Len(parts) = N /\ DOMAIN parts = 1..N
    BY <1>1, <1>2, <1>3
<1>5. [i \in DOMAIN parts |-> parts[i].amount] = [i \in DOMAIN load |-> IF load[i].factory = f THEN load[i].amount ELSE 0]
    BY <1>1, <1>3, <1>4 DEF Share
<1>6. SumOf(load, f) = Total(parts)
    BY <1>5 DEF SumOf, Total
<1> QED
    BY <1>3, <1>4, <1>6 DEF parts, N

\* What is put on top of the others counts with them,
LEMMA SumOfAppend ==
    ASSUME NEW load \in Seq(Goods), NEW g \in Goods, NEW f
    PROVE  SumOf(Append(load, g), f) = SumOf(load, f) + Share(g, f)
<1> DEFINE more == Append(load, g)
           part == [g EXCEPT !.amount = Share(g, f)]
           N == Len(load)
<1>1. /\ more \in Seq(Goods) /\ N \in Nat /\ Len(more) = N + 1 /\ more[N + 1] = g
      /\ \A i \in 1..N : more[i] = load[i]
    OBVIOUS
<1> HIDE DEF more, N
<1>2. part \in Goods /\ part.amount = Share(g, f)
    BY PartIn
<1>3. /\ Parts(load, f) \in Seq(Goods) /\ Len(Parts(load, f)) = N
      /\ \A i \in 1..N : Parts(load, f)[i] = [load[i] EXCEPT !.amount = Share(load[i], f)]
      /\ SumOf(load, f) = Total(Parts(load, f))
    BY PartsIn DEF N
<1>4. /\ Parts(more, f) \in Seq(Goods) /\ Len(Parts(more, f)) = N + 1
      /\ \A i \in 1..(N + 1) : Parts(more, f)[i] = [more[i] EXCEPT !.amount = Share(more[i], f)]
      /\ SumOf(more, f) = Total(Parts(more, f))
    BY <1>1, PartsIn
<1>5. N + 1 \in 1..(N + 1) /\ \A i \in 1..N : i \in 1..(N + 1)
    BY <1>1
<1>6. /\ Parts(more, f)[N + 1] = part
      /\ \A i \in 1..N : Parts(more, f)[i] = Parts(load, f)[i]
    <2>1. Parts(more, f)[N + 1] = [more[N + 1] EXCEPT !.amount = Share(more[N + 1], f)]
        BY <1>4, <1>5
    <2>2. ASSUME NEW i \in 1..N PROVE Parts(more, f)[i] = Parts(load, f)[i]
        <3>1. Parts(more, f)[i] = [more[i] EXCEPT !.amount = Share(more[i], f)]
            BY <1>4, <1>5
        <3>2. Parts(load, f)[i] = [load[i] EXCEPT !.amount = Share(load[i], f)] /\ more[i] = load[i]
            BY <1>1, <1>3
        <3> QED
            BY <3>1, <3>2
    <2> QED
        BY <1>1, <2>1, <2>2
<1> HIDE DEF part
<1> DEFINE a == Parts(more, f)
           b == Parts(load, f)
<1>7. a = Append(b, part)
    <2> HIDE DEF a, b
    <2>1. /\ a \in Seq(Goods) /\ Len(a) = N + 1 /\ b \in Seq(Goods) /\ Len(b) = N
          /\ a[N + 1] = part /\ \A i \in 1..N : a[i] = b[i]
        BY <1>3, <1>4, <1>6 DEF a, b
    <2> QED
        BY <1>1, <1>2, <2>1
<1>8. Total(Append(b, part)) = Total(b) + part.amount
    BY <1>2, <1>3, TotalAppend
<1> QED
    BY <1>2, <1>3, <1>4, <1>7, <1>8 DEF more

\* and so does what is put before them.
LEMMA SumOfInserted ==
    ASSUME NEW load \in Seq(Goods), NEW g \in Goods, NEW f
    PROVE  SumOf(<<g>> \o load, f) = SumOf(load, f) + Share(g, f)
<1> DEFINE more == <<g>> \o load
           part == [g EXCEPT !.amount = Share(g, f)]
           N == Len(load)
<1>1. /\ more \in Seq(Goods) /\ N \in Nat /\ Len(more) = N + 1 /\ more[1] = g
      /\ \A i \in 1..N : more[i + 1] = load[i]
    OBVIOUS
<1> HIDE DEF more, N
<1>2. part \in Goods /\ part.amount = Share(g, f) /\ Share(g, f) \in Int
    BY PartIn, ShareIn
<1>3. /\ Parts(load, f) \in Seq(Goods) /\ Len(Parts(load, f)) = N
      /\ \A i \in 1..N : Parts(load, f)[i] = [load[i] EXCEPT !.amount = Share(load[i], f)]
      /\ SumOf(load, f) = Total(Parts(load, f))
    BY PartsIn DEF N
<1>4. /\ Parts(more, f) \in Seq(Goods) /\ Len(Parts(more, f)) = N + 1
      /\ \A i \in 1..(N + 1) : Parts(more, f)[i] = [more[i] EXCEPT !.amount = Share(more[i], f)]
      /\ SumOf(more, f) = Total(Parts(more, f))
    BY <1>1, PartsIn
<1>5. 1 \in 1..(N + 1) /\ \A i \in 1..N : i + 1 \in 1..(N + 1)
    BY <1>1
<1>6. /\ Parts(more, f)[1] = part
      /\ \A i \in 1..N : Parts(more, f)[i + 1] = Parts(load, f)[i]
    <2>1. Parts(more, f)[1] = [more[1] EXCEPT !.amount = Share(more[1], f)]
        BY <1>4, <1>5
    <2>2. ASSUME NEW i \in 1..N PROVE Parts(more, f)[i + 1] = Parts(load, f)[i]
        <3>1. Parts(more, f)[i + 1] = [more[i + 1] EXCEPT !.amount = Share(more[i + 1], f)]
            BY <1>4, <1>5
        <3>2. Parts(load, f)[i] = [load[i] EXCEPT !.amount = Share(load[i], f)] /\ more[i + 1] = load[i]
            BY <1>1, <1>3
        <3> QED
            BY <3>1, <3>2
    <2> QED
        BY <1>1, <2>1, <2>2
<1> HIDE DEF part
<1> DEFINE a == Parts(more, f)
           b == Parts(load, f)
<1>7. a = <<part>> \o b
    <2> HIDE DEF a, b
    <2>1. /\ a \in Seq(Goods) /\ Len(a) = N + 1 /\ b \in Seq(Goods) /\ Len(b) = N
          /\ a[1] = part /\ \A i \in 1..N : a[i + 1] = b[i]
        BY <1>3, <1>4, <1>6 DEF a, b
    <2> DEFINE c == <<part>> \o b
    <2>2. c \in Seq(Goods) /\ Len(c) = N + 1 /\ c[1] = part /\ \A i \in 1..N : c[i + 1] = b[i]
        BY <1>1, <1>2, <2>1
    <2> HIDE DEF c
    <2>3. \A i \in 1..(N + 1) : a[i] = c[i]
        <3>1. ASSUME NEW i \in 1..(N + 1), i # 1 PROVE i - 1 \in 1..N /\ (i - 1) + 1 = i
            BY <1>1, <3>1
        <3> QED
            BY <2>1, <2>2, <3>1
    <2>4. a = c
        BY <1>1, <2>1, <2>2, <2>3
    <2> QED
        BY <2>4 DEF c
<1>8. Total(<<part>> \o b) = part.amount + Total(b) /\ Total(b) \in Nat
    BY <1>2, <1>3, TotalInserted, TotalIs
<1> HIDE DEF a, b
<1>9. SumOf(more, f) = Total(a) /\ SumOf(load, f) = Total(b)
    BY <1>3, <1>4 DEF a, b
<1>10. Total(a) = Share(g, f) + Total(b)
    BY <1>2, <1>7, <1>8
<1>11. SumOf(more, f) = SumOf(load, f) + Share(g, f)
    BY <1>2, <1>8, <1>9, <1>10
<1> QED
    BY <1>11 DEF more

\* What waits for f is a natural number of goods, none in an empty queue.
LEMMA WaitsIn ==
    ASSUME NEW queue \in Seq(Filed), NEW f
    PROVE  Waits(queue, f) \in Nat /\ Waits(<<>>, f) = 0
<1>1. GoodsOf(queue) \in Seq(Goods)
    BY GoodsOfIn
<1>2. GoodsOf(<<>>) = <<>>
    BY DEF GoodsOf
<1> QED
    BY <1>1, <1>2, SumOfIn, SumOfNone DEF Waits

\* One more item in a queue.
LEMMA WaitsAppend ==
    ASSUME NEW queue \in Seq(Filed), NEW x \in Filed, NEW f
    PROVE  Waits(Append(queue, x), f) = Waits(queue, f) + Share(x.goods, f)
<1> DEFINE load == GoodsOf(queue)
           more == GoodsOf(Append(queue, x))
           N == Len(queue)
<1>1. x.goods \in Goods /\ load \in Seq(Goods)
    BY FiledIs, GoodsOfIn
<1>2. more = Append(load, x.goods)
    <2>1. /\ N \in Nat /\ Len(Append(queue, x)) = N + 1 /\ DOMAIN Append(queue, x) = 1..(N + 1)
          /\ Append(queue, x)[N + 1] = x /\ \A i \in 1..N : Append(queue, x)[i] = queue[i]
          /\ DOMAIN queue = 1..N
        OBVIOUS
    <2> DEFINE longer == Append(queue, x)
    <2> HIDE DEF N, longer
    <2>2. more = [i \in 1..(N + 1) |-> longer[i].goods]
        BY <2>1 DEF GoodsOf, longer
    <2>3. load = [i \in 1..N |-> queue[i].goods]
        BY <2>1 DEF GoodsOf
    <2> HIDE DEF load, more
    <2>4. Len(load) = N /\ Append(load, x.goods) = [i \in 1..(N + 1) |-> IF i = N + 1 THEN x.goods ELSE load[i]]
        BY <1>1, <2>1, <2>3
    <2>5. \A i \in 1..(N + 1) : longer[i].goods = IF i = N + 1 THEN x.goods ELSE load[i]
        BY <2>1, <2>3 DEF longer
    <2> QED
        BY <2>2, <2>4, <2>5
<1> HIDE DEF load, more
<1>3. SumOf(Append(load, x.goods), f) = SumOf(load, f) + Share(x.goods, f)
    BY <1>1, SumOfAppend
<1> QED
    BY <1>2, <1>3 DEF Waits, load, more

\* One item becomes another.
LEMMA WaitsChanged ==
    ASSUME NEW queue \in Seq(Filed), NEW j \in DOMAIN queue, NEW x \in Filed, NEW f
    PROVE  /\ [queue EXCEPT ![j] = x] \in Seq(Filed)
           /\ Waits([queue EXCEPT ![j] = x], f)
              = Waits(queue, f) - Share(queue[j].goods, f) + Share(x.goods, f)
<1> DEFINE load == GoodsOf(queue)
           other == [queue EXCEPT ![j] = x]
           new == GoodsOf(other)
           g == x.goods
<1>1. g \in Goods /\ load \in Seq(Goods)
    BY FiledIs, GoodsOfIn
<1>2. other \in Seq(Filed)
    OBVIOUS
<1>3. DOMAIN load = DOMAIN queue /\ j \in DOMAIN load /\ load[j] = queue[j].goods
    BY DEF GoodsOf
<1>4. new = [load EXCEPT ![j] = g]
    BY DEF GoodsOf
<1> HIDE DEF load, new, g
<1>5. SumOf([load EXCEPT ![j] = g], f) = SumOf(load, f) - Share(load[j], f) + Share(g, f)
    BY <1>1, <1>3, SumOfChanged
<1>6. SumOf(new, f) = SumOf(load, f) - Share(queue[j].goods, f) + Share(g, f)
    BY <1>3, <1>4, <1>5
<1> QED
    BY <1>2, <1>6 DEF Waits, load, new, g

\* Goods that join others count with them (vereinige_waren),
LEMMA JoinedCounts ==
    ASSUME NEW h, NEW queue \in Seq(Filed), NEW g \in Goods, Joinable(queue, g) # {}, NEW f
    PROVE  Waits(VereinigeWaren(h, queue, g), f) = Waits(queue, f) + Share(g, f)
<1> DEFINE i == First(Joinable(queue, g))
           there == queue[i].goods
           newer == g.via \in Alive /\ g.via # h
           more == [there EXCEPT !.amount = @ + g.amount,
                                 !.via = IF newer THEN g.via ELSE @]
           new == IF newer THEN Indexed(more) ELSE [queue[i] EXCEPT !.goods = more]
<1>1. i \in DOMAIN queue /\ queue[i] \in Filed /\ there.factory = g.factory
    <2>1. Joinable(queue, g) \subseteq DOMAIN queue
        BY DEF Joinable
    <2>2. i \in DOMAIN queue /\ i \in Joinable(queue, g)
        BY <2>1, JoinableFirst
    <2> HIDE DEF i
    <2> QED
        BY <2>2 DEF Joinable
<1>2. VereinigeWaren(h, queue, g) = [queue EXCEPT ![i] = new]
    BY DEF VereinigeWaren
<1> HIDE DEF i
<1>3. there \in Goods /\ queue[i] = Indexed(there)
    BY <1>1, FiledIs
<1>4. /\ more \in Goods /\ (~newer => more.ziel = there.ziel /\ more.via = there.via)
      /\ more.amount = there.amount + g.amount /\ more.factory = there.factory
    <2> HIDE DEF there, newer
    <2> DEFINE via == IF newer THEN g.via ELSE there.via
    <2>1. via \in Target /\ there.amount + g.amount \in Nat /\ (~newer => via = there.via)
        BY <1>3 DEF Goods
    <2>2. more = [there EXCEPT !.amount = there.amount + g.amount, !.via = via]
        OBVIOUS
    <2> HIDE DEF via, more
    <2>3. \A n \in Nat, v \in Target :
              LET m == [there EXCEPT !.amount = n, !.via = v]
              IN  m \in Goods /\ m.ziel = there.ziel /\ m.via = v /\ m.amount = n
                  /\ m.factory = there.factory
        BY <1>3 DEF Goods
    <2> QED
        BY <2>1, <2>2, <2>3
<1>5. ~newer => new = Indexed(more)
    <2>1. queue[i] = [goods |-> there, at |-> [ziel |-> there.ziel, via |-> there.via]]
        BY <1>3 DEF Indexed
    <2> HIDE DEF more, there, newer
    <2>2. [queue[i] EXCEPT !.goods = more] = [goods |-> more, at |-> [ziel |-> there.ziel, via |-> there.via]]
        BY <2>1
    <2> QED
        BY <1>4, <2>2 DEF Indexed
<1> HIDE DEF more
<1>6. new \in Filed /\ new.goods = more
    BY <1>4, <1>5, FiledIs
<1>7. Share(more, f) = Share(there, f) + Share(g, f) /\ Share(there, f) \in Int /\ Share(g, f) \in Int
    <2>1. there.amount \in Nat /\ g.amount \in Nat
        BY <1>3, LessAmount
    <2> HIDE DEF there
    <2> QED
        BY <1>1, <1>4, <2>1 DEF Share, there
<1> HIDE DEF new
<1>8. Waits([queue EXCEPT ![i] = new], f) = Waits(queue, f) - Share(there, f) + Share(new.goods, f)
    BY <1>1, <1>6, WaitsChanged
<1>9. Waits(queue, f) \in Int
    BY WaitsIn
<1> HIDE DEF there
<1> QED
    BY <1>2, <1>6, <1>7, <1>8, <1>9

\* and with a queue (add_ware_to_halt).
LEMMA QueuedCounts ==
    ASSUME NEW h, NEW queue \in Seq(Filed), NEW g \in Goods, NEW f
    PROVE  Waits(Queued(h, queue, g), f) = Waits(queue, f) + Share(g, f)
<1>1. Waits(Append(queue, Indexed(g)), f) = Waits(queue, f) + Share(g, f)
    BY FiledIs, WaitsAppend
<1> QED
    BY <1>1, JoinedCounts DEF Queued

------------------------------------------------------------------------------
(* What a stop has that nobody counts.                                      *)

\* More goods for f wait than f knows of.
Excess(side, f) == Waits(side.queue, f) - side.transit[f]

\* The parts of a changed side.
LEMMA SideChanged ==
    ASSUME NEW side \in Sides, NEW x
    PROVE  /\ WithQueue(side, x).queue = x /\ WithQueue(side, x).search = side.search
           /\ WithQueue(side, x).transit = side.transit
           /\ WithSearch(side, x).search = x /\ WithSearch(side, x).queue = side.queue
           /\ WithSearch(side, x).transit = side.transit
           /\ WithTransit(side, x).transit = x /\ WithTransit(side, x).queue = side.queue
           /\ WithTransit(side, x).search = side.search
BY DEF Sides, WithQueue, WithSearch, WithTransit

\* A counter that is told of goods that are gone.
LEMMA ToldCounts ==
    ASSUME NEW counter \in Counters, NEW g \in Goods, NEW f \in Factory, f \in factories
    PROVE  Told(counter, g.factory, -g.amount)[f] = counter[f] - Share(g, f)
<1>1. counter[f] \in Int /\ g.amount \in Nat
    BY LessAmount DEF Counters
<1>2. CASE g.factory = f
    BY <1>1, <1>2 DEF Told, Share, Counters
<1>3. CASE g.factory # f
    BY <1>1, <1>3 DEF Told, Share, Counters
<1> QED
    BY <1>2, <1>3

\* The parts of an excess are numbers.
LEMMA ExcessIn ==
    ASSUME NEW side \in Sides, NEW f \in Factory
    PROVE  /\ Excess(side, f) \in Int /\ Waits(side.queue, f) \in Int /\ side.transit[f] \in Int
<1>1. side.queue \in Seq(Filed) /\ side.transit[f] \in Int
    BY SideParts DEF Counters
<1> QED
    BY <1>1, WaitsIn DEF Excess

\* Goods that are gone and told of,
LEMMA ExcessTold ==
    ASSUME NEW side \in Sides, NEW g \in Goods, NEW f \in Factory, f \in factories
    PROVE  Excess(WithTransit(side, Told(side.transit, g.factory, -g.amount)), f)
           = Excess(side, f) + Share(g, f)
<1> DEFINE told == Told(side.transit, g.factory, -g.amount)
<1>1. told[f] = side.transit[f] - Share(g, f)
    BY SideParts, ToldCounts
<1> HIDE DEF told
<1>2. /\ WithTransit(side, told).queue = side.queue
      /\ WithTransit(side, told).transit = told
    BY SideChanged
<1>3. Waits(side.queue, f) \in Int /\ side.transit[f] \in Int /\ Share(g, f) \in Int
    BY ExcessIn, ShareIn
<1>4. Excess(WithTransit(side, told), f) = Excess(side, f) + Share(g, f)
    BY <1>1, <1>2, <1>3 DEF Excess
<1> QED
    BY <1>4 DEF told

\* goods that wait,
LEMMA ExcessQueued ==
    ASSUME NEW side \in Sides, NEW queue \in Seq(Filed), NEW n \in Int, NEW f \in Factory,
           Waits(queue, f) = Waits(side.queue, f) + n
    PROVE  Excess(WithQueue(side, queue), f) = Excess(side, f) + n
<1>1. /\ WithQueue(side, queue).queue = queue
      /\ WithQueue(side, queue).transit = side.transit
    BY SideChanged
<1>2. Waits(side.queue, f) \in Int /\ side.transit[f] \in Int
    BY ExcessIn
<1> QED
    BY <1>1, <1>2 DEF Excess

\* and a search.
LEMMA ExcessSearched ==
    ASSUME NEW side \in Sides, NEW s, NEW f
    PROVE  Excess(WithSearch(side, s), f) = Excess(side, f)
BY SideChanged DEF Excess

\* A sum is the same, for whichever loop it is taken.
LEMMA SumsAgree ==
    ASSUME NEW fun, NEW S
    PROVE  /\ Routing!Sum(fun, S) = Selecting!Sum(fun, S)
           /\ Rerouting!Sum(fun, S) = Selecting!Sum(fun, S)
           /\ Unloading!Sum(fun, S) = Selecting!Sum(fun, S)
           /\ Joining!Sum(fun, S) = Selecting!Sum(fun, S)
BY DEF Selecting!Sum, Selecting!SumFunctionOnSet, Selecting!FoldFunctionOnSet, Selecting!MapThenFoldSet,
       Routing!Sum, Routing!SumFunctionOnSet, Routing!FoldFunctionOnSet, Routing!MapThenFoldSet,
       Rerouting!Sum, Rerouting!SumFunctionOnSet, Rerouting!FoldFunctionOnSet, Rerouting!MapThenFoldSet,
       Unloading!Sum, Unloading!SumFunctionOnSet, Unloading!FoldFunctionOnSet, Unloading!MapThenFoldSet,
       Joining!Sum, Joining!SumFunctionOnSet, Joining!FoldFunctionOnSet, Joining!MapThenFoldSet

\* The shares of what waits.
LEMMA WaitsIs ==
    ASSUME NEW queue \in Seq(Filed), NEW f
    PROVE  /\ Waits(queue, f) = Selecting!Sum(Shares(GoodsOf(queue), f), 1..Len(queue))
           /\ \A i \in 1..Len(queue) : /\ Shares(GoodsOf(queue), f)[i] = Share(queue[i].goods, f)
                                       /\ Shares(GoodsOf(queue), f)[i] \in Int
<1> DEFINE load == GoodsOf(queue)
<1>1. load \in Seq(Goods) /\ Len(load) = Len(queue) /\ \A i \in 1..Len(queue) : load[i] = queue[i].goods
    <2>1. load \in Seq(Goods)
        BY GoodsOfIn
    <2>2. DOMAIN load = DOMAIN queue /\ \A i \in DOMAIN queue : load[i] = queue[i].goods
        BY DEF GoodsOf
    <2> HIDE DEF load
    <2> QED
        BY <2>1, <2>2
<1> HIDE DEF load
<1>2. /\ SumOf(load, f) = Selecting!Sum(Shares(load, f), 1..Len(load))
      /\ \A i \in 1..Len(load) : Shares(load, f)[i] = Share(load[i], f) /\ Shares(load, f)[i] \in Int
    BY <1>1, SumOfIs
<1> QED
    BY <1>1, <1>2 DEF Waits, load

------------------------------------------------------------------------------
(* A search that knows of a stop goes on knowing it.                        *)

Good(s, h, f) == s.origin = h /\ \E d \in HaltsAt(Covers[f]) : s.known[d] # NoHalt

\* Whoever searches from there next keeps what is known,
LEMMA GoodStays ==
    ASSUME NEW s, NEW h, NEW g, NEW e, NEW f, Good(s, h, f)
    PROVE  Good(SearchRouteResumable(s, h, g, e).search, h, f)
<1>1. s.origin = h
    BY DEF Good
<1>2. SearchRouteResumable(s, h, g, e).search = [origin |-> h, known |-> s.known]
    BY <1>1 DEF SearchRouteResumable
<1> QED
    BY <1>1, <1>2 DEF Good

\* and finds a stop for goods of f.
LEMMA GoodFinds ==
    ASSUME NEW s, NEW h \in Alive, NEW g \in Goods, NEW e, Good(s, h, g.factory)
    PROVE  SearchRouteResumable(s, h, g, e).goods.ziel \in Alive
<1> DEFINE ends == HaltsAt(Covers[g.factory])
           marked == {d \in ends : s.known[d] # NoHalt}
           d == CHOOSE x \in marked : TRUE
           r == SearchRouteResumable(s, h, g, e)
<1>1. marked # {} /\ s.origin = h
    BY DEF Good
<1>2. d \in ends
    BY <1>1
<1>3. ends \subseteq Alive
    <2>1. Covers[g.factory] \subseteq Place
        BY FreightAssumption DEF Goods
    <2> QED
        BY <2>1 DEF HaltsAt, Alive
<1>4. r.goods = Routed(g, h, NoHalt) \/ r.goods = Routed(g, d, s.known[d])
    BY <1>1 DEF SearchRouteResumable
<1>5. \A x, y : Routed(g, x, y).ziel = x
    BY DEF Routed, Goods
<1> HIDE DEF d, ends, r
<1>6. r.goods.ziel \in Alive
    BY <1>2, <1>3, <1>4, <1>5
<1> QED
    BY <1>6 DEF r

\* Whatever a search found a stop for can be found again.
LEMMA GoodBegins ==
    ASSUME NEW s, NEW h, NEW g \in Goods, NEW e, ~Connected(h, g.factory),
           SearchRouteResumable(s, h, g, e).goods.ziel # NoHalt
    PROVE  Good(SearchRouteResumable(s, h, g, e).search, h, g.factory)
<1> DEFINE ends == HaltsAt(Covers[g.factory])
           known == IF s.origin = h THEN s.known ELSE Nothing
           Marked(k) == {d \in ends : k[d] # NoHalt}
           some == {d \in Marked(e) : SameComponent(h, d)}
           r == SearchRouteResumable(s, h, g, e)
<1>1. h \notin ends
    BY DEF Connected
<1>2. Routed(g, NoHalt, NoHalt).ziel = NoHalt
    BY DEF Routed, Goods
<1>3. \/ r.search = [origin |-> h, known |-> known] /\ (Marked(known) = {} => r.goods = Routed(g, NoHalt, NoHalt))
      \/ r.search = [origin |-> h, known |-> e] /\ (some = {} => r.goods = Routed(g, NoHalt, NoHalt))
    BY <1>1 DEF SearchRouteResumable
<1>4. r.goods.ziel # NoHalt
    OBVIOUS
<1> HIDE DEF r, known
<1>5. \/ r.search = [origin |-> h, known |-> known] /\ Marked(known) # {}
      \/ r.search = [origin |-> h, known |-> e] /\ Marked(e) # {}
    BY <1>2, <1>3, <1>4
<1>6. Good(r.search, h, g.factory)
    BY <1>5 DEF Good
<1> QED
    BY <1>6 DEF r

------------------------------------------------------------------------------
(* Goods that arrive at a stop, or start there.                             *)

\* starte_mit_route counts, or tells.
LEMMA StarteCounts ==
    ASSUME NEW side \in Sides, NEW h, NEW g \in Goods, NEW f \in Factory, f \in factories
    PROVE  Excess(StarteMitRoute(side, h, g), f) = Excess(side, f) + Share(g, f)
<1> DEFINE told == Told(side.transit, g.factory, -g.amount)
           queue == Queued(h, side.queue, g)
<1>1. \/ StarteMitRoute(side, h, g) = WithTransit(side, told)
      \/ StarteMitRoute(side, h, g) = WithQueue(side, queue)
    BY DEF StarteMitRoute, WithQueue, WithTransit
<1>2. Excess(WithTransit(side, told), f) = Excess(side, f) + Share(g, f)
    BY ExcessTold
<1>3. side.queue \in Seq(Filed)
    BY SideParts
<1>4. queue \in Seq(Filed) /\ Waits(queue, f) = Waits(side.queue, f) + Share(g, f)
    BY <1>3, QueuedIn, QueuedCounts
<1> HIDE DEF told, queue
<1>5. Excess(WithQueue(side, queue), f) = Excess(side, f) + Share(g, f)
    BY <1>4, ShareIn, ExcessQueued
<1> QED
    BY <1>1, <1>2, <1>5

\* So does liefere_an.
LEMMA LiefereCounts ==
    ASSUME OnMap, NEW side \in Sides, NEW h \in Halt, NEW g \in Goods, NEW e \in [Halt -> Target],
           NEW f \in Factory, f \in factories
    PROVE  Excess(LiefereAn(side, h, g, e), f) = Excess(side, f) + Share(g, f)
<1> DEFINE t == SearchRouteResumable(side.search, h, g, e)
           told == Told(side.transit, g.factory, -g.amount)
           joined == VereinigeWaren(h, side.queue, g)
           queue == IF t.goods.ziel # g.ziel THEN Queued(h, side.queue, t.goods)
                    ELSE Append(side.queue, Indexed(t.goods))
           found == WithSearch(side, t.search)
<1>1. side.queue \in Seq(Filed) /\ side.search \in Searches /\ side.transit \in Counters
    BY SideParts
<1>2. /\ t.search \in Searches /\ t.goods \in Goods
      /\ t.goods.amount = g.amount /\ t.goods.factory = g.factory
    BY <1>1, SearchAnswers DEF Answer
<1>3. \/ LiefereAn(side, h, g, e) = WithTransit(side, told)
      \/ Joinable(side.queue, g) # {} /\ LiefereAn(side, h, g, e) = WithQueue(side, joined)
      \/ LiefereAn(side, h, g, e) = WithTransit(found, told)
      \/ LiefereAn(side, h, g, e) = WithQueue(found, queue)
    BY DEF LiefereAn, WithQueue, WithSearch, WithTransit
<1>4. /\ found \in Sides /\ found.queue = side.queue /\ found.transit = side.transit
      /\ Excess(found, f) = Excess(side, f)
    BY <1>2, SideSearch, SideChanged, ExcessSearched
<1>5. Excess(WithTransit(side, told), f) = Excess(side, f) + Share(g, f)
    BY ExcessTold
<1> HIDE DEF found
<1>6. Excess(WithTransit(found, told), f) = Excess(side, f) + Share(g, f)
    BY <1>4, ExcessTold
<1>7. Share(t.goods, f) = Share(g, f) /\ Share(g, f) \in Int
    BY <1>2, ShareIn DEF Share
<1> HIDE DEF t
<1>8. queue \in Seq(Filed) /\ Waits(queue, f) = Waits(side.queue, f) + Share(g, f)
    <2>1. CASE t.goods.ziel # g.ziel
        BY <1>1, <1>2, <1>7, <2>1, QueuedIn, QueuedCounts
    <2>2. CASE t.goods.ziel = g.ziel
        <3>1. Indexed(t.goods) \in Filed /\ Indexed(t.goods).goods = t.goods
            BY <1>2, FiledIs
        <3>2. Waits(Append(side.queue, Indexed(t.goods)), f) = Waits(side.queue, f) + Share(t.goods, f)
            BY <1>1, <3>1, WaitsAppend
        <3> QED
            BY <1>1, <1>7, <2>2, <3>1, <3>2
    <2> QED
        BY <2>1, <2>2
<1>9. Joinable(side.queue, g) # {} =>
         joined \in Seq(Filed) /\ Waits(joined, f) = Waits(side.queue, f) + Share(g, f)
    BY <1>1, Joined, JoinedCounts
<1> HIDE DEF told, joined, queue
<1>10. Joinable(side.queue, g) # {} => Excess(WithQueue(side, joined), f) = Excess(side, f) + Share(g, f)
    BY <1>7, <1>9, ExcessQueued
<1>11. Excess(WithQueue(found, queue), f) = Excess(side, f) + Share(g, f)
    <2>1. Waits(queue, f) = Waits(found.queue, f) + Share(g, f)
        BY <1>4, <1>8
    <2>2. Excess(WithQueue(found, queue), f) = Excess(found, f) + Share(g, f)
        BY <1>4, <1>7, <1>8, <2>1, ExcessQueued
    <2> QED
        BY <1>4, <2>2
<1> QED
    BY <1>3, <1>5, <1>6, <1>10, <1>11

------------------------------------------------------------------------------
(* Goods that wait for a stop that is gone.                                 *)

\* None of f's goods waits for a stop that is gone.
NoneLost(queue, f) == \A i \in DOMAIN queue : queue[i].goods.factory = f => queue[i].at.via \in Alive

\* None of f's goods at h has no route.
Safe(side, h, f) == Good(side.search, h, f) \/ NoneLost(side.queue, f)

\* Goods that are joined take a stop that is there, or none.
LEMMA JoinedSafe ==
    ASSUME NEW h, NEW queue \in Seq(Filed), NEW g \in Goods, Joinable(queue, g) # {}, NEW f,
           NoneLost(queue, f)
    PROVE  NoneLost(VereinigeWaren(h, queue, g), f)
<1> DEFINE i == First(Joinable(queue, g))
           there == queue[i].goods
           newer == g.via \in Alive /\ g.via # h
           more == [there EXCEPT !.amount = @ + g.amount,
                                 !.via = IF newer THEN g.via ELSE @]
           new == IF newer THEN Indexed(more) ELSE [queue[i] EXCEPT !.goods = more]
<1>1. i \in DOMAIN queue /\ queue[i] \in Filed
    <2>1. Joinable(queue, g) \subseteq DOMAIN queue
        BY DEF Joinable
    <2>2. i \in DOMAIN queue
        BY <2>1, JoinableFirst
    <2> HIDE DEF i
    <2> QED
        BY <2>2
<1>2. VereinigeWaren(h, queue, g) = [queue EXCEPT ![i] = new]
    BY DEF VereinigeWaren
<1> HIDE DEF i
<1>3. there \in Goods /\ queue[i] = Indexed(there)
    BY <1>1, FiledIs
<1>4. more.factory = there.factory /\ (newer => more.via = g.via)
    <2> HIDE DEF there, newer
    <2> DEFINE via == IF newer THEN g.via ELSE there.via
    <2>2. more = [there EXCEPT !.amount = there.amount + g.amount, !.via = via]
        OBVIOUS
    <2>1. newer => via = g.via
        OBVIOUS
    <2> HIDE DEF via, more
    <2>3. \A n, v : LET m == [there EXCEPT !.amount = n, !.via = v]
                    IN  m.factory = there.factory /\ m.via = v
        BY <1>3 DEF Goods
    <2> QED
        BY <2>1, <2>2, <2>3
<1>5. new.goods = more /\ (newer => new.at.via = more.via) /\ (~newer => new.at = queue[i].at)
    <2> HIDE DEF more, newer, there
    <2> QED
        BY <1>3 DEF Indexed
<1>6. new.goods.factory = f => new.at.via \in Alive
    <2> HIDE DEF more, new
    <2> QED
        BY <1>1, <1>4, <1>5 DEF NoneLost
<1> HIDE DEF new
<1> QED
    BY <1>1, <1>2, <1>6 DEF NoneLost

\* Goods of others, and goods with a stop, do no harm.
LEMMA AppendSafe ==
    ASSUME NEW queue \in Seq(Filed), NEW x \in Filed, NEW f, NoneLost(queue, f),
           x.goods.factory = f => x.at.via \in Alive
    PROVE  NoneLost(Append(queue, x), f)
<1> DEFINE N == Len(queue)
           more == Append(queue, x)
<1>1. /\ N \in Nat /\ DOMAIN queue = 1..N /\ DOMAIN more = 1..(N + 1) /\ more[N + 1] = x
      /\ \A i \in 1..N : more[i] = queue[i]
    OBVIOUS
<1> HIDE DEF N, more
<1>2. ASSUME NEW i \in 1..(N + 1), more[i].goods.factory = f PROVE more[i].at.via \in Alive
    <2>1. i = N + 1 \/ i \in 1..N
        BY <1>1
    <2> QED
        BY <1>1, <1>2, <2>1 DEF NoneLost
<1>3. NoneLost(more, f)
    BY <1>1, <1>2 DEF NoneLost
<1> QED
    BY <1>3 DEF more

\* Goods that liefere_an puts into the queue can be routed from there.
LEMMA LiefereSafe ==
    ASSUME OnMap, NEW side \in Sides, NEW h \in Halt, NEW g \in Goods, NEW e \in [Halt -> Target],
           NEW f, Safe(side, h, f)
    PROVE  Safe(LiefereAn(side, h, g, e), h, f)
<1> DEFINE t == SearchRouteResumable(side.search, h, g, e)
           told == Told(side.transit, g.factory, -g.amount)
           joined == VereinigeWaren(h, side.queue, g)
           queue == IF t.goods.ziel # g.ziel THEN Queued(h, side.queue, t.goods)
                    ELSE Append(side.queue, Indexed(t.goods))
           found == WithSearch(side, t.search)
<1>1. side.queue \in Seq(Filed) /\ side.search \in Searches
    BY SideParts
<1>2. /\ t.search \in Searches /\ t.goods \in Goods /\ t.goods.factory = g.factory
    BY <1>1, SearchAnswers DEF Answer
<1>3. \/ LiefereAn(side, h, g, e) = WithTransit(side, told)
      \/ Joinable(side.queue, g) # {} /\ LiefereAn(side, h, g, e) = WithQueue(side, joined)
      \/ LiefereAn(side, h, g, e) = WithTransit(found, told)
      \/ /\ ~Connected(h, g.factory) /\ t.goods.ziel # NoHalt
         /\ LiefereAn(side, h, g, e) = WithQueue(found, queue)
    BY DEF LiefereAn, WithQueue, WithSearch, WithTransit
<1>4. found \in Sides /\ found.queue = side.queue /\ found.search = t.search
    BY <1>2, SideSearch, SideChanged
<1>5. Good(side.search, h, f) => Good(t.search, h, f)
    BY GoodStays
<1>6. ~Connected(h, g.factory) /\ t.goods.ziel # NoHalt => Good(t.search, h, g.factory)
    BY GoodBegins
<1> HIDE DEF t, found, told
<1>7. Safe(WithTransit(side, told), h, f)
    BY SideChanged DEF Safe
<1>8. Safe(WithTransit(found, told), h, f)
    BY <1>4, <1>5, SideChanged DEF Safe
<1>9. ASSUME Joinable(side.queue, g) # {} PROVE Safe(WithQueue(side, joined), h, f)
    <2>1. /\ WithQueue(side, joined).queue = joined
          /\ WithQueue(side, joined).search = side.search
        BY SideChanged
    <2>2. NoneLost(side.queue, f) => NoneLost(joined, f)
        BY <1>1, <1>9, JoinedSafe
    <2> QED
        BY <2>1, <2>2 DEF Safe
<1>10. ASSUME ~Connected(h, g.factory), t.goods.ziel # NoHalt PROVE Safe(WithQueue(found, queue), h, f)
    <2>1. /\ WithQueue(found, queue).queue = queue
          /\ WithQueue(found, queue).search = t.search
        BY <1>4, SideChanged
    <2>2. CASE Good(side.search, h, f) \/ g.factory = f
        BY <1>5, <1>6, <1>10, <2>1, <2>2 DEF Safe
    <2>3. CASE NoneLost(side.queue, f) /\ g.factory # f
        <3>1. Indexed(t.goods) \in Filed /\ Indexed(t.goods).goods.factory # f
            BY <1>2, <2>3, FiledIs
        <3>2. NoneLost(Append(side.queue, Indexed(t.goods)), f)
            BY <1>1, <2>3, <3>1, AppendSafe
        <3>3. Joinable(side.queue, t.goods) # {} => NoneLost(VereinigeWaren(h, side.queue, t.goods), f)
            BY <1>1, <1>2, <2>3, JoinedSafe
        <3>4. NoneLost(queue, f)
            BY <3>2, <3>3 DEF Queued
        <3> HIDE DEF queue
        <3> QED
            BY <2>1, <3>4 DEF Safe
    <2> QED
        BY <2>2, <2>3 DEF Safe
<1> QED
    BY <1>3, <1>7, <1>8, <1>9, <1>10

\* What a convoy brings: goods that are unloaded count for f, or f is told of them.
Brought(s, f) == Excess(s.side, f) + SumOf(s.load, f)

\* unload_cargo, one cargo after the other,
LEMMA UnloadStepCounts ==
    ASSUME OnMap, NEW h \in Halt, NEW all, NEW e \in [Halt -> Target], NEW s \in Unloads, NEW g \in Goods,
           NEW f \in Factory, f \in factories
    PROVE  /\ Brought(UnloadStep(h, all, e, s, g), f) = Brought(s, f) + Share(g, f)
           /\ Safe(s.side, h, f) => Safe(UnloadStep(h, all, e, s, g).side, h, f)
<1> DEFINE t == UnloadStep(h, all, e, s, g)
           told == WithTransit(s.side, Told(s.side.transit, g.factory, -g.amount))
           side == LiefereAn(s.side, h, g, e)
           Less(x) == [side |-> x, load |-> s.load, total |-> s.total - g.amount]
           more == Append(s.load, g)
<1>1. s.side \in Sides /\ s.load \in Seq(Goods)
    BY DEF Unloads
<1>2. s = [side |-> s.side, load |-> s.load, total |-> s.total]
    BY DEF Unloads
<1>3. t = Less(told) \/ t = Less(side) \/ t = [side |-> s.side, load |-> more, total |-> s.total]
    BY <1>2 DEF UnloadStep, WithTransit
<1>4. Excess(told, f) = Excess(s.side, f) + Share(g, f)
    BY <1>1, ExcessTold
<1>5. Excess(side, f) = Excess(s.side, f) + Share(g, f)
    BY <1>1, LiefereCounts
<1>6. SumOf(more, f) = SumOf(s.load, f) + Share(g, f)
    BY <1>1, SumOfAppend
<1>7. Excess(s.side, f) \in Int /\ SumOf(s.load, f) \in Int /\ Share(g, f) \in Int
    BY <1>1, ExcessIn, SumOfIn, ShareIn
<1>8. Safe(s.side, h, f) => Safe(side, h, f)
    BY <1>1, LiefereSafe
<1>9. Safe(s.side, h, f) => Safe(told, h, f)
    BY <1>1, SideChanged DEF Safe
<1>10. \/ t.side = told /\ t.load = s.load
       \/ t.side = side /\ t.load = s.load
       \/ t.side = s.side /\ t.load = more
    BY <1>3
<1> HIDE DEF t, told, side, more
<1> DEFINE a == Excess(s.side, f)
           b == SumOf(s.load, f)
           n == Share(g, f)
<1>11. (a + n) + b = (a + b) + n /\ a + (b + n) = (a + b) + n
    <2> HIDE DEF a, b, n
    <2>1. a \in Int /\ b \in Int /\ n \in Int
        BY <1>7 DEF a, b, n
    <2> QED
        BY <2>1
<1>12. Brought(t, f) = Brought(s, f) + Share(g, f)
    BY <1>4, <1>5, <1>6, <1>10, <1>11 DEF Brought
<1>13. Safe(s.side, h, f) => Safe(t.side, h, f)
    BY <1>8, <1>9, <1>10
<1> QED
    BY <1>12, <1>13 DEF t

\* and all of them.
LEMMA UnloadCounts ==
    ASSUME OnMap, NEW side \in Sides, NEW h \in Halt, NEW con, con.load \in Seq(Goods),
           con.total \in Int, NEW all, NEW e \in [Halt -> Target], NEW f \in Factory, f \in factories
    PROVE  LET un == UnloadCargo(side, h, con, all, e)
           IN  /\ Brought(un, f) = Excess(side, f) + SumOf(con.load, f)
               /\ Safe(side, h, f) => Safe(un.side, h, f)
<1> DEFINE b == [side |-> side, load |-> <<>>, total |-> con.total]
           un == UnloadCargo(side, h, con, all, e)
           load == con.load
           fun == Shares(load, f)
           w == [g \in Goods |-> Share(g, f)]
           M == [s \in Unloads |-> Brought(s, f)]
           R == {s \in Unloads : Safe(s.side, h, f)}
<1>1. un = Unloading!Run(h, all, e, b, load)
    BY DEF UnloadCargo, UnloadStep, Unloading!Run, FoldLeft, MapThenFoldSet, Max,
           Unloading!FoldLeft, Unloading!MapThenFoldSet, Unloading!Max
<1>2. Unloading!Closed(h, all, e, Unloads, Goods)
    BY UnloadKeeps DEF Unloading!Closed
<1>3. b \in Unloads /\ Brought(b, f) = Excess(side, f) /\ b.side = side
    <2>1. b \in Unloads /\ b.load = <<>> /\ b.side = side
        BY DEF Unloads
    <2>2. Excess(side, f) \in Int
        BY ExcessIn
    <2> HIDE DEF b
    <2> QED
        BY <2>1, <2>2, SumOfNone DEF Brought
<1>4. load \in Seq(Goods) /\ \A i \in 1..Len(load) : load[i] \in Goods
    OBVIOUS
<1>5. /\ SumOf(load, f) = Selecting!Sum(fun, 1..Len(load))
      /\ \A i \in 1..Len(load) : fun[i] = Share(load[i], f)
    BY <1>4, SumOfIs
<1> HIDE DEF b, un, load
<1>6. \A i \in 1..Len(load) : fun[i] = w[load[i]]
    BY <1>4, <1>5
<1>7. \A g \in Goods : w[g] \in Int
    BY ShareIn
<1>8. \A s \in Unloads : M[s] \in Int
    BY ExcessIn, SumOfIn DEF Brought, Unloads
<1>9. Unloading!Exact(h, all, e, Unloads, Goods, M, w)
    <2>1. ASSUME NEW s \in Unloads, NEW g \in Goods
          PROVE  M[UnloadStep(h, all, e, s, g)] = M[s] + w[g]
        <3>1. UnloadStep(h, all, e, s, g) \in Unloads
            BY UnloadKeeps
        <3>2. Brought(UnloadStep(h, all, e, s, g), f) = Brought(s, f) + Share(g, f)
            BY UnloadStepCounts
        <3> QED
            BY <3>1, <3>2
    <2> HIDE DEF M, w
    <2> QED
        BY <2>1 DEF Unloading!Exact
<1>10. M[b] = Excess(side, f)
    BY <1>3
<1>11. un \in Unloads
    BY <1>1, <1>2, <1>3, <1>4, Unloading!FoldIn
<1>12. M[un] = Brought(un, f)
    BY <1>11
<1>13. Unloading!Closed(h, all, e, R, Goods)
    BY UnloadKeeps, UnloadStepCounts DEF Unloading!Closed
<1>14. Safe(side, h, f) => un \in R
    <2>1. Safe(side, h, f) => b \in R
        BY <1>3
    <2> HIDE DEF R
    <2> QED
        BY <1>1, <1>4, <1>13, <2>1, Unloading!FoldIn
<1> HIDE DEF fun, w, M
<1>15. Unloading!Counted(h, all, e, b, load, M, fun)
    BY <1>2, <1>3, <1>4, <1>6, <1>7, <1>8, <1>9, Unloading!FoldCounts
<1>16. M[un] = M[b] + Selecting!Sum(fun, 1..Len(load))
    BY <1>1, <1>15, SumsAgree DEF Unloading!Counted
<1>17. Brought(un, f) = Excess(side, f) + SumOf(load, f)
    BY <1>5, <1>10, <1>12, <1>16
<1> QED
    BY <1>14, <1>17 DEF un, load

\* One item is routed anew, or lost.
LEMMA RouteStepCounts ==
    ASSUME OnMap, NEW h \in Halt, h \in Alive, NEW e \in [Halt -> Target], NEW s \in Sides, NEW x \in Filed,
           NEW f \in Factory
    PROVE  /\ RouteStep(h, e, 0, s, x) \in Sides
           /\ Excess(RouteStep(h, e, 0, s, x), f) <= Excess(s, f) + Share(x.goods, f)
           /\ Good(s.search, h, f) => Good(RouteStep(h, e, 0, s, x).search, h, f)
           /\ Good(s.search, h, f) \/ (x.goods.factory = f => x.at.via \in Alive)
              => Excess(RouteStep(h, e, 0, s, x), f) = Excess(s, f) + Share(x.goods, f)
<1> DEFINE t == SearchRouteResumable(s.search, h, x.goods, e)
           new == RouteStep(h, e, 0, s, x)
           found == WithSearch(s, t.search)
           n == Share(x.goods, f)
           kept == WithQueue(s, Append(s.queue, x))
           moved == WithQueue(found, Append(s.queue, Indexed(t.goods)))
           lost == WithQueue(found, s.queue)
<1>1. s.queue \in Seq(Filed) /\ s.search \in Searches /\ x.goods \in Goods
    BY SideParts, FiledIs
<1>2. /\ t.search \in Searches /\ t.goods \in Goods
      /\ t.goods.amount = x.goods.amount /\ t.goods.factory = x.goods.factory
    BY <1>1, SearchAnswers DEF Answer
<1>3. n \in Nat /\ Share(t.goods, f) = n
    BY <1>1, <1>2, ShareIn DEF Share
<1>4. Excess(s, f) \in Int
    BY ExcessIn
<1>5. /\ found \in Sides /\ found.queue = s.queue /\ found.search = t.search
      /\ Excess(found, f) = Excess(s, f)
    BY <1>2, SideSearch, SideChanged, ExcessSearched
<1>6. Good(s.search, h, f) => Good(t.search, h, f)
    BY GoodStays
<1>7. Good(s.search, h, x.goods.factory) => t.goods.ziel \in Alive
    BY <1>1, GoodFinds
<1>8. \/ x.at.via \in Alive /\ new = kept
      \/ x.at.via \notin Alive /\ t.goods.ziel \in Alive /\ new = moved
      \/ x.at.via \notin Alive /\ t.goods.ziel \notin Alive /\ new = lost
    BY DEF RouteStep, WithQueue, WithSearch
<1> HIDE DEF t, found, new
<1>9. /\ Append(s.queue, x) \in Seq(Filed) /\ Waits(Append(s.queue, x), f) = Waits(s.queue, f) + n
    BY <1>1, WaitsAppend
<1>10. /\ Append(s.queue, Indexed(t.goods)) \in Seq(Filed)
       /\ Waits(Append(s.queue, Indexed(t.goods)), f) = Waits(s.queue, f) + n
    <2>1. Indexed(t.goods) \in Filed /\ Indexed(t.goods).goods = t.goods
        BY <1>2, FiledIs
    <2>2. Waits(Append(s.queue, Indexed(t.goods)), f) = Waits(s.queue, f) + Share(t.goods, f)
        BY <1>1, <2>1, WaitsAppend
    <2> QED
        BY <1>1, <1>3, <2>1, <2>2
<1> HIDE DEF n
<1>11. kept \in Sides /\ kept.search = s.search /\ Excess(kept, f) = Excess(s, f) + n
    <2> DEFINE queue == Append(s.queue, x)
    <2>0. queue \in Seq(Filed) /\ Waits(queue, f) = Waits(s.queue, f) + n /\ n \in Int
        BY <1>3, <1>9
    <2> HIDE DEF queue
    <2>1. WithQueue(s, queue) \in Sides /\ WithQueue(s, queue).search = s.search
        BY <2>0, SideQueue, SideChanged
    <2>2. Excess(WithQueue(s, queue), f) = Excess(s, f) + n
        BY <2>0, ExcessQueued
    <2> QED
        BY <2>1, <2>2 DEF queue
<1>12. moved \in Sides /\ moved.search = t.search /\ Excess(moved, f) = Excess(s, f) + n
    <2> DEFINE queue == Append(s.queue, Indexed(t.goods))
    <2>0. queue \in Seq(Filed) /\ Waits(queue, f) = Waits(found.queue, f) + n /\ n \in Int
        BY <1>3, <1>5, <1>10
    <2> HIDE DEF queue
    <2>1. WithQueue(found, queue) \in Sides /\ WithQueue(found, queue).search = t.search
        BY <1>5, <2>0, SideQueue, SideChanged
    <2>2. Excess(WithQueue(found, queue), f) = Excess(found, f) + n
        BY <1>5, <2>0, ExcessQueued
    <2> QED
        BY <1>5, <2>1, <2>2 DEF queue
<1>13. lost \in Sides /\ lost.search = t.search /\ Excess(lost, f) = Excess(s, f)
    <2>1. WithQueue(found, s.queue) \in Sides /\ WithQueue(found, s.queue).search = t.search
        BY <1>1, <1>5, SideQueue, SideChanged
    <2>2. /\ WithQueue(found, s.queue).queue = found.queue
          /\ WithQueue(found, s.queue).transit = found.transit
        BY <1>5, SideChanged
    <2>3. Excess(WithQueue(found, s.queue), f) = Excess(found, f)
        BY <2>2 DEF Excess
    <2> QED
        BY <1>5, <2>1, <2>3
<1> HIDE DEF kept, moved, lost
<1>14. new \in Sides /\ (Good(s.search, h, f) => Good(new.search, h, f))
    BY <1>6, <1>8, <1>11, <1>12, <1>13
<1>15. Excess(new, f) <= Excess(s, f) + n
    <2>1. \A a \in Int, b \in Nat : a <= a + b /\ a + b <= a + b
        OBVIOUS
    <2>2. Excess(new, f) = Excess(s, f) + n \/ Excess(new, f) = Excess(s, f)
        BY <1>8, <1>11, <1>12, <1>13
    <2> QED
        BY <1>3, <1>4, <2>1, <2>2
<1>16. ASSUME Good(s.search, h, f) \/ (x.goods.factory = f => x.at.via \in Alive)
       PROVE  Excess(new, f) = Excess(s, f) + n
    <2>1. CASE new = kept \/ new = moved
        BY <1>11, <1>12, <2>1
    <2>2. CASE x.at.via \notin Alive /\ t.goods.ziel \notin Alive /\ new = lost
        <3>1. x.goods.factory # f
            BY <1>7, <1>16, <2>2
        <3>2. n = 0
            BY <3>1 DEF n, Share
        <3> QED
            BY <1>4, <1>13, <2>2, <3>2
    <2> QED
        BY <1>8, <2>1, <2>2
<1> QED
    BY <1>14, <1>15, <1>16 DEF new, n

\* Goods are lost only where some wait for a stop that is gone, and cannot be routed
\* (search_route_for_invalid_zwischenziel_goods).
LEMMA RouteInvalidCounts ==
    ASSUME OnMap, NEW side \in Sides, NEW h \in Halt, h \in Alive, NEW e \in [Halt -> Target],
           NEW f \in Factory
    PROVE  /\ Excess(RouteInvalid(side, h, e), f) <= Excess(side, f)
           /\ Safe(side, h, f) => Excess(RouteInvalid(side, h, e), f) = Excess(side, f)
<1> DEFINE b == WithQueue(side, <<>>)
           queue == side.queue
           end == RouteInvalid(side, h, e)
           fun == Shares(GoodsOf(queue), f)
           w == [x \in Filed |-> Share(x.goods, f)]
           M == [s \in Sides |-> Excess(s, f)]
           Goods_ == {s \in Sides : Good(s.search, h, f)}
           Found == {x \in Filed : x.goods.factory = f => x.at.via \in Alive}
<1>1. end = Routing!Run(h, e, 0, b, queue)
    BY DEF WithQueue, RouteInvalid, RouteStep, Routing!Run, FoldLeft, MapThenFoldSet, Max,
           Routing!FoldLeft, Routing!MapThenFoldSet, Routing!Max
<1>2. queue \in Seq(Filed) /\ \A i \in 1..Len(queue) : queue[i] \in Filed
    BY SideParts
<1>3. b \in Sides /\ b.search = side.search /\ Excess(b, f) = 0 - side.transit[f]
    <2>1. <<>> \in Seq(Filed)
        OBVIOUS
    <2>2. Waits(<<>>, f) = 0
        BY <2>1, WaitsIn
    <2> QED
        BY <2>1, <2>2, SideQueue, SideChanged DEF Excess
<1>4. /\ Waits(queue, f) = Selecting!Sum(fun, 1..Len(queue))
      /\ \A i \in 1..Len(queue) : fun[i] = Share(queue[i].goods, f)
    BY <1>2, WaitsIs
<1>5. Excess(side, f) = Waits(queue, f) - side.transit[f] /\ Waits(queue, f) \in Int /\ side.transit[f] \in Int
    BY ExcessIn DEF Excess
<1> HIDE DEF b, queue, end
<1>6. \A i \in 1..Len(queue) : fun[i] = w[queue[i]]
    BY <1>2, <1>4
<1>7. \A x \in Filed : w[x] \in Int
    BY FiledIs, ShareIn
<1>8. \A s \in Sides : M[s] \in Int
    BY ExcessIn
<1>9. Routing!Closed(h, e, 0, Sides, Filed)
    BY RouteStepCounts DEF Routing!Closed
<1>10. end \in Sides
    BY <1>1, <1>2, <1>3, <1>9, Routing!FoldIn
<1>11. M[end] = Excess(end, f) /\ M[b] = 0 - side.transit[f]
    BY <1>3, <1>10
<1>12. /\ \A s \in Sides : M[s] = Excess(s, f)
       /\ \A x \in Filed : w[x] = Share(x.goods, f)
    OBVIOUS
<1>13. Found \subseteq Filed /\ Goods_ \subseteq Sides
    OBVIOUS
<1> HIDE DEF fun, w, M
<1>14. Routing!AtMost(h, e, 0, Sides, Filed, M, w)
    BY <1>12, RouteStepCounts DEF Routing!AtMost
<1>15. Routing!Bounded(h, e, 0, b, queue, M, fun)
    BY <1>2, <1>3, <1>6, <1>7, <1>8, <1>9, <1>14, Routing!FoldCounts
<1>16. M[end] <= M[b] + Selecting!Sum(fun, 1..Len(queue))
    BY <1>1, <1>15, SumsAgree DEF Routing!Bounded
<1>17. Excess(end, f) <= Excess(side, f)
    BY <1>4, <1>5, <1>11, <1>16
<1>18. ASSUME Routing!Counted(h, e, 0, b, queue, M, fun)
       PROVE  Excess(end, f) = Excess(side, f)
    <2>1. M[end] = M[b] + Selecting!Sum(fun, 1..Len(queue))
        BY <1>1, <1>18, SumsAgree DEF Routing!Counted
    <2> QED
        BY <1>4, <1>5, <1>11, <2>1
<1>19. ASSUME Good(side.search, h, f)
       PROVE  Routing!Counted(h, e, 0, b, queue, M, fun)
    <2>1. b \in Goods_
        BY <1>3, <1>19
    <2>2. Routing!Closed(h, e, 0, Goods_, Filed)
        BY RouteStepCounts DEF Routing!Closed
    <2>3. Routing!Exact(h, e, 0, Goods_, Filed, M, w)
        BY <1>12, RouteStepCounts DEF Routing!Exact
    <2>4. \A s \in Goods_ : M[s] \in Int
        BY <1>8
    <2> HIDE DEF Goods_
    <2> QED
        BY <1>2, <1>6, <1>7, <2>1, <2>2, <2>3, <2>4, Routing!FoldCounts
<1>20. ASSUME NoneLost(queue, f)
       PROVE  Routing!Counted(h, e, 0, b, queue, M, fun)
    <2>1. Routing!Closed(h, e, 0, Sides, Found)
        BY RouteStepCounts DEF Routing!Closed
    <2>2. Routing!Exact(h, e, 0, Sides, Found, M, w)
        BY <1>12, RouteStepCounts DEF Routing!Exact
    <2>3. queue \in Seq(Found)
        <3>1. \A i \in 1..Len(queue) : queue[i] \in Found
            BY <1>2, <1>20 DEF NoneLost
        <3> HIDE DEF Found
        <3> QED
            BY <1>2, <3>1
    <2>4. \A x \in Found : w[x] \in Int
        BY <1>7
    <2> HIDE DEF Found
    <2> QED
        BY <1>3, <1>6, <1>8, <2>1, <2>2, <2>3, <2>4, Routing!FoldCounts
<1> QED
    BY <1>17, <1>18, <1>19, <1>20 DEF Safe, end, queue

------------------------------------------------------------------------------
(* Goods that are rerouted.                                                 *)

\* What is selected counts.
Chosen(queue, S, f) == [i \in 1..Len(queue) |-> IF queue[i] \in S THEN Share(queue[i].goods, f) ELSE 0]

\* A selection counts what is in it.
LEMMA SelectedCounts ==
    ASSUME NEW queue \in Seq(Filed), NEW S, NEW f
    PROVE  /\ Waits(Selected(queue, S), f) = Selecting!Sum(Chosen(queue, S, f), 1..Len(queue))
           /\ \A i \in 1..Len(queue) : Chosen(queue, S, f)[i] \in Int
<1> DEFINE R == Seq(Filed)
           fun == Chosen(queue, S, f)
           w == [x \in Filed |-> IF x \in S THEN Share(x.goods, f) ELSE 0]
           M == [s \in R |-> Waits(s, f)]
           end == Selected(queue, S)
           N == Len(queue)
<1>1. end = Selecting!Run(S, 0, 0, <<>>, queue)
    BY DEF Selected, SelectStep, Selecting!Run, FoldLeft, MapThenFoldSet, Max,
           Selecting!FoldLeft, Selecting!MapThenFoldSet, Selecting!Max
<1> HIDE DEF end
<1>2. N \in Nat /\ \A i \in 1..N : queue[i] \in Filed
    OBVIOUS
<1>3. <<>> \in R /\ Waits(<<>>, f) = 0
    <2>1. <<>> \in Seq(Filed)
        OBVIOUS
    <2> QED
        BY <2>1, WaitsIn
<1>4. \A x \in Filed : Share(x.goods, f) \in Int
    BY FiledIs, ShareIn
<1>5. \A x \in Filed : w[x] \in Int /\ w[x] = IF x \in S THEN Share(x.goods, f) ELSE 0
    BY <1>4
<1>6. \A s \in R : M[s] \in Int /\ M[s] = Waits(s, f)
    BY WaitsIn
<1>7. \A i \in 1..N : fun[i] = w[queue[i]] /\ fun[i] \in Int
    BY <1>2, <1>4 DEF Chosen
<1> HIDE DEF w, M, fun
<1>8. ASSUME NEW s \in R, NEW x \in Filed
      PROVE  SelectStep(S, 0, 0, s, x) \in R /\ M[SelectStep(S, 0, 0, s, x)] = M[s] + w[x]
    <2>1. Append(s, x) \in R /\ Waits(Append(s, x), f) = Waits(s, f) + Share(x.goods, f)
        BY WaitsAppend
    <2>2. CASE x \in S
        <3>1. SelectStep(S, 0, 0, s, x) = Append(s, x)
            BY <2>2 DEF SelectStep
        <3> HIDE DEF R
        <3> QED
            BY <1>5, <1>6, <2>1, <2>2, <3>1
    <2>3. CASE x \notin S
        <3>1. SelectStep(S, 0, 0, s, x) = s
            BY <2>3 DEF SelectStep
        <3>2. w[x] = 0 /\ M[s] \in Int
            BY <1>5, <1>6, <2>3
        <3> HIDE DEF R
        <3> QED
            BY <3>1, <3>2
    <2> QED
        BY <2>2, <2>3
<1>9. queue \in Seq(Filed)
    OBVIOUS
<1> HIDE DEF R
<1>10. Selecting!Closed(S, 0, 0, R, Filed)
    BY <1>8 DEF Selecting!Closed
<1>11. Selecting!Exact(S, 0, 0, R, Filed, M, w)
    BY <1>8 DEF Selecting!Exact
<1>12. end \in R
    BY <1>1, <1>3, <1>9, <1>10, Selecting!FoldIn
<1>13. Selecting!Counted(S, 0, 0, <<>>, queue, M, fun)
    <2>1. \A i \in 1..Len(queue) : fun[i] = w[queue[i]]
        BY <1>7
    <2>2. /\ \A s \in R : M[s] \in Int
          /\ \A x \in Filed : w[x] \in Int
        BY <1>5, <1>6
    <2> QED
        BY <1>3, <1>9, <1>10, <1>11, <2>1, <2>2, Selecting!FoldCounts
<1>14. M[end] = M[<<>>] + Selecting!Sum(fun, 1..N)
    BY <1>1, <1>13 DEF Selecting!Counted
<1>15. M[<<>>] = 0 /\ M[end] = Waits(end, f)
    BY <1>3, <1>6, <1>12
<1>16. Selecting!Sum(fun, 1..N) \in Int
    <2> DEFINE D == 1..N
    <2>1. Selecting!IsFiniteSet(D) /\ \A i \in D : fun[i] \in Int
        BY <1>2, <1>7, FinitePositions
    <2> HIDE DEF D
    <2>2. Selecting!Sum(fun, D) \in Int
        BY <2>1, Selecting!SumInt
    <2> QED
        BY <2>2 DEF D
<1>17. Waits(end, f) = Selecting!Sum(fun, 1..N)
    BY <1>14, <1>15, <1>16
<1> QED
    BY <1>7, <1>17 DEF end, fun

\* Goods without a route are told of.
LEMMA ReroutedStepCounts ==
    ASSUME OnMap, NEW h \in Halt, NEW e \in [Halt -> Target], NEW s \in Sides, NEW x \in Filed,
           NEW f \in Factory, f \in factories
    PROVE  /\ ReroutedStep(h, e, 0, s, x) \in Sides
           /\ Excess(ReroutedStep(h, e, 0, s, x), f) = Excess(s, f) + Share(x.goods, f)
<1> DEFINE t == SearchRouteResumable(s.search, h, x.goods, e)
           new == ReroutedStep(h, e, 0, s, x)
           found == WithSearch(s, t.search)
           n == Share(x.goods, f)
           told == Told(s.transit, x.goods.factory, -x.goods.amount)
           queue == Append(s.queue, Indexed(t.goods))
<1>1. s.queue \in Seq(Filed) /\ s.search \in Searches /\ x.goods \in Goods
    BY SideParts, FiledIs
<1>2. /\ t.search \in Searches /\ t.goods \in Goods
      /\ t.goods.amount = x.goods.amount /\ t.goods.factory = x.goods.factory
    BY <1>1, SearchAnswers DEF Answer
<1>3. n \in Int /\ Share(t.goods, f) = n
    BY <1>1, <1>2, ShareIn DEF Share
<1>4. /\ found \in Sides /\ found.queue = s.queue /\ found.transit = s.transit
      /\ Excess(found, f) = Excess(s, f)
    BY <1>2, SideSearch, SideChanged, ExcessSearched
<1>5. new = WithTransit(found, told) \/ new = WithQueue(found, queue)
    BY DEF ReroutedStep, WithQueue, WithSearch, WithTransit
<1>6. told \in Counters
    BY <1>1, SideParts, ToldIn, LessAmount
<1>7. queue \in Seq(Filed) /\ Waits(queue, f) = Waits(s.queue, f) + n
    <2>1. Indexed(t.goods) \in Filed /\ Indexed(t.goods).goods = t.goods
        BY <1>2, FiledIs
    <2>2. Waits(Append(s.queue, Indexed(t.goods)), f) = Waits(s.queue, f) + Share(t.goods, f)
        BY <1>1, <2>1, WaitsAppend
    <2> QED
        BY <1>1, <1>3, <2>1, <2>2
<1> HIDE DEF t, found, new, queue
<1>8. Excess(WithTransit(found, told), f) = Excess(found, f) + n
    BY <1>1, <1>4, ExcessTold
<1> HIDE DEF told, n
<1>9. Excess(WithQueue(found, queue), f) = Excess(found, f) + n
    <2>1. Waits(queue, f) = Waits(found.queue, f) + n
        BY <1>4, <1>7
    <2> QED
        BY <1>3, <1>4, <1>7, <2>1, ExcessQueued
<1>10. WithTransit(found, told) \in Sides /\ WithQueue(found, queue) \in Sides
    BY <1>4, <1>6, <1>7, SideTransit, SideQueue
<1> QED
    BY <1>4, <1>5, <1>8, <1>9, <1>10 DEF new, n

\* reroute_goods tells of all that it takes from the queue.
LEMMA ReroutedCounts ==
    ASSUME OnMap, NEW side \in Sides, NEW h \in Halt, NEW e \in [Halt -> Target],
           NEW f \in Factory, f \in factories
    PROVE  Excess(Rerouted(side, h, e), f) = Excess(side, f)
<1> DEFINE queue == side.queue
           cargos == Range(queue)
           arrived == {cargo \in cargos : Connected(h, cargo.goods.factory)}
           empty == {cargo \in cargos : cargo.goods.amount = 0}
           rest == cargos \ (arrived \cup empty)
           told == ToldAll(side.transit, GoodsOf(Selected(queue, arrived)))
           b == WithTransit(WithQueue(side, <<>>), told)
           stay == Selected(queue, rest)
           end == Rerouted(side, h, e)
           N == Len(queue)
           S == 1..N
           fun == Chosen(queue, arrived, f)
           gun == Chosen(queue, rest, f)
           all == Shares(GoodsOf(queue), f)
<1>1. end = Rerouting!Run(h, e, 0, b, stay)
    BY DEF WithQueue, WithTransit, Rerouted, ReroutedStep, Rerouting!Run, FoldLeft, MapThenFoldSet, Max,
           Rerouting!FoldLeft, Rerouting!MapThenFoldSet, Rerouting!Max
<1> HIDE DEF end
<1>2. queue \in Seq(Filed)
    BY SideParts
<1>3. N \in Nat /\ \A i \in S : queue[i] \in Filed /\ queue[i] \in cargos
    <2>1. N \in Nat /\ DOMAIN queue = 1..N /\ \A i \in S : queue[i] \in Filed
        BY <1>2
    <2> QED
        BY <2>1 DEF Range
<1>4. /\ Waits(Selected(queue, arrived), f) = Selecting!Sum(fun, S)
      /\ \A i \in S : fun[i] \in Int
    BY <1>2, SelectedCounts
<1>5. /\ Waits(stay, f) = Selecting!Sum(gun, S)
      /\ \A i \in S : gun[i] \in Int
    BY <1>2, SelectedCounts
<1>6. /\ Waits(queue, f) = Selecting!Sum(all, S)
      /\ \A i \in S : all[i] = Share(queue[i].goods, f) /\ all[i] \in Int
    BY <1>2, WaitsIs
<1>7. \A i \in S : all[i] = fun[i] + gun[i]
    <2> SUFFICES ASSUME NEW i \in S PROVE all[i] = fun[i] + gun[i]
        OBVIOUS
    <2> DEFINE x == queue[i]
               n == Share(x.goods, f)
    <2>1. /\ fun[i] = IF x \in arrived THEN n ELSE 0
          /\ gun[i] = IF x \in rest THEN n ELSE 0
          /\ all[i] = n /\ n \in Int /\ x \in cargos
        BY <1>3, <1>6 DEF Chosen
    <2>2. x \in empty => n = 0
        BY DEF Share
    <2>3. x \in arrived => x \notin rest
        OBVIOUS
    <2>4. x \notin arrived /\ x \notin rest => x \in empty
        BY <2>1
    <2> HIDE DEF arrived, rest, empty, x, n, fun, gun, all
    <2> QED
        BY <2>1, <2>2, <2>3, <2>4
<1>8. Waits(queue, f) = Waits(Selected(queue, arrived), f) + Waits(stay, f)
    <2>1. Selecting!IsFiniteSet(S)
        BY <1>3, FinitePositions
    <2>2. /\ \A i \in S : fun[i] \in Int /\ gun[i] \in Int /\ all[i] = fun[i] + gun[i]
        BY <1>4, <1>5, <1>7
    <2> HIDE DEF S, fun, gun, all
    <2>3. Selecting!Sum(all, S) = Selecting!Sum(fun, S) + Selecting!Sum(gun, S)
        BY <2>1, <2>2, Selecting!SumAdds
    <2> QED
        BY <1>4, <1>5, <1>6, <2>3
<1>9. Selected(queue, arrived) \in Seq(Filed) /\ stay \in Seq(Filed)
    <2>1. ASSUME NEW U PROVE Selected(queue, U) \in Seq(Filed)
        <3>1. Selected(queue, U) \in Seq(Filed \cap U)
            BY <1>2, SelectedIn
        <3> QED
            BY <3>1
    <2> HIDE DEF arrived, rest
    <2> QED
        BY <2>1
<1>10. /\ Waits(Selected(queue, arrived), f) \in Int /\ Waits(stay, f) \in Int
       /\ side.transit[f] \in Int /\ Excess(side, f) = Waits(queue, f) - side.transit[f]
    BY <1>9, WaitsIn, ExcessIn DEF Excess
<1>11. /\ told \in Counters
       /\ told[f] = side.transit[f] - Waits(Selected(queue, arrived), f)
    <2>1. told \in Counters
        BY <1>9, SideParts, GoodsOfIn, ToldAllIn
    <2> QED
        BY <2>1 DEF ToldAll, Waits
<1> HIDE DEF told, queue
<1>12. b \in Sides /\ Excess(b, f) = 0 - told[f]
    <2> DEFINE half == WithQueue(side, <<>>)
    <2>1. <<>> \in Seq(Filed)
        OBVIOUS
    <2>2. half \in Sides /\ half.queue = <<>>
        BY <2>1, SideQueue, SideChanged
    <2> HIDE DEF half
    <2>3. WithTransit(half, told) \in Sides /\ WithTransit(half, told).queue = <<>>
          /\ WithTransit(half, told).transit = told
        BY <1>11, <2>2, SideTransit, SideChanged
    <2>4. b = WithTransit(half, told)
        BY DEF half
    <2>5. Waits(<<>>, f) = 0
        BY <2>1, WaitsIn
    <2> HIDE DEF b
    <2> QED
        BY <2>3, <2>4, <2>5 DEF Excess
<1> HIDE DEF b, stay
<1> DEFINE w == [x \in Filed |-> Share(x.goods, f)]
           M == [s \in Sides |-> Excess(s, f)]
           shares == Shares(GoodsOf(stay), f)
<1>13. \A x \in Filed : w[x] \in Int /\ w[x] = Share(x.goods, f)
    BY FiledIs, ShareIn
<1>14. \A s \in Sides : M[s] \in Int /\ M[s] = Excess(s, f)
    BY ExcessIn
<1>15. /\ Waits(stay, f) = Selecting!Sum(shares, 1..Len(stay))
       /\ \A i \in 1..Len(stay) : shares[i] = w[stay[i]]
    <2>1. \A i \in 1..Len(stay) : stay[i] \in Filed
        BY <1>9
    <2> HIDE DEF w
    <2> QED
        BY <1>9, <1>13, <2>1, WaitsIs
<1> HIDE DEF w, M, shares
<1>16. Rerouting!Closed(h, e, 0, Sides, Filed)
    BY ReroutedStepCounts DEF Rerouting!Closed
<1>17. Rerouting!Exact(h, e, 0, Sides, Filed, M, w)
    BY <1>13, <1>14, ReroutedStepCounts DEF Rerouting!Exact
<1>18. Rerouting!Counted(h, e, 0, b, stay, M, shares)
    BY <1>9, <1>12, <1>13, <1>14, <1>15, <1>16, <1>17, Rerouting!FoldCounts
<1>19. M[end] = M[b] + Selecting!Sum(shares, 1..Len(stay))
    BY <1>1, <1>18, SumsAgree DEF Rerouting!Counted
<1>20. end \in Sides
    BY <1>1, <1>9, <1>12, <1>16, Rerouting!FoldIn
<1>21. Excess(end, f) = (0 - told[f]) + Waits(stay, f)
    BY <1>12, <1>14, <1>15, <1>19, <1>20
<1>22. Excess(end, f) = Excess(side, f)
    BY <1>8, <1>10, <1>11, <1>21
<1> QED
    BY <1>22 DEF end

------------------------------------------------------------------------------
(* Goods that are loaded.                                                   *)

\* What is loaded and what stays are what was there, and nothing is left of an item
\* that leaves the queue.
Kept(n, room, f, all) ==
    {s \in Picked(n, room) : /\ Waits(s.rest, f) + SumOf(s.load, f) = all
                             /\ \A i \in s.gone : s.rest[i].goods.amount = 0}

\* One more item is picked.
LEMMA PickCounts ==
    ASSUME NEW n \in Nat, NEW room \in Nat, NEW f, NEW all, NEW s \in Kept(n, room, f, all), NEW i \in 1..n
    PROVE  PickStep(0, 0, 0, s, i) \in Kept(n, room, f, all)
<1> DEFINE there == s.rest[i].goods
           m == Lesser(there.amount, s.room)
           part == [there EXCEPT !.amount = m]
           load == IF m = 0 THEN s.load ELSE <<part>> \o s.load
           less == [s.rest[i] EXCEPT !.goods.amount = there.amount - m]
           rest == [s.rest EXCEPT ![i] = less]
           gone == IF m = there.amount THEN s.gone \cup {i} ELSE s.gone
           new == [room |-> s.room - m, load |-> load, rest |-> rest, gone |-> gone]
<1>1. /\ s \in Picked(n, room) /\ s.room \in Nat /\ s.load \in Seq(Goods) /\ s.rest \in [1..n -> Filed]
      /\ s.gone \in SUBSET (1..n)
      /\ Waits(s.rest, f) + SumOf(s.load, f) = all
      /\ \A j \in s.gone : s.rest[j].goods.amount = 0
    BY DEF Kept, Picked
<1>2. there \in Goods /\ s.rest[i] \in Filed
    <2>1. s.rest[i] \in Filed
        BY <1>1
    <2> QED
        BY <2>1, FiledIs
<1>3. PickStep(0, 0, 0, s, i) = IF s.room = 0 THEN s ELSE new
    BY DEF PickStep
<1>4. /\ m \in Nat /\ there.amount \in Nat /\ there.amount - m \in Nat
      /\ (there.amount = 0 => m = 0)
    <2>1. there.amount \in Nat
        BY <1>2, LessAmount
    <2> HIDE DEF there
    <2> QED
        BY <1>1, <2>1 DEF Lesser
<1>5. part \in Goods /\ part.amount = m /\ part.factory = there.factory
    <2> HIDE DEF m, there
    <2> QED
        BY <1>2, <1>4 DEF Goods
<1>6. /\ less \in Filed /\ less.goods.factory = there.factory
      /\ less.goods.amount = there.amount - m
    <2> DEFINE k == there.amount - m
               x == s.rest[i]
    <2>1. k \in Nat /\ x \in Filed /\ x.goods = there
        BY <1>2, <1>4
    <2>2. less = [x EXCEPT !.goods.amount = k]
        OBVIOUS
    <2> HIDE DEF k, x, less, there
    <2>3. less \in Filed /\ less.goods = [there EXCEPT !.amount = k]
        BY <2>1, <2>2, FiledAmount
    <2>4. [there EXCEPT !.amount = k].amount = k /\ [there EXCEPT !.amount = k].factory = there.factory
        BY <1>2 DEF Goods
    <2> QED
        BY <2>3, <2>4 DEF k
<1>7. Share(less.goods, f) = Share(there, f) - Share(part, f)
      /\ Share(there, f) \in Int /\ Share(part, f) \in Int /\ (m = 0 => Share(part, f) = 0)
    <2> HIDE DEF there, m, part, less
    <2> QED
        BY <1>4, <1>5, <1>6 DEF Share
<1>8. /\ s.rest \in Seq(Filed) /\ i \in DOMAIN s.rest
    BY <1>1
<1> HIDE DEF less, part
<1>9. /\ rest \in Seq(Filed)
      /\ Waits(rest, f) = Waits(s.rest, f) - Share(there, f) + Share(less.goods, f)
    BY <1>6, <1>8, WaitsChanged
<1>10. /\ rest[i] = less
       /\ \A j \in 1..n : j # i => rest[j] = s.rest[j]
    BY <1>1
<1>11. SumOf(load, f) = SumOf(s.load, f) + Share(part, f)
    <2>1. SumOf(s.load, f) \in Int
        BY <1>1, SumOfIn
    <2>2. SumOf(<<part>> \o s.load, f) = SumOf(s.load, f) + Share(part, f)
        BY <1>1, <1>5, SumOfInserted
    <2> HIDE DEF m
    <2> QED
        BY <1>7, <2>1, <2>2
<1>12. \A j \in gone : rest[j].goods.amount = 0
    <2> SUFFICES ASSUME NEW j \in gone PROVE rest[j].goods.amount = 0
        OBVIOUS
    <2>1. CASE j # i
        <3>1. j \in s.gone
            BY <2>1
        <3> QED
            BY <1>1, <1>10, <2>1, <3>1
    <2>2. CASE j = i
        <3>1. m = there.amount
            <4>1. CASE j \in s.gone
                BY <1>1, <1>4, <2>2, <4>1
            <4>2. CASE j \notin s.gone
                BY <4>2
            <4> QED
                BY <4>1, <4>2
        <3> HIDE DEF m, there, rest
        <3> QED
            BY <1>4, <1>6, <1>10, <2>2, <3>1
    <2> QED
        BY <2>1, <2>2
<1>13. PickStep(0, 0, 0, s, i) \in Picked(n, room)
    BY <1>1, PickKeeps
<1>14. Waits(s.rest, f) \in Int /\ SumOf(s.load, f) \in Int
    BY <1>1, <1>8, WaitsIn, SumOfIn
<1>15. new.rest = rest /\ new.load = load /\ new.gone = gone
    OBVIOUS
<1> HIDE DEF there, rest, load, gone, new
<1>16. Waits(rest, f) + SumOf(load, f) = all
    BY <1>1, <1>7, <1>9, <1>11, <1>14
<1>17. s.room # 0 => new \in Kept(n, room, f, all)
    BY <1>3, <1>12, <1>13, <1>15, <1>16 DEF Kept
<1> QED
    BY <1>3, <1>17

\* The items at some places of a queue.
Items(rest, s) == [k \in DOMAIN s |-> rest[s[k]]]

\* One place more is one item more.
LEMMA ItemsAppend ==
    ASSUME NEW N \in Nat, NEW rest \in [1..N -> Filed], NEW s \in Seq(1..N), NEW i \in 1..N
    PROVE  /\ Items(rest, s) \in Seq(Filed)
           /\ Items(rest, Append(s, i)) = Append(Items(rest, s), rest[i])
<1> DEFINE D == 1..N
           L == Len(s)
           more == Append(s, i)
           its == Items(rest, s)
<1>1. s \in Seq(D) /\ i \in D
    OBVIOUS
<1> HIDE DEF D
<1>2. /\ L \in Nat /\ DOMAIN s = 1..L /\ \A k \in 1..L : s[k] \in D
      /\ DOMAIN more = 1..(L + 1) /\ more[L + 1] = i /\ \A k \in 1..L : more[k] = s[k]
    BY <1>1
<1>3. \A k \in D : rest[k] \in Filed
    BY DEF D
<1> HIDE DEF L, more
<1>4. its = [k \in 1..L |-> rest[s[k]]] /\ \A k \in 1..L : rest[s[k]] \in Filed
    BY <1>2, <1>3 DEF Items
<1> HIDE DEF its
<1>5. its \in Seq(Filed) /\ Len(its) = L
    BY <1>2, <1>4
<1>6. Items(rest, more) = [k \in 1..(L + 1) |-> rest[more[k]]]
    BY <1>2 DEF Items
<1>7. Append(its, rest[i]) = [k \in 1..(L + 1) |-> IF k = L + 1 THEN rest[i] ELSE its[k]]
    BY <1>2, <1>4, <1>5
<1>8. \A k \in 1..(L + 1) : rest[more[k]] = IF k = L + 1 THEN rest[i] ELSE its[k]
    BY <1>2, <1>4
<1>9. Items(rest, more) = Append(its, rest[i])
    BY <1>6, <1>7, <1>8
<1> QED
    BY <1>5, <1>9 DEF more, its

\* Items of which nothing is left can go.
LEMMA KeptCounts ==
    ASSUME NEW N \in Nat, NEW rest \in [1..N -> Filed], NEW gone \in SUBSET (1..N),
           \A i \in gone : rest[i].goods.amount = 0, NEW f
    PROVE  Waits(Items(rest, Selected([i \in 1..N |-> i], (1..N) \ gone)), f) = Waits(rest, f)
<1> DEFINE D == 1..N
           S == D \ gone
           places == [i \in D |-> i]
           R == Seq(D)
           fun == Shares(GoodsOf(rest), f)
           w == [i \in D |-> Share(rest[i].goods, f)]
           M == [s \in R |-> Waits(Items(rest, s), f)]
           end == Selected(places, S)
<1>1. end = Selecting!Run(S, 0, 0, <<>>, places)
    BY DEF Selected, SelectStep, Selecting!Run, FoldLeft, MapThenFoldSet, Max,
           Selecting!FoldLeft, Selecting!MapThenFoldSet, Selecting!Max
<1>2. /\ rest \in Seq(Filed) /\ Len(rest) = N
      /\ places \in Seq(D) /\ Len(places) = N /\ \A i \in D : places[i] = i
    OBVIOUS
<1>3. /\ Waits(rest, f) = Selecting!Sum(fun, D)
      /\ \A i \in D : fun[i] = Share(rest[i].goods, f) /\ fun[i] \in Int
    BY <1>2, WaitsIs
<1>4. \A i \in D : w[i] = fun[i] /\ w[i] \in Int
    BY <1>3
<1>5. \A i \in gone : w[i] = 0
    BY DEF Share
<1>6. \A s \in R : M[s] \in Int /\ M[s] = Waits(Items(rest, s), f)
    <2>1. ASSUME NEW s \in R PROVE Items(rest, s) \in Seq(Filed)
        <3>1. N = 0 => Items(rest, s) \in Seq(Filed)
            <4>1. ASSUME N = 0 PROVE s = <<>>
                <5>1. D = {}
                    BY <4>1
                <5> HIDE DEF D
                <5> QED
                    BY <5>1
            <4>2. Items(rest, <<>>) = <<>> /\ <<>> \in Seq(Filed)
                BY DEF Items
            <4> QED
                BY <4>1, <4>2
        <3>2. N # 0 => 1 \in 1..N
            OBVIOUS
        <3>3. s \in Seq(1..N)
            OBVIOUS
        <3> HIDE DEF R, D
        <3> QED
            BY <3>1, <3>2, <3>3, ItemsAppend
    <2> HIDE DEF R
    <2> QED
        BY <2>1, WaitsIn
<1>7. \A i \in D : rest[i] \in Filed
    OBVIOUS
<1> HIDE DEF places, fun, w, M, end
<1>8. ASSUME NEW s \in R, NEW i \in D
      PROVE  SelectStep(S, 0, 0, s, i) \in R /\ M[SelectStep(S, 0, 0, s, i)] = M[s] + w[i]
    <2>1. CASE i \in S
        <3>1. SelectStep(S, 0, 0, s, i) = Append(s, i)
            BY <2>1 DEF SelectStep
        <3>2. Append(s, i) \in R
            <4> HIDE DEF D
            <4> QED
                OBVIOUS
        <3>3. /\ Items(rest, s) \in Seq(Filed)
              /\ Items(rest, Append(s, i)) = Append(Items(rest, s), rest[i])
            BY ItemsAppend
        <3>4. Waits(Append(Items(rest, s), rest[i]), f) = Waits(Items(rest, s), f) + Share(rest[i].goods, f)
            BY <1>7, <3>3, WaitsAppend
        <3> HIDE DEF R, D, S
        <3> QED
            BY <1>3, <1>4, <1>6, <3>1, <3>2, <3>3, <3>4
    <2>2. CASE i \notin S
        <3>1. SelectStep(S, 0, 0, s, i) = s /\ i \in gone
            BY <2>2 DEF SelectStep
        <3> HIDE DEF R, D, S
        <3> QED
            BY <1>5, <1>6, <3>1
    <2> QED
        BY <2>1, <2>2
<1>9. Selecting!Closed(S, 0, 0, R, D)
    <2> HIDE DEF R, D, S
    <2> QED
        BY <1>8 DEF Selecting!Closed
<1>10. Selecting!Exact(S, 0, 0, R, D, M, w)
    <2> HIDE DEF R, D, S
    <2> QED
        BY <1>8 DEF Selecting!Exact
<1>11. <<>> \in R /\ Items(rest, <<>>) = <<>> /\ Waits(<<>>, f) = 0
    <2>1. <<>> \in Seq(Filed)
        OBVIOUS
    <2> QED
        BY <2>1, WaitsIn DEF Items
<1>12. \A i \in 1..Len(places) : fun[i] = w[places[i]]
    <2>1. \A i \in D : places[i] = i /\ w[i] = fun[i]
        BY <1>2, <1>4
    <2> QED
        BY <1>2, <2>1
<1>13. places \in Seq(D) /\ Len(places) = N
    BY <1>2
<1>14. Selecting!Sum(fun, D) \in Int
    <2>1. Selecting!IsFiniteSet(D) /\ \A i \in D : fun[i] \in Int
        BY <1>3, FinitePositions
    <2> HIDE DEF D
    <2> QED
        BY <2>1, Selecting!SumInt
<1>15. D = 1..Len(places)
    BY <1>13
<1> HIDE DEF R, S, D
<1>16. /\ \A s \in R : M[s] \in Int
       /\ \A i \in D : w[i] \in Int
    BY <1>4, <1>6
<1>17. Selecting!Counted(S, 0, 0, <<>>, places, M, fun)
    BY <1>9, <1>10, <1>11, <1>12, <1>13, <1>16, Selecting!FoldCounts
<1>18. M[end] = M[<<>>] + Selecting!Sum(fun, D)
    BY <1>1, <1>15, <1>17 DEF Selecting!Counted
<1>19. end \in R
    BY <1>1, <1>9, <1>11, <1>13, Selecting!FoldIn
<1>20. M[end] = Waits(Items(rest, end), f) /\ M[<<>>] = 0
    BY <1>6, <1>11, <1>19
<1>21. Waits(Items(rest, end), f) = Waits(rest, f)
    BY <1>3, <1>14, <1>18, <1>20
<1> QED
    BY <1>21 DEF end, places, S, D

\* Loading moves goods from the queue to the convoy (fetch_goods).
LEMMA FetchCounts ==
    ASSUME NEW queue \in Seq(Filed), NEW room \in Int, NEW stops \in Seq(Halt),
           room \in Nat \/ stops = <<>>, NEW f
    PROVE  LET got == Fetch(queue, room, stops)
           IN  Waits(got.queue, f) + SumOf(got.load, f) = Waits(queue, f)
<1> DEFINE N == Len(queue)
           all == Waits(queue, f)
           picks == Looking!Run(queue, 0, 0, <<>>, stops)
           b == [room |-> room, load |-> <<>>, rest |-> queue, gone |-> {}]
           end == Picking!Run(0, 0, 0, b, picks)
           places == [i \in DOMAIN queue |-> i]
           kept == Selected(places, DOMAIN queue \ end.gone)
           R == Kept(N, room, f, all)
           T == IF room \in Nat THEN 1..N ELSE {}
<1>1. picks = FoldLeft(LAMBDA p, h : p \o Selected(places, {i \in DOMAIN queue : queue[i].at.via = h}),
                       <<>>, stops)
    BY DEF PicksStep, Looking!Run, FoldLeft, MapThenFoldSet, Max,
           Looking!FoldLeft, Looking!MapThenFoldSet, Looking!Max
<1>2. ASSUME NEW ps
      PROVE  Picking!Run(0, 0, 0, b, ps) = FoldLeft(LAMBDA s, i : PickStep(0, 0, 0, s, i), b, ps)
    BY DEF Picking!Run, FoldLeft, MapThenFoldSet, Max,
           Picking!FoldLeft, Picking!MapThenFoldSet, Picking!Max
<1>3. Fetch(queue, room, stops) = [queue |-> Items(end.rest, kept), load |-> end.load]
    BY <1>1, <1>2 DEF Fetch, PickStep, Items
<1>4. N \in Nat /\ DOMAIN queue = 1..N /\ queue \in [1..N -> Filed] /\ all \in Int
    <2>1. N \in Nat /\ DOMAIN queue = 1..N /\ queue \in [1..N -> Filed]
        OBVIOUS
    <2> QED
        BY <2>1, WaitsIn
<1> HIDE DEF all
<1>5. Picking!Closed(0, 0, 0, R, T)
    BY <1>4, PickCounts DEF Picking!Closed
<1>6. b \in R
    <2>1. Total(<<>>) = 0 /\ <<>> \in Seq(Goods) /\ SumOf(<<>>, f) = 0
        BY TotalEmpty, SumOfNone
    <2>2. b \in Picked(N, room)
        <3> HIDE DEF N
        <3> QED
            BY <1>4, <2>1 DEF Picked
    <2>3. Waits(queue, f) + 0 = all
        BY <1>4 DEF all
    <2> HIDE DEF N
    <2> QED
        BY <2>1, <2>2, <2>3 DEF Kept
<1>7. picks \in Seq(T)
    <2>1. picks \in Seq(1..N) /\ (stops = <<>> => picks = <<>>)
        BY PicksIn
    <2> HIDE DEF picks, N
    <2> QED
        BY <2>1
<1> HIDE DEF R, T, b, picks
<1>8. end \in R
    BY <1>5, <1>6, <1>7, Picking!FoldIn
<1> HIDE DEF end
<1>9. /\ end.rest \in [1..N -> Filed] /\ end.gone \in SUBSET (1..N)
      /\ Waits(end.rest, f) + SumOf(end.load, f) = all
      /\ \A i \in end.gone : end.rest[i].goods.amount = 0
    BY <1>8 DEF R, Kept, Picked
<1>10. kept = Selected([i \in 1..N |-> i], (1..N) \ end.gone)
    BY <1>4
<1> HIDE DEF kept, N
<1>11. Waits(Items(end.rest, kept), f) = Waits(end.rest, f)
    BY <1>4, <1>9, <1>10, KeptCounts
<1> QED
    BY <1>3, <1>9, <1>11 DEF all

\* Goods of one factory are loaded onto goods of that factory (load_cargo).
LEMMA LoadCargoCounts ==
    ASSUME NEW load \in Seq(Goods), NEW fetched \in Seq(Goods), NEW f
    PROVE  SumOf(LoadCargo(load, fetched), f) = SumOf(load, f) + SumOf(fetched, f)
<1> DEFINE R == {s \in Seq(Goods) : /\ Len(s) >= Len(load)
                                    /\ \A i \in 1..Len(load) : s[i].factory = load[i].factory}
           end == LoadCargo(load, fetched)
           fun == Shares(fetched, f)
           w == [g \in Goods |-> Share(g, f)]
           M == [s \in R |-> SumOf(s, f)]
<1>1. end = Joining!Run(load, 0, 0, load, fetched)
    BY DEF LoadCargo, LoadStep, Joining!Run, FoldLeft, MapThenFoldSet, Max,
           Joining!FoldLeft, Joining!MapThenFoldSet, Joining!Max
<1>2. ASSUME NEW s \in R, NEW g \in Goods
      PROVE  /\ LoadStep(load, 0, 0, s, g) \in R
             /\ SumOf(LoadStep(load, 0, 0, s, g), f) = SumOf(s, f) + Share(g, f)
    <2> DEFINE same == {i \in DOMAIN load : load[i].ziel = g.ziel /\ load[i].factory = g.factory}
               j == First(same)
    <2>1. /\ s \in Seq(Goods) /\ Len(s) >= Len(load) /\ Len(load) \in Nat /\ Len(s) \in Nat
          /\ DOMAIN load = 1..Len(load)
          /\ \A i \in 1..Len(load) : s[i].factory = load[i].factory
        OBVIOUS
    <2>2. CASE same = {}
        <3>1. LoadStep(load, 0, 0, s, g) = Append(s, g)
            BY <2>2 DEF LoadStep
        <3>2. /\ Append(s, g) \in Seq(Goods) /\ Len(Append(s, g)) >= Len(load)
              /\ \A i \in 1..Len(load) : Append(s, g)[i] = s[i]
            BY <2>1
        <3>3. SumOf(Append(s, g), f) = SumOf(s, f) + Share(g, f)
            BY <2>1, SumOfAppend
        <3>4. Append(s, g) \in R
            BY <2>1, <3>2
        <3> QED
            BY <3>1, <3>3, <3>4
    <2>3. CASE same # {}
        <3>1. same \in SUBSET (DOMAIN load)
            OBVIOUS
        <3>2. LoadStep(load, 0, 0, s, g) = [s EXCEPT ![j].amount = @ + g.amount]
            BY <2>3 DEF LoadStep
        <3>3. j \in DOMAIN load /\ load[j].factory = g.factory
            <4>1. j \in same
                BY <2>3, <3>1, JoinableFirst
            <4> HIDE DEF j
            <4> QED
                BY <4>1
        <3> HIDE DEF same, j
        <3>4. j \in DOMAIN s /\ s[j] \in Goods /\ s[j].factory = g.factory
            BY <2>1, <3>3
        <3> DEFINE n == s[j].amount + g.amount
                   new == [s[j] EXCEPT !.amount = n]
                   more == [s EXCEPT ![j] = new]
        <3>5. [s EXCEPT ![j].amount = @ + g.amount] = more
            OBVIOUS
        <3>6. n \in Nat /\ s[j].amount \in Nat /\ g.amount \in Nat
            BY <3>4, LessAmount
        <3>7. new \in Goods /\ new.amount = n /\ new.factory = g.factory
            <4> DEFINE there == s[j]
            <4>1. there \in Goods /\ there.factory = g.factory /\ n \in Nat
                BY <3>4, <3>6
            <4> HIDE DEF n, there
            <4>2. [there EXCEPT !.amount = n] \in Goods /\ [there EXCEPT !.amount = n].amount = n
                  /\ [there EXCEPT !.amount = n].factory = there.factory
                BY <4>1 DEF Goods
            <4> QED
                BY <4>1, <4>2 DEF there
        <3>8. Share(new, f) = Share(s[j], f) + Share(g, f) /\ Share(s[j], f) \in Int /\ Share(g, f) \in Int
            <4> HIDE DEF new
            <4> QED
                BY <3>4, <3>6, <3>7 DEF Share
        <3> HIDE DEF n, new
        <3>9. /\ more \in Seq(Goods)
              /\ SumOf(more, f) = SumOf(s, f) - Share(s[j], f) + Share(new, f)
            BY <2>1, <3>4, <3>7, SumOfChanged
        <3>10. more \in R
            <4>1. Len(more) = Len(s) /\ \A i \in 1..Len(load) : more[i] = IF i = j THEN new ELSE s[i]
                BY <2>1
            <4> HIDE DEF more
            <4>2. \A i \in 1..Len(load) : more[i].factory = load[i].factory
                BY <2>1, <3>3, <3>7, <4>1
            <4> QED
                BY <2>1, <3>9, <4>1, <4>2
        <3>11. SumOf(s, f) \in Int
            BY <2>1, SumOfIn
        <3> HIDE DEF more, R
        <3>12. SumOf(more, f) = SumOf(s, f) + Share(g, f)
            BY <3>8, <3>9, <3>11
        <3> QED
            BY <3>2, <3>5, <3>10, <3>12
    <2> QED
        BY <2>2, <2>3
<1>3. load \in R /\ R \subseteq Seq(Goods)
    OBVIOUS
<1>4. \A g \in Goods : w[g] \in Int /\ w[g] = Share(g, f)
    BY ShareIn
<1>5. \A s \in R : M[s] \in Int /\ M[s] = SumOf(s, f)
    BY SumOfIn
<1>6. /\ SumOf(fetched, f) = Selecting!Sum(fun, 1..Len(fetched))
      /\ \A i \in 1..Len(fetched) : fun[i] = w[fetched[i]]
    <2>1. \A i \in 1..Len(fetched) : fetched[i] \in Goods
        OBVIOUS
    <2> HIDE DEF w
    <2> QED
        BY <1>4, <2>1, SumOfIs
<1> HIDE DEF R, end, fun, w, M
<1>7. Joining!Closed(load, 0, 0, R, Goods)
    BY <1>2 DEF Joining!Closed
<1>8. Joining!Exact(load, 0, 0, R, Goods, M, w)
    BY <1>2, <1>4, <1>5 DEF Joining!Exact
<1>9. Joining!Counted(load, 0, 0, load, fetched, M, fun)
    <2>1. /\ \A s \in R : M[s] \in Int
          /\ \A g \in Goods : w[g] \in Int
        BY <1>4, <1>5
    <2> QED
        BY <1>3, <1>6, <1>7, <1>8, <2>1, Joining!FoldCounts
<1>10. M[end] = M[load] + Selecting!Sum(fun, 1..Len(fetched))
    BY <1>1, <1>9, SumsAgree DEF Joining!Counted
<1>11. end \in R
    BY <1>1, <1>3, <1>7, Joining!FoldIn
<1> QED
    BY <1>3, <1>5, <1>6, <1>10, <1>11 DEF end

\* What is at a stop, and in one convoy there.
Together(side, con, f) == Excess(side, f) + SumOf(con.load, f)

\* A convoy at a stop neither brings nor takes more than is counted, and loses some
\* only where goods wait for a stop that is gone (hat_gehalten).
LEMMA ExchangedCounts ==
    ASSUME OnMap, NEW h \in Halt, h \in Alive, Side(h) \in Sides, NEW con \in Convoys, NEW all,
           NEW e \in [Halt -> Target], NEW f \in Factory, f \in factories
    PROVE  LET x == Exchanged(h, con, all, e)
           IN  /\ Together(x.side, x.con, f) <= Together(Side(h), con, f)
               /\ Safe(Side(h), h, f) => Together(x.side, x.con, f) = Together(Side(h), con, f)
<1> DEFINE un == UnloadCargo(Side(h), h, con, all, e)
           room == FreeCapacity(un)
           ready == IF room > 0 /\ un.side.queue # <<>> THEN RouteInvalid(un.side, h, e)
                    ELSE un.side
           ahead == Reachable(con, h)
           stops == IF room > 0 THEN ahead ELSE <<>>
           got == Fetch(ready.queue, room, stops)
           load == LoadCargo(un.load, got.load)
           total == un.total + Total(got.load)
           x == Exchanged(h, con, all, e)
<1>1. x = [side |-> WithQueue(ready, got.queue), con |-> WithCargo(con, load, total)]
    BY DEF Exchanged, WithQueue, WithCargo
<1>2. /\ un \in Unloads /\ Brought(un, f) = Excess(Side(h), f) + SumOf(con.load, f)
      /\ Safe(Side(h), h, f) => Safe(un.side, h, f)
    BY ConvoyIs, UnloadIn, UnloadCounts
<1> HIDE DEF un, x
<1>3. un.side \in Sides /\ un.load \in Seq(Goods) /\ un.total \in Int
    BY <1>2 DEF Unloads
<1>4. room = Capacity - un.total /\ Capacity \in Nat /\ room \in Int
    BY <1>3, FreightAssumption DEF FreeCapacity
<1> HIDE DEF room
<1>5. /\ ready \in Sides
      /\ Excess(ready, f) <= Excess(un.side, f)
      /\ Safe(un.side, h, f) => Excess(ready, f) = Excess(un.side, f)
    <2>1. /\ RouteInvalid(un.side, h, e) \in Sides
          /\ Excess(RouteInvalid(un.side, h, e), f) <= Excess(un.side, f)
          /\ Safe(un.side, h, f) => Excess(RouteInvalid(un.side, h, e), f) = Excess(un.side, f)
        BY <1>3, RouteInvalidIn, RouteInvalidCounts
    <2>2. Excess(un.side, f) <= Excess(un.side, f)
        BY <1>3, ExcessIn
    <2> QED
        BY <1>3, <2>1, <2>2
<1> HIDE DEF ready
<1>6. ahead \in Seq(Halt)
    BY ReachableIn
<1> HIDE DEF ahead
<1>7. stops \in Seq(Halt) /\ (room \in Nat \/ stops = <<>>)
    BY <1>4, <1>6
<1> HIDE DEF stops
<1>8. /\ got.queue \in Seq(Filed) /\ got.load \in Seq(Goods)
      /\ Waits(got.queue, f) + SumOf(got.load, f) = Waits(ready.queue, f)
    <2>1. ready.queue \in Seq(Filed)
        BY <1>5, SideParts
    <2> QED
        BY <1>4, <1>7, <2>1, FetchIn, FetchCounts
<1> HIDE DEF got
<1>9. SumOf(load, f) = SumOf(un.load, f) + SumOf(got.load, f)
    BY <1>3, <1>8, LoadCargoCounts
<1> HIDE DEF load, total
<1>10. x.side.queue = got.queue /\ x.side.transit = ready.transit /\ x.con.load = load
    <2>1. WithQueue(ready, got.queue).queue = got.queue /\ WithQueue(ready, got.queue).transit = ready.transit
        BY <1>5, SideChanged
    <2>2. WithCargo(con, load, total).load = load
        BY ConvoyIs DEF WithCargo
    <2> QED
        BY <1>1, <2>1, <2>2
<1>11. /\ SumOf(un.load, f) \in Int /\ SumOf(got.load, f) \in Int /\ SumOf(con.load, f) \in Int
       /\ Waits(got.queue, f) \in Int /\ Excess(un.side, f) \in Int /\ Excess(Side(h), f) \in Int
       /\ ready.transit[f] \in Int /\ Waits(ready.queue, f) \in Int
    <2>1. SumOf(un.load, f) \in Nat /\ SumOf(got.load, f) \in Nat /\ SumOf(con.load, f) \in Nat
        BY <1>3, <1>8, ConvoyIs, SumOfIn
    <2>2. Waits(got.queue, f) \in Nat
        BY <1>8, WaitsIn
    <2>3. /\ Excess(un.side, f) \in Int /\ Excess(Side(h), f) \in Int
          /\ ready.transit[f] \in Int /\ Waits(ready.queue, f) \in Int
        BY <1>3, <1>5, ExcessIn
    <2> QED
        BY <2>1, <2>2, <2>3
<1>12. Together(x.side, x.con, f)
       = (Waits(got.queue, f) - ready.transit[f]) + (SumOf(un.load, f) + SumOf(got.load, f))
    BY <1>9, <1>10 DEF Together, Excess
<1>13. Together(x.side, x.con, f) = Excess(ready, f) + SumOf(un.load, f)
    <2>1. \A a, b, c, d, k \in Int : a + d = k => (a - b) + (c + d) = (k - b) + c
        OBVIOUS
    <2>2. (Waits(got.queue, f) - ready.transit[f]) + (SumOf(un.load, f) + SumOf(got.load, f))
          = (Waits(ready.queue, f) - ready.transit[f]) + SumOf(un.load, f)
        BY <1>8, <1>11, <2>1
    <2> QED
        BY <1>12, <2>2 DEF Excess
<1>14. Together(Side(h), con, f) = Excess(un.side, f) + SumOf(un.load, f)
    BY <1>2 DEF Together, Brought
<1>15. Excess(ready, f) \in Int
    BY <1>5, ExcessIn
<1>16. Together(x.side, x.con, f) <= Together(Side(h), con, f)
    BY <1>5, <1>11, <1>13, <1>14, <1>15
<1>17. Safe(Side(h), h, f) => Together(x.side, x.con, f) = Together(Side(h), con, f)
    BY <1>2, <1>5, <1>13, <1>14
<1> QED
    BY <1>16, <1>17 DEF x

------------------------------------------------------------------------------
(* Shipping.                                                                *)

\* The waiting goods of f that can be recalled.
Positive(queue, f) == {k \in DOMAIN queue : /\ queue[k].goods.factory = f
                                            /\ queue[k].goods.amount > 0}

\* Goods that go back to the producer are told of (recall_ware).
LEMMA RecalledIn ==
    ASSUME NEW side \in Sides, NEW g, NEW n \in Nat, Positive(side.queue, g) # {},
           n <= side.queue[First(Positive(side.queue, g))].goods.amount,
           NEW f \in Factory, f \in factories
    PROVE  Recalled(side, g, n) \in Sides /\ Excess(Recalled(side, g, n), f) = Excess(side, f)
<1> DEFINE queue == side.queue
           i == First(Positive(queue, g))
           there == queue[i].goods
           left == there.amount - n
           item == [queue[i] EXCEPT !.goods.amount = left]
           less == [queue EXCEPT ![i] = item]
           told == Told(side.transit, g, -n)
           all == [queue EXCEPT ![i].goods.amount = @ - n]
<1>1. queue \in Seq(Filed) /\ side.transit \in Counters /\ side.transit[f] \in Int
    BY SideParts DEF Counters
<1>2. Recalled(side, g, n) = WithTransit(WithQueue(side, all), told)
    <2> DEFINE half == [side EXCEPT !.queue = all]
    <2>1. Recalled(side, g, n) = [half EXCEPT !.transit = Told(half.transit, g, -n)]
        BY DEF Recalled, Positive
    <2> HIDE DEF all
    <2>2. half.transit = side.transit
        BY DEF Sides
    <2>3. half = WithQueue(side, all)
        BY DEF WithQueue
    <2> HIDE DEF half
    <2> QED
        BY <2>1, <2>2, <2>3 DEF WithTransit
<1>3. all = less
    <2> HIDE DEF queue, i
    <2> QED
        OBVIOUS
<1> HIDE DEF all
<1>4. i \in DOMAIN queue /\ i \in Positive(queue, g)
    <2>1. Positive(queue, g) \in SUBSET (DOMAIN queue)
        BY DEF Positive
    <2> QED
        BY <1>1, <2>1, JoinableFirst
<1> HIDE DEF i
<1>5. there \in Goods /\ there.amount \in Nat /\ n <= there.amount /\ there.factory = g /\ queue[i] \in Filed
    <2>1. queue[i] \in Filed
        BY <1>1, <1>4
    <2>2. there \in Goods
        BY <2>1, FiledIs
    <2>3. n <= there.amount
        BY DEF i
    <2>4. there.factory = g
        BY <1>4 DEF Positive
    <2> QED
        BY <2>1, <2>2, <2>3, <2>4, LessAmount
<1>6. left \in Nat
    BY <1>5
<1>7. item \in Filed /\ item.goods = [there EXCEPT !.amount = left]
    <2> HIDE DEF left
    <2> QED
        BY <1>5, <1>6, FiledAmount
<1>8. Share(there, f) - Share(item.goods, f) = IF g = f THEN n ELSE 0
    <2>1. item.goods.factory = g /\ item.goods.amount = left
        BY <1>5, <1>7 DEF Goods
    <2> HIDE DEF item, there
    <2> QED
        BY <1>5, <1>6, <2>1 DEF Share, left
<1>9. told[f] = side.transit[f] - (IF g = f THEN n ELSE 0)
    <2>1. CASE g = f
        BY <1>1, <2>1 DEF Told, Counters
    <2>2. CASE g # f
        BY <1>1, <2>2 DEF Told, Counters
    <2> QED
        BY <2>1, <2>2
<1>10. told \in Counters
    <2>1. -n \in Int
        OBVIOUS
    <2> QED
        BY <1>1, <2>1, ToldIn
<1> HIDE DEF item
<1>11. /\ less \in Seq(Filed)
       /\ Waits(less, f) = Waits(queue, f) - Share(there, f) + Share(item.goods, f)
    BY <1>1, <1>4, <1>7, WaitsChanged
<1> HIDE DEF less, told
<1>12. Recalled(side, g, n).queue = less /\ Recalled(side, g, n).transit = told
    <2>1. WithQueue(side, less) \in Sides
        BY <1>11, SideQueue
    <2>2. WithQueue(side, less).queue = less
        BY SideChanged
    <2> QED
        BY <1>2, <1>3, <2>1, <2>2, SideChanged
<1>13. Waits(queue, f) \in Nat /\ Share(there, f) \in Nat /\ Share(item.goods, f) \in Nat
    <2>1. item.goods \in Goods
        BY <1>7, FiledIs
    <2> HIDE DEF there
    <2> QED
        BY <1>1, <1>5, <2>1, WaitsIn, ShareIn
<1> HIDE DEF there
<1>14. Waits(less, f) - told[f] = Waits(queue, f) - side.transit[f]
    BY <1>1, <1>8, <1>9, <1>11, <1>13
<1>15. Recalled(side, g, n) \in Sides
    BY <1>2, <1>3, <1>11, <1>10, SideQueue, SideTransit
<1> QED
    BY <1>12, <1>14, <1>15 DEF Excess

\* The first goods found for a factory, if there are any of them, are the first
\* that can be recalled.
LEMMA AmountForIs ==
    ASSUME NEW h, waiting[h] \in Seq(Filed), NEW f
    PROVE  /\ AmountFor(h, f) \in Nat
           /\ AmountFor(h, f) > 0 =>
                 /\ Positive(waiting[h], f) # {}
                 /\ AmountFor(h, f) = waiting[h][First(Positive(waiting[h], f))].goods.amount
<1> DEFINE queue == waiting[h]
           its == {i \in DOMAIN queue : queue[i].goods.factory = f}
           some == Positive(queue, f)
<1>1. /\ AmountFor(h, f) = IF its = {} THEN 0 ELSE queue[First(its)].goods.amount
      /\ some = {k \in its : queue[k].goods.amount > 0}
      /\ queue \in Seq(Filed) /\ its \in SUBSET (DOMAIN queue)
    BY DEF AmountFor, Positive
<1>2. DOMAIN queue \subseteq Nat /\ some \in SUBSET (DOMAIN queue) /\ some \subseteq its
    BY <1>1
<1>3. \A i \in DOMAIN queue : queue[i].goods.amount \in Nat
    BY <1>1, FiledIs DEF Goods
<1>4. its # {} => First(its) \in its /\ \A j \in its : First(its) <= j
    BY <1>1, JoinableFirst
<1>5. some # {} => First(some) \in some /\ \A j \in some : First(some) <= j
    BY <1>1, <1>2, JoinableFirst
<1> HIDE DEF queue, its, some
<1>6. AmountFor(h, f) \in Nat
    BY <1>1, <1>3, <1>4
<1>7. ASSUME AmountFor(h, f) > 0
      PROVE  some # {} /\ First(some) = First(its) /\ AmountFor(h, f) = queue[First(its)].goods.amount
    <2>1. its # {} /\ AmountFor(h, f) = queue[First(its)].goods.amount
        BY <1>1, <1>7
    <2>2. First(its) \in some
        BY <1>1, <1>4, <1>7, <2>1
    <2>3. First(its) <= First(some) /\ First(some) <= First(its)
        BY <1>2, <1>4, <1>5, <2>1, <2>2
    <2>4. First(its) \in Nat /\ First(some) \in Nat
        BY <1>2, <1>5, <2>2
    <2> QED
        BY <2>1, <2>2, <2>3, <2>4
<1> QED
    BY <1>6, <1>7 DEF queue, some

\* A route leads to stops.
LEMMA RoutesIn ==
    ASSUME OnMap, NEW h \in Halt, NEW f \in Factory, NEW r \in RoutesFrom(h, f)
    PROVE  r.ziel \in Target /\ r.via \in Target
<1>1. CASE Connected(h, f)
    BY <1>1, NoSearchIn DEF RoutesFrom
<1>2. CASE ~Connected(h, f)
    <2>1. PICK d \in HaltsAt(Covers[f]), n \in Halt : r = [ziel |-> d, via |-> n]
        BY <1>2 DEF RoutesFrom
    <2>2. d \in Halt
        BY FinishIn
    <2> QED
        BY <2>1, <2>2, NoSearchIn
<1> QED
    BY <1>1, <1>2

------------------------------------------------------------------------------
(* The inductive invariant.                                                 *)

\* Stops, their connections and the work that step_all has left.
StopsInv ==
    /\ OnMap /\ todo \subseteq Alive
    /\ links \in [Halt -> SUBSET Halt] /\ comp \in [Halt -> SUBSET Halt]
    /\ staged \in [Halt -> SUBSET SUBSET Halt]
    /\ status \in {"idle", "reconnecting", "rerouting"} /\ outdated \in BOOLEAN

\* Goods: those that wait are filed under their own stops, and those that ride
\* weigh no more than the convoy counts.
GoodsInv ==
    /\ waiting \in [Halt -> Seq(Filed)] /\ search \in Searches
    /\ convoy \in [Convoy -> Convoys] /\ transit \in Counters

RestInv ==
    /\ stale \subseteq Convoy /\ factories \subseteq Factory
    /\ started \in Nat /\ rare \in Nat

CargoInv == StopsInv /\ GoodsInv /\ RestInv

\* The stops are as they were.
LEMMA StopsSame ==
    ASSUME StopsInv, UNCHANGED <<haltVars, outdated>>
    PROVE  StopsInv' /\ Alive' = Alive
BY DEF StopsInv, OnMap, haltVars, Alive, HaltsAt

\* What stop h works on.
LEMMA SideIn ==
    ASSUME GoodsInv, NEW h \in Halt
    PROVE  Side(h) \in Sides
BY DEF GoodsInv, Side, Sides

\* Stop h has done its work.
LEMMA SideDone ==
    ASSUME GoodsInv, NEW h \in Halt, NEW side \in Sides,
           waiting' = [waiting EXCEPT ![h] = side.queue], search' = side.search,
           transit' = side.transit, convoy' \in [Convoy -> Convoys]
    PROVE  GoodsInv'
<1>1. side.queue \in Seq(Filed) /\ side.search \in Searches /\ side.transit \in Counters
    BY SideParts
<1> QED
    BY <1>1 DEF GoodsInv, Searches, Counters, Convoys, Filed, Indexed

\* The first stops of a convoy's goods are stops.
LEMMA ConnectionsIn ==
    ASSUME OnMap, GoodsInv, NEW h
    PROVE  Connections(h) \in SUBSET Halt
<1>1. \A c \in Convoy : Serves(c) \subseteq Halt
    <2>1. ASSUME NEW c \in Convoy PROVE Serves(c) \subseteq Halt
        <3>1. convoy[c] \in Convoys
            BY DEF GoodsInv
        <3>2. Range(convoy[c].schedule) \in SUBSET Place
            BY <3>1, ConvoyIs DEF Range
        <3> QED
            BY <3>2, HaltsIn DEF Serves
    <2> QED
        BY <2>1
<1> QED
    BY <1>1 DEF Connections

\* What can be reached over any connections is stops.
LEMMA ComponentsIn ==
    ASSUME OnMap, NEW L
    PROVE  Components(L) \in [Halt -> SUBSET Halt]
<1>1. \A h \in Halt : Reached(L, {h}, NoHalt) \in SUBSET Halt
    BY ReachedIn
<1> QED
    BY <1>1 DEF Components

\* At the beginning there are no goods.
LEMMA CargoInit == Init => CargoInv
<1> SUFFICES ASSUME Init PROVE CargoInv
    OBVIOUS
<1>1. OnMap
    BY FreightAssumption DEF Init, OnMap, Target
<1>2. GoodsInv
    <2>1. waiting \in [Halt -> Seq(Filed)] /\ transit \in Counters
        BY DEF Init, Counters
    <2>2. search \in Searches
        BY NoSearchIn DEF Init
    <2>3. \A c \in Convoy : [schedule |-> Timetable[c], stop |-> 1, load |-> <<>>, total |-> 0] \in Convoys
        <3>1. ASSUME NEW c \in Convoy
              PROVE  [schedule |-> Timetable[c], stop |-> 1, load |-> <<>>, total |-> 0] \in Convoys
            <4>1. Timetable[c] \in Schedules /\ 1 \in DOMAIN Timetable[c]
                BY FreightAssumption DEF Schedules
            <4>2. 0 \in 0..Capacity /\ <<>> \in Seq(Goods) /\ Total(<<>>) <= 0
                BY FreightAssumption, TotalEmpty
            <4> QED
                BY <4>1, <4>2 DEF Convoys
        <3> QED
            BY <3>1
    <2>4. convoy \in [Convoy -> Convoys]
        BY <2>3 DEF Init
    <2> QED
        BY <2>1, <2>2, <2>4 DEF GoodsInv
<1>3. StopsInv
    <2>1. links \in [Halt -> SUBSET Halt]
        BY <1>1, <1>2, ConnectionsIn DEF Init
    <2>2. comp \in [Halt -> SUBSET Halt]
        BY <1>1, ComponentsIn DEF Init
    <2>3. staged \in [Halt -> SUBSET SUBSET Halt]
        BY DEF Init
    <2> QED
        BY <1>1, <2>1, <2>2, <2>3 DEF Init, StopsInv
<1>4. RestInv
    BY DEF Init, RestInv
<1> QED
    BY <1>2, <1>3, <1>4 DEF CargoInv

\* A shipment, after which the factory is told, adds as much to what waits, whatever
\* makes room for it (verteile_waren).
LEMMA ShippedIn ==
    ASSUME OnMap, GoodsInv, NEW h \in Halt, NEW p \in Factory, NEW m \in Amounts,
           NEW r \in RoutesFrom(h, p), NEW g \in MakingRoom(h, p), NEW f \in Factory, f \in factories
    PROVE  /\ Shipped(h, p, m, r, g) \in Sides
           /\ Excess(Shipped(h, p, m, r, g), f) = Excess(Side(h), f)
<1> DEFINE menge == IF Slack + Space(h) < 0 THEN 0 ELSE Lesser(m, Slack + Space(h))
           n == IF Space(h) < 0 THEN Lesser(AmountFor(h, g) \div 2, 1 - Space(h)) ELSE 0
           side == IF Space(h) < 0 THEN Recalled(Side(h), g, n) ELSE Side(h)
           amount == menge + n
           goods == [factory |-> p, amount |-> amount, ziel |-> r.ziel, via |-> r.via]
           sent == StarteMitRoute(side, h, goods)
           told == Told(sent.transit, p, amount)
           found == IF Connected(h, p) THEN sent.search ELSE NoSearch
<1>1. Shipped(h, p, m, r, g) = [sent EXCEPT !.transit = Told(@, p, amount),
                                            !.search = IF Connected(h, p) THEN @ ELSE NoSearch]
    BY DEF Shipped
<1>2. /\ waiting[h] \in Seq(Filed) /\ Side(h) \in Sides
      /\ Side(h).queue = waiting[h]
    BY SideIn DEF GoodsInv, Side
<1>3. Space(h) \in Int
    <2>1. GoodsOf(waiting[h]) \in Seq(Goods)
        BY <1>2, GoodsOfIn
    <2> QED
        BY <2>1, TotalIs, FreightAssumption DEF Space
<1>4. AmountFor(h, g) \in Nat
    BY <1>2, AmountForIs
<1>5. \A a, b \in Int : Lesser(a, b) \in {a, b} /\ Lesser(a, b) <= a
    BY DEF Lesser
<1>6. menge \in Nat
    <2>1. m \in Nat /\ Slack \in Nat
        BY FreightAssumption
    <2> QED
        BY <1>3, <2>1 DEF Lesser
<1> HIDE DEF menge
<1>7. n \in Nat /\ (Space(h) < 0 => n <= AmountFor(h, g))
    <2> DEFINE half == AmountFor(h, g) \div 2
    <2>1. half \in Nat /\ half <= AmountFor(h, g)
        BY <1>4
    <2> HIDE DEF half
    <2>2. CASE Space(h) < 0
        <3>1. n = Lesser(half, 1 - Space(h)) /\ 1 - Space(h) \in Nat
            BY <1>3, <2>2 DEF half
        <3> QED
            BY <1>4, <2>1, <3>1 DEF Lesser
    <2>3. CASE ~(Space(h) < 0)
        BY <2>3
    <2> QED
        BY <2>2, <2>3
<1> HIDE DEF n
<1>8. side \in Sides /\ Excess(side, f) = Excess(Side(h), f)
    <2>1. CASE Space(h) < 0
        <3>1. AmountFor(h, g) > 0
            BY <1>3, <2>1 DEF MakingRoom
        <3>2. /\ Positive(Side(h).queue, g) # {}
              /\ n <= Side(h).queue[First(Positive(Side(h).queue, g))].goods.amount
            BY <1>2, <1>7, <2>1, <3>1, AmountForIs
        <3>3. Recalled(Side(h), g, n) \in Sides /\ Excess(Recalled(Side(h), g, n), f) = Excess(Side(h), f)
            BY <1>2, <1>7, <3>2, RecalledIn
        <3> QED
            BY <2>1, <3>3
    <2>2. CASE ~(Space(h) < 0)
        BY <1>2, <2>2
    <2> QED
        BY <2>1, <2>2
<1> HIDE DEF side
<1>9. amount \in Nat
    BY <1>6, <1>7
<1> HIDE DEF amount
<1>10. goods \in Goods /\ Share(goods, f) = IF p = f THEN amount ELSE 0
    BY <1>9, RoutesIn DEF Goods, Share
<1> HIDE DEF goods
<1>11. sent \in Sides /\ Excess(sent, f) = Excess(side, f) + Share(goods, f)
    BY <1>8, <1>10, StarteIn, StarteCounts
<1>12. /\ sent.transit \in Counters /\ sent.search \in Searches
       /\ sent.transit[f] \in Int /\ Waits(sent.queue, f) \in Int /\ Excess(side, f) \in Int
    BY <1>8, <1>11, SideParts, ExcessIn
<1> HIDE DEF sent
<1>13. Shipped(h, p, m, r, g) = WithSearch(WithTransit(sent, told), found)
    <2>1. WithTransit(sent, told) = [sent EXCEPT !.transit = Told(@, p, amount)]
        BY DEF WithTransit
    <2>2. WithTransit(sent, told).search = sent.search
        BY <1>11, SideChanged
    <2> QED
        BY <1>1, <2>1, <2>2 DEF WithSearch
<1>14. told[f] = sent.transit[f] + Share(goods, f)
    <2>1. CASE p = f
        BY <1>9, <1>10, <1>12, <2>1 DEF Told, Counters
    <2>2. CASE p # f
        BY <1>9, <1>10, <1>12, <2>2 DEF Told, Counters
    <2> QED
        BY <2>1, <2>2
<1>15. told \in Counters /\ found \in Searches
    BY <1>9, <1>12, ToldIn, NoSearchIn
<1> HIDE DEF told, found
<1>16. Shipped(h, p, m, r, g).queue = sent.queue /\ Shipped(h, p, m, r, g).transit = told
    <2>1. WithTransit(sent, told) \in Sides
        BY <1>11, <1>15, SideTransit
    <2> QED
        BY <1>11, <1>13, <2>1, SideChanged
<1>17. Share(goods, f) \in Int
    BY <1>10, ShareIn
<1>18. Waits(sent.queue, f) - told[f] = Excess(side, f)
    <2>1. Waits(sent.queue, f) - sent.transit[f] = Excess(side, f) + Share(goods, f)
        BY <1>11 DEF Excess
    <2> QED
        BY <1>12, <1>14, <1>17, <2>1
<1>19. Shipped(h, p, m, r, g) \in Sides
    BY <1>11, <1>13, <1>15, SideTransit, SideSearch
<1> QED
    BY <1>8, <1>16, <1>18, <1>19 DEF Excess

\* A shipment keeps the invariant,
LEMMA ShipKeeps ==
    ASSUME CargoInv, NEW f \in Factory, Ship(f)
    PROVE  CargoInv'
<1>1. PICK h \in HaltsAt(Source), m \in Amounts :
          \E r \in RoutesFrom(h, f), g \in MakingRoom(h, f) :
            LET x == Shipped(h, f, m, r, g)
            IN  /\ waiting' = [waiting EXCEPT ![h] = x.queue]
                /\ search' = x.search
                /\ transit' = x.transit
    BY DEF Ship
<1>0. PICK r \in RoutesFrom(h, f), g \in MakingRoom(h, f) :
            LET x == Shipped(h, f, m, r, g)
            IN  /\ waiting' = [waiting EXCEPT ![h] = x.queue]
                /\ search' = x.search
                /\ transit' = x.transit
    BY <1>1
<1> DEFINE side == Shipped(h, f, m, r, g)
<1>2. OnMap /\ GoodsInv
    BY DEF CargoInv, StopsInv
<1>3. h \in Halt
    BY <1>2, HaltsIn, FreightAssumption
<1>4. side \in Sides
    <2>1. f \in factories
        BY DEF Ship
    <2> QED
        BY <1>2, <1>3, <2>1, ShippedIn
<1>5. /\ waiting' = [waiting EXCEPT ![h] = side.queue]
      /\ search' = side.search /\ transit' = side.transit
    BY <1>0
<1> HIDE DEF side
<1>6. convoy' \in [Convoy -> Convoys]
    BY <1>2 DEF Ship, GoodsInv
<1>7. GoodsInv'
    BY <1>2, <1>3, <1>4, <1>5, <1>6, SideDone
<1>8. StopsInv'
    BY StopsSame DEF Ship, CargoInv
<1>9. RestInv'
    BY DEF Ship, CargoInv, RestInv
<1> QED
    BY <1>7, <1>8, <1>9 DEF CargoInv

\* so does a convoy at a stop,
LEMMA LoadKeeps ==
    ASSUME CargoInv, NEW c \in Convoy, Load(c)
    PROVE  CargoInv'
<1>1. PICK h \in HaltsAt({convoy[c].schedule[convoy[c].stop]}) :
          \E e \in Explorations(h), all \in BOOLEAN :
            LET x == Exchanged(h, convoy[c], all, e)
            IN  /\ waiting' = [waiting EXCEPT ![h] = x.side.queue]
                /\ search' = x.side.search
                /\ transit' = x.side.transit
                /\ convoy' = [convoy EXCEPT ![c] = x.con]
    BY DEF Load
<1>2. PICK e \in Explorations(h), all \in BOOLEAN :
            LET x == Exchanged(h, convoy[c], all, e)
            IN  /\ waiting' = [waiting EXCEPT ![h] = x.side.queue]
                /\ search' = x.side.search
                /\ transit' = x.side.transit
                /\ convoy' = [convoy EXCEPT ![c] = x.con]
    BY <1>1
<1> DEFINE side == Exchanged(h, convoy[c], all, e).side
           con == Exchanged(h, convoy[c], all, e).con
<1>3. OnMap /\ GoodsInv /\ convoy[c] \in Convoys
    BY DEF CargoInv, StopsInv, GoodsInv
<1>4. h \in Halt
    <2>1. convoy[c].schedule[convoy[c].stop] \in Place
        BY <1>3, ConvoyIs
    <2>2. {convoy[c].schedule[convoy[c].stop]} \in SUBSET Place
        BY <2>1
    <2> QED
        BY <1>3, <2>2, HaltsIn
<1>5. e \in [Halt -> Target]
    BY <1>3, ExplorationIn
<1>6. side \in Sides /\ con \in Convoys
    BY <1>3, <1>4, <1>5, SideIn, ExchangedIn
<1>7. /\ waiting' = [waiting EXCEPT ![h] = side.queue]
      /\ search' = side.search /\ transit' = side.transit
      /\ convoy' = [convoy EXCEPT ![c] = con]
    BY <1>2
<1> HIDE DEF side, con
<1>8. convoy' \in [Convoy -> Convoys]
    BY <1>3, <1>6, <1>7 DEF GoodsInv
<1>9. GoodsInv'
    BY <1>3, <1>4, <1>6, <1>7, <1>8, SideDone
<1>10. StopsInv'
    BY StopsSame DEF Load, CargoInv
<1>11. RestInv'
    BY DEF Load, CargoInv, RestInv, boundVars
<1> QED
    BY <1>9, <1>10, <1>11 DEF CargoInv

\* and so does a stop that reroutes.
LEMMA RerouteKeeps ==
    ASSUME CargoInv, NEW h \in Halt, Reroute(h)
    PROVE  CargoInv'
<1>1. PICK e \in Explorations(h) :
         LET side == Rerouted(Side(h), h, e)
         IN  /\ waiting' = [waiting EXCEPT ![h] = side.queue]
             /\ search' = side.search
             /\ transit' = side.transit
    BY DEF Reroute
<1> DEFINE side == Rerouted(Side(h), h, e)
<1>2. OnMap /\ GoodsInv
    BY DEF CargoInv, StopsInv
<1>3. side \in Sides
    BY <1>2, SideIn, ExplorationIn, ReroutedIn
<1>4. /\ waiting' = [waiting EXCEPT ![h] = side.queue]
      /\ search' = side.search /\ transit' = side.transit
    BY <1>1
<1> HIDE DEF side
<1>5. convoy' \in [Convoy -> Convoys]
    BY <1>2 DEF Reroute, GoodsInv
<1>6. GoodsInv'
    BY <1>2, <1>3, <1>4, <1>5, SideDone
<1>7. UNCHANGED <<haltAt, links, comp, staged, status, outdated>> /\ todo' = todo \ {h}
    BY DEF Reroute
<1>8. Alive' = Alive
    BY <1>7 DEF Alive, HaltsAt
<1>9. StopsInv'
    BY <1>7, <1>8 DEF CargoInv, StopsInv, OnMap
<1>10. RestInv'
    BY DEF Reroute, CargoInv, RestInv, boundVars
<1> QED
    BY <1>6, <1>9, <1>10 DEF CargoInv

\* One convoy changes, and the counters with it.
LEMMA ConvoyDone ==
    ASSUME GoodsInv, NEW c \in Convoy, NEW con \in Convoys, convoy' = [convoy EXCEPT ![c] = con],
           transit' \in Counters, UNCHANGED <<waiting, search>>
    PROVE  GoodsInv'
BY DEF GoodsInv

\* The next stop of a schedule is one of its stops.
LEMMA GoKeeps ==
    ASSUME CargoInv, NEW c \in Convoy, Go(c)
    PROVE  CargoInv'
<1> DEFINE con == convoy[c]
           next == (con.stop % Len(con.schedule)) + 1
           gone == [con EXCEPT !.stop = next]
<1>1. GoodsInv /\ con \in Convoys
    BY DEF CargoInv, GoodsInv
<1>2. next \in Nat /\ next \in DOMAIN con.schedule
    <2> DEFINE n == Len(con.schedule)
               k == con.stop
    <2>1. n \in Nat \ {0} /\ DOMAIN con.schedule = 1..n /\ k \in Nat
        BY <1>1, ConvoyIs
    <2> HIDE DEF n, k
    <2>2. (k % n) + 1 \in 1..n
        BY <2>1
    <2> QED
        BY <2>1, <2>2 DEF n, k
<1>3. gone \in Convoys
    <2> HIDE DEF con, next
    <2>1. /\ con \in [schedule : Schedules, stop : Nat, load : Seq(Goods), total : 0..Capacity]
          /\ Total(con.load) <= con.total
        BY <1>1 DEF Convoys
    <2>2. /\ gone \in [schedule : Schedules, stop : Nat, load : Seq(Goods), total : 0..Capacity]
          /\ gone.schedule = con.schedule /\ gone.load = con.load /\ gone.total = con.total
          /\ gone.stop = next
        BY <1>2, <2>1
    <2> HIDE DEF gone
    <2> QED
        BY <1>2, <2>1, <2>2 DEF Convoys
<1>4. convoy' = [convoy EXCEPT ![c] = gone]
    BY DEF Go
<1> HIDE DEF gone
<1>5. transit' \in Counters /\ UNCHANGED <<waiting, search>>
    BY <1>1 DEF Go, GoodsInv
<1>6. GoodsInv'
    BY <1>1, <1>3, <1>4, <1>5, ConvoyDone
<1>7. StopsInv'
    BY StopsSame DEF Go, CargoInv
<1>8. RestInv'
    BY DEF Go, CargoInv, RestInv, boundVars
<1> QED
    BY <1>6, <1>7, <1>8 DEF CargoInv

\* A stale convoy is checked.
LEMMA StaleKeeps ==
    ASSUME CargoInv, NEW c \in Convoy, CheckStale(c)
    PROVE  CargoInv'
<1> DEFINE r == RemoveStaleCargo(convoy[c], transit)
<1>1. OnMap /\ GoodsInv /\ convoy[c] \in Convoys /\ transit \in Counters
    BY DEF CargoInv, StopsInv, GoodsInv
<1>2. r.con \in Convoys /\ r.transit \in Counters
    BY <1>1, StaleRemovedIn
<1>3. convoy' = [convoy EXCEPT ![c] = r.con] /\ transit' = r.transit
    BY DEF CheckStale
<1> HIDE DEF r
<1>4. UNCHANGED <<waiting, search>>
    BY DEF CheckStale
<1>5. GoodsInv'
    BY <1>1, <1>2, <1>3, <1>4, ConvoyDone
<1>6. StopsInv'
    BY StopsSame DEF CheckStale, CargoInv
<1>7. RestInv'
    BY DEF CheckStale, CargoInv, RestInv, boundVars
<1> QED
    BY <1>5, <1>6, <1>7 DEF CargoInv

\* A player sets a schedule.
LEMMA EditKeeps ==
    ASSUME CargoInv, NEW c \in Convoy, NEW s \in Timetables, EditSchedule(c, s)
    PROVE  CargoInv'
<1>1. OnMap /\ GoodsInv /\ convoy[c] \in Convoys /\ transit \in Counters
    BY DEF CargoInv, StopsInv, GoodsInv
<1>2. PICK k \in DOMAIN s :
         LET r == RemoveStaleCargo([convoy[c] EXCEPT !.schedule = s, !.stop = k], transit)
         IN  convoy' = [convoy EXCEPT ![c] = r.con] /\ transit' = r.transit
    BY DEF EditSchedule
<1> DEFINE new == [convoy[c] EXCEPT !.schedule = s, !.stop = k]
           r == RemoveStaleCargo(new, transit)
<1>3. new \in Convoys
    BY <1>1, EditedIn
<1>4. convoy' = [convoy EXCEPT ![c] = r.con] /\ transit' = r.transit
    BY <1>2
<1> HIDE DEF new
<1>5. r.con \in Convoys /\ r.transit \in Counters
    BY <1>1, <1>3, StaleRemovedIn
<1> HIDE DEF r
<1>6. UNCHANGED <<waiting, search>>
    BY DEF EditSchedule
<1>7. GoodsInv'
    BY <1>1, <1>4, <1>5, <1>6, ConvoyDone
<1>8. UNCHANGED haltVars /\ outdated' = TRUE
    BY DEF EditSchedule
<1>9. StopsInv'
    BY <1>8 DEF CargoInv, StopsInv, OnMap, haltVars, Alive, HaltsAt
<1>10. RestInv'
    BY DEF EditSchedule, CargoInv, RestInv, Rare
<1> QED
    BY <1>7, <1>9, <1>10 DEF CargoInv

\* A convoy is sold and bought again.
LEMMA DepotKeeps ==
    ASSUME CargoInv, NEW c \in Convoy, NEW listed \in BOOLEAN, EnterDepot(c, listed)
    PROVE  CargoInv'
<1> DEFINE d == Discarded(convoy[c], transit)
           r == IF listed THEN RemoveStaleCargo(d.con, d.transit) ELSE d
<1>1. OnMap /\ GoodsInv /\ convoy[c] \in Convoys /\ transit \in Counters
    BY DEF CargoInv, StopsInv, GoodsInv
<1>2. d.con \in Convoys /\ d.transit \in Counters
    BY <1>1, DiscardedIn
<1>3. convoy' = [convoy EXCEPT ![c] = r.con] /\ transit' = r.transit
    BY DEF EnterDepot
<1> HIDE DEF d
<1>4. r.con \in Convoys /\ r.transit \in Counters
    BY <1>1, <1>2, StaleRemovedIn
<1> HIDE DEF r
<1>5. UNCHANGED <<waiting, search>>
    BY DEF EnterDepot
<1>6. GoodsInv'
    BY <1>1, <1>3, <1>4, <1>5, ConvoyDone
<1>7. UNCHANGED haltVars /\ outdated' = TRUE
    BY DEF EnterDepot
<1>8. StopsInv'
    BY <1>7 DEF CargoInv, StopsInv, OnMap, haltVars, Alive, HaltsAt
<1>9. RestInv'
    BY DEF EnterDepot, CargoInv, RestInv, Rare
<1> QED
    BY <1>6, <1>8, <1>9 DEF CargoInv

\* A step of step_all that touches no goods.
LEMMA ReconnectingKeeps ==
    ASSUME CargoInv,
           \/ StartReconnecting \/ StartRerouting \/ EndRerouting
           \/ \E h \in Halt : Reconnect(h)
    PROVE  CargoInv'
<1>1. UNCHANGED <<haltAt, waiting, search, convoy, stale, factories, transit, boundVars>>
    BY DEF StartReconnecting, StartRerouting, EndRerouting, Reconnect
<1>2. GoodsInv' /\ RestInv'
    BY <1>1 DEF CargoInv, GoodsInv, RestInv, boundVars
<1>3. Alive' = Alive /\ OnMap'
    BY <1>1 DEF Alive, HaltsAt, CargoInv, StopsInv, OnMap
<1>4. ASSUME StartReconnecting PROVE StopsInv'
    BY <1>3, <1>4 DEF StartReconnecting, CargoInv, StopsInv
<1>5. ASSUME StartRerouting PROVE StopsInv'
    <2>1. links' \in [Halt -> SUBSET Halt] /\ staged' \in [Halt -> SUBSET SUBSET Halt]
        BY <1>5 DEF StartRerouting, CargoInv, StopsInv
    <2>2. comp' \in [Halt -> SUBSET Halt]
        BY <1>5, ComponentsIn DEF StartRerouting, CargoInv, StopsInv
    <2> QED
        BY <1>3, <1>5, <2>1, <2>2 DEF StartRerouting, CargoInv, StopsInv
<1>6. ASSUME EndRerouting PROVE StopsInv'
    BY <1>3, <1>6 DEF EndRerouting, CargoInv, StopsInv
<1>7. ASSUME NEW h \in Halt, Reconnect(h) PROVE StopsInv'
    <2>1. Connections(h) \in SUBSET Halt
        BY ConnectionsIn DEF CargoInv, StopsInv
    <2>2. staged' \in [Halt -> SUBSET SUBSET Halt]
        BY <1>7, <2>1 DEF Reconnect, CargoInv, StopsInv
    <2> QED
        BY <1>3, <1>7, <2>2 DEF Reconnect, CargoInv, StopsInv
<1>8. StopsInv'
    BY <1>4, <1>5, <1>6, <1>7 DEF CargoInv, StopsInv
<1> QED
    BY <1>2, <1>8 DEF CargoInv

\* A new stop, or one that is gone.
LEMMA RemoveHaltKeeps ==
    ASSUME CargoInv, NEW p \in Place, RemoveHalt(p)
    PROVE  CargoInv'
<1> DEFINE h == haltAt[p]
           told == ToldAll(transit, GoodsOf(waiting[h]))
<1>1. OnMap /\ StopsInv /\ GoodsInv
    BY DEF CargoInv, StopsInv
<1>2. h \in Halt /\ h # NoHalt
    BY <1>1 DEF RemoveHalt, OnMap, Target
<1>3. /\ transit' = told /\ waiting' = [waiting EXCEPT ![h] = <<>>]
      /\ links' = [links EXCEPT ![h] = {}] /\ comp' = [comp EXCEPT ![h] = {}]
      /\ staged' = [staged EXCEPT ![h] = {}] /\ todo' = todo \ {h}
      /\ stale' = stale \cup {c \in Convoy : h \in Serves(c)}
      /\ haltAt' = [haltAt EXCEPT ![p] = NoHalt] /\ outdated' = TRUE
      /\ UNCHANGED <<status, search, convoy, factories, started>> /\ rare' = rare + 1
    BY DEF RemoveHalt, Rare
<1>4. told \in Counters
    BY <1>1, <1>2, GoodsOfIn, ToldAllIn DEF GoodsInv
<1>5. Alive \ {h} \subseteq Alive'
    <2>1. ASSUME NEW x \in Alive, x # h PROVE x \in Alive'
        <3>1. PICK q \in Place : x = haltAt[q] /\ x # NoHalt
            BY <2>1 DEF Alive, HaltsAt
        <3>2. haltAt'[q] = haltAt[q]
            BY <1>1, <1>3, <2>1, <3>1 DEF OnMap
        <3> QED
            BY <3>1, <3>2 DEF Alive, HaltsAt
    <2> QED
        BY <2>1
<1>6. OnMap'
    BY <1>1, <1>3, NoSearchIn DEF OnMap
<1> HIDE DEF h, told
<1>7. StopsInv'
    BY <1>1, <1>2, <1>3, <1>5, <1>6 DEF StopsInv
<1>8. GoodsInv'
    <2>1. <<>> \in Seq(Filed)
        OBVIOUS
    <2> QED
        BY <1>1, <1>2, <1>3, <1>4, <2>1 DEF GoodsInv
<1>9. RestInv'
    BY <1>3 DEF CargoInv, RestInv
<1> QED
    BY <1>7, <1>8, <1>9 DEF CargoInv

\* A stop is built, under a handle that may have been used before.
LEMMA BuildHaltKeeps ==
    ASSUME CargoInv, NEW p \in Place, NEW h \in Halt, BuildHalt(p, h)
    PROVE  CargoInv'
<1>1. OnMap /\ StopsInv /\ GoodsInv
    BY DEF CargoInv, StopsInv
<1>2. PICK via \in Target : search' = [search EXCEPT !.known[h] = via]
    BY DEF BuildHalt, Target
<1>3. haltAt' = [haltAt EXCEPT ![p] = h] /\ haltAt[p] = NoHalt /\ outdated' = TRUE
    BY DEF BuildHalt
<1>4. UNCHANGED <<links, comp, staged, status, todo, waiting, convoy, stale, factories, transit, rare>>
      /\ started' = started + 1
    BY DEF BuildHalt, Again
<1>5. Alive \subseteq Alive'
    <2>1. ASSUME NEW x \in Alive PROVE x \in Alive'
        <3>1. PICK q \in Place : x = haltAt[q] /\ x # NoHalt
            BY DEF Alive, HaltsAt
        <3>2. haltAt'[q] = haltAt[q]
            BY <1>1, <1>3, <3>1 DEF OnMap
        <3> QED
            BY <3>1, <3>2 DEF Alive, HaltsAt
    <2> QED
        BY <2>1
<1>6. OnMap'
    BY <1>1, <1>3, NoSearchIn DEF OnMap
<1>7. StopsInv'
    BY <1>1, <1>3, <1>4, <1>5, <1>6 DEF StopsInv
<1>8. search' \in Searches
    BY <1>1, <1>2 DEF GoodsInv, Searches
<1>9. GoodsInv'
    BY <1>1, <1>4, <1>8 DEF GoodsInv
<1>10. RestInv'
    BY <1>4 DEF CargoInv, RestInv
<1> QED
    BY <1>7, <1>9, <1>10 DEF CargoInv

\* Factories come and go, a stop is cleared, and others search.
LEMMA OthersKeep ==
    ASSUME CargoInv,
           \/ OtherSearch
           \/ \E f \in Factory : RemoveFactory(f) \/ BuildFactory(f)
           \/ \E h \in Halt : Extinguish(h)
    PROVE  CargoInv'
<1>1. UNCHANGED <<haltVars, outdated, convoy, stale>>
    BY DEF OtherSearch, RemoveFactory, BuildFactory, Extinguish
<1>2. StopsInv'
    BY <1>1, StopsSame DEF CargoInv
<1>3. ASSUME OtherSearch PROVE GoodsInv' /\ RestInv'
    BY <1>1, <1>3, NoSearchIn DEF OtherSearch, CargoInv, GoodsInv, RestInv, boundVars
<1>4. ASSUME NEW f \in Factory, RemoveFactory(f) PROVE GoodsInv' /\ RestInv'
    BY <1>1, <1>4 DEF RemoveFactory, Rare, CargoInv, GoodsInv, RestInv, Counters
<1>5. ASSUME NEW f \in Factory, BuildFactory(f) PROVE GoodsInv' /\ RestInv'
    BY <1>1, <1>5 DEF BuildFactory, Again, CargoInv, GoodsInv, RestInv
<1>6. ASSUME NEW h \in Halt, Extinguish(h) PROVE GoodsInv' /\ RestInv'
    <2>1. <<>> \in Seq(Filed)
        OBVIOUS
    <2> QED
        BY <1>1, <1>6, <2>1 DEF Extinguish, Rare, CargoInv, GoodsInv, RestInv
<1> QED
    BY <1>2, <1>3, <1>4, <1>5, <1>6 DEF CargoInv

\* All that is under way is counted.
LEMMA UnderWayIn ==
    ASSUME GoodsInv, NEW f
    PROVE  UnderWay(f) \in Int
<1> DEFINE here == [h \in Halt |-> SumOf(GoodsOf(waiting[h]), f)]
           there == [c \in Convoy |-> SumOf(convoy[c].load, f)]
<1>1. \A h \in Halt : here[h] \in Nat
    <2>1. \A h \in Halt : GoodsOf(waiting[h]) \in Seq(Goods)
        BY GoodsOfIn DEF GoodsInv
    <2> QED
        BY <2>1, SumOfIn
<1>2. \A c \in Convoy : there[c] \in Nat
    <2>1. \A c \in Convoy : convoy[c].load \in Seq(Goods)
        BY ConvoyIs DEF GoodsInv
    <2> QED
        BY <2>1, SumOfIn
<1>3. DOMAIN here = Halt /\ DOMAIN there = Convoy
    OBVIOUS
<1>4. Selecting!IsFiniteSet(Halt) /\ Selecting!IsFiniteSet(Convoy)
    BY FreightAssumption, FiniteThere
<1>5. UnderWay(f) = SumFunction(here) + SumFunction(there)
    BY DEF UnderWay
<1> HIDE DEF here, there
<1>6. SumFunction(here) \in Nat
    BY <1>1, <1>3, <1>4, SumsAre, Selecting!SumNat
<1>7. SumFunction(there) \in Nat
    BY <1>2, <1>3, <1>4, SumsAre, Selecting!SumNat
<1> QED
    BY <1>5, <1>6, <1>7

\* What is read of a saved game.
LEMMA ReloadKeeps ==
    ASSUME CargoInv, Reload
    PROVE  CargoInv'
<1> DEFINE Bound(h) == IF h \in Alive THEN h ELSE NoHalt
           Read(g) == Routed(g, Bound(g.ziel), Bound(g.via))
           Full(queue) == {cargo \in Range(queue) : cargo.goods.amount > 0}
           queues == [h \in Halt |-> Selected(waiting[h], Full(waiting[h]))]
           Riding(c) == [i \in DOMAIN convoy[c].load |-> Read(convoy[c].load[i])]
           Filing(h) == [i \in DOMAIN queues[h] |-> Indexed(Read(queues[h][i].goods))]
<1>1. /\ waiting' = [h \in Halt |-> Filing(h)]
      /\ convoy' = [c \in Convoy |-> WithCargo(convoy[c], Riding(c), Total(convoy[c].load))]
    BY DEF Reload, WithCargo
<1>2. /\ OnMap /\ StopsInv /\ GoodsInv
      /\ \A h \in Halt : waiting[h] \in Seq(Filed)
      /\ \A c \in Convoy : convoy[c] \in Convoys
    BY DEF CargoInv, StopsInv, GoodsInv
<1>3. ASSUME NEW g \in Goods PROVE Read(g) \in Goods /\ Read(g).amount = g.amount
    <2>1. Bound(g.ziel) \in Target /\ Bound(g.via) \in Target
        BY NoSearchIn DEF Goods
    <2> HIDE DEF Bound
    <2> QED
        BY <2>1, RoutedGoods
<1> HIDE DEF Read
<1>4. ASSUME NEW h \in Halt PROVE Filing(h) \in Seq(Filed)
    <2> DEFINE S == Full(waiting[h])
               queue == waiting[h]
               kept == Selected(queue, S)
    <2>1. queue \in Seq(Filed)
        BY <1>2
    <2>2. queues[h] = kept
        OBVIOUS
    <2> HIDE DEF S, queue
    <2>3. kept \in Seq(Filed \cap S)
        BY <2>1, SelectedIn
    <2> HIDE DEF kept, queues
    <2>4. /\ Len(kept) \in Nat /\ DOMAIN kept = 1..Len(kept)
          /\ \A i \in DOMAIN kept : kept[i] \in Filed
        BY <2>3
    <2>5. \A i \in DOMAIN kept : Indexed(Read(kept[i].goods)) \in Filed
        BY <1>3, <2>4, FiledIs
    <2>6. [i \in DOMAIN kept |-> Indexed(Read(kept[i].goods))] \in Seq(Filed)
        BY <2>4, <2>5
    <2> QED
        BY <2>2, <2>6
<1>5. ASSUME NEW c \in Convoy
      PROVE  WithCargo(convoy[c], Riding(c), Total(convoy[c].load)) \in Convoys
    <2> DEFINE load == convoy[c].load
               read == Riding(c)
               N == Len(load)
    <2>1. load \in Seq(Goods) /\ Total(load) \in Nat /\ Total(load) <= Capacity
        <3>1. /\ convoy[c] \in Convoys /\ load \in Seq(Goods)
              /\ Total(load) <= convoy[c].total /\ convoy[c].total <= Capacity
              /\ convoy[c].total \in Nat /\ Capacity \in Nat
            BY <1>2, ConvoyIs, FreightAssumption
        <3>2. Total(load) \in Nat
            BY <3>1, TotalIs
        <3> HIDE DEF load
        <3> QED
            BY <3>1, <3>2
    <2>2. read = [i \in DOMAIN load |-> Read(load[i])]
        OBVIOUS
    <2> HIDE DEF load, read
    <2>3. N \in Nat /\ DOMAIN load = 1..N /\ \A i \in 1..N : load[i] \in Goods
        BY <2>1
    <2> HIDE DEF N
    <2>4. \A i \in 1..N : read[i] \in Goods /\ read[i].amount = load[i].amount
        BY <1>3, <2>2, <2>3
    <2>5. read \in Seq(Goods) /\ Len(read) = N
        BY <2>2, <2>3, <2>4
    <2>6. Total(read) = Total(load)
        BY <2>1, <2>4, <2>5, TotalSame DEF N
    <2>7. WithCargo(convoy[c], read, Total(load)) \in Convoys
        BY <1>2, <2>1, <2>5, <2>6, CargoIn
    <2> QED
        BY <2>7 DEF load, read
<1> HIDE DEF Filing, Riding, queues
<1>6. waiting' \in [Halt -> Seq(Filed)] /\ convoy' \in [Convoy -> Convoys]
    BY <1>1, <1>4, <1>5
<1>7. transit' \in Counters
    <2>1. \A f \in Factory : UnderWay(f) \in Int
        BY <1>2, UnderWayIn DEF CargoInv
    <2>2. transit' = [f \in Factory |-> IF f \in factories THEN UnderWay(f) ELSE 0]
        BY DEF Reload
    <2> QED
        BY <2>1, <2>2 DEF Counters
<1>8. GoodsInv'
    BY <1>6, <1>7, NoSearchIn DEF Reload, GoodsInv
<1>9. UNCHANGED <<haltAt, factories>> /\ Alive' = Alive
    BY DEF Reload, Alive, HaltsAt
<1>10. StopsInv'
    <2>1. links' \in [Halt -> SUBSET Halt]
        BY <1>2, ConnectionsIn DEF Reload
    <2>2. comp' \in [Halt -> SUBSET Halt]
        BY <1>2, ComponentsIn DEF Reload
    <2> QED
        BY <1>2, <1>9, <2>1, <2>2 DEF Reload, StopsInv, OnMap
<1>11. RestInv'
    <2>1. stale' = {} /\ Rare("reload")
        BY DEF Reload
    <2> QED
        BY <1>9, <2>1 DEF Rare, CargoInv, RestInv
<1> QED
    BY <1>8, <1>10, <1>11 DEF CargoInv

\* Every step keeps the invariant.
LEMMA CargoNext == CargoInv /\ [Next]_vars => CargoInv'
<1> SUFFICES ASSUME CargoInv, [Next]_vars PROVE CargoInv'
    OBVIOUS
<1>1. CASE UNCHANGED vars
    BY <1>1, StopsSame DEF vars, haltVars, CargoInv, GoodsInv, RestInv
<1>2. ASSUME NEW f \in Factory, Ship(f) PROVE CargoInv'
    BY <1>2, ShipKeeps
<1>3. ASSUME NEW c \in Convoy, Load(c) \/ Go(c) PROVE CargoInv'
    BY <1>3, LoadKeeps, GoKeeps
<1>4. CASE StepAll
    <2>1. ASSUME NEW h \in Halt, Reroute(h) PROVE CargoInv'
        BY <2>1, RerouteKeeps
    <2>2. ASSUME NEW c \in Convoy, CheckStale(c) PROVE CargoInv'
        BY <2>2, StaleKeeps
    <2> QED
        BY <1>4, <2>1, <2>2, ReconnectingKeeps DEF StepAll
<1>5. CASE Player
    <2>1. ASSUME NEW c \in Convoy, NEW s \in Timetables, EditSchedule(c, s) PROVE CargoInv'
        BY <2>1, EditKeeps
    <2>2. ASSUME NEW c \in Convoy, NEW listed \in BOOLEAN, EnterDepot(c, listed) PROVE CargoInv'
        BY <2>2, DepotKeeps
    <2>3. ASSUME NEW p \in Place, RemoveHalt(p) PROVE CargoInv'
        BY <2>3, RemoveHaltKeeps
    <2>4. ASSUME NEW p \in Place, NEW h \in Halt, BuildHalt(p, h) PROVE CargoInv'
        BY <2>4, BuildHaltKeeps
    <2> QED
        BY <1>5, <2>1, <2>2, <2>3, <2>4, ReloadKeeps, OthersKeep DEF Player
<1>6. CASE OtherSearch
    BY <1>6, OthersKeep
<1> QED
    BY <1>1, <1>2, <1>3, <1>4, <1>5, <1>6 DEF Next

\* The inductive invariant: waiting goods are filed under the stops they are bound
\* for, and a convoy counts at least what it carries and at most what it has room for.
THEOREM CargoInvariant == Spec => []CargoInv
<1>1. Init => CargoInv
    BY CargoInit
<1>2. CargoInv /\ [Next]_vars => CargoInv'
    BY CargoNext
<1> QED
    BY <1>1, <1>2, PTL DEF Spec

\* Amounts stay natural numbers, every stop and route is one, and a convoy counts no
\* more than it has room for (menge and total_freight are unsigned).
THEOREM TypeCorrect == Spec => []TypeOK
<1>1. CargoInv => TypeOK
    <2> SUFFICES ASSUME CargoInv PROVE TypeOK
        OBVIOUS
    <2>1. waiting \in [Halt -> Seq(Cargo)]
        BY FiledIs DEF CargoInv, GoodsInv
    <2>2. /\ convoy \in [Convoy -> [schedule : Schedules, stop : Nat, load : Seq(Goods),
                                    total : 0..Capacity]]
          /\ \A c \in Convoy : convoy[c].stop \in DOMAIN convoy[c].schedule
        BY DEF CargoInv, GoodsInv, Convoys
    <2> QED
        BY <2>1, <2>2 DEF CargoInv, StopsInv, OnMap, GoodsInv, Searches, Counters, RestInv, TypeOK
<1> QED
    BY <1>1, CargoInvariant, PTL

\* Waiting goods can be found where they are bound for, whatever joins them, takes some
\* of them away or sends them elsewhere (add_to_index, update_index, fetch_goods).
THEOREM IndexExactTheorem == Spec => []IndexExact
<1>1. CargoInv => IndexExact
    <2> SUFFICES ASSUME CargoInv, NEW h \in Halt, NEW i \in DOMAIN waiting[h]
                 PROVE  waiting[h][i] = Indexed(waiting[h][i].goods)
        BY DEF IndexExact
    <2>1. waiting[h] \in Seq(Filed)
        BY DEF CargoInv, GoodsInv
    <2>2. waiting[h][i] \in Filed
        BY <2>1
    <2> QED
        BY <2>2, FiledIs
<1> QED
    BY <1>1, CargoInvariant, PTL

\* What is in a vehicle never exceeds total_freight, nor total_freight the capacity,
\* whatever is loaded, unloaded, discarded or rerouted (hat_gehalten).
THEOREM NeverOverloadedTheorem == Spec => []NeverOverloaded
<1>1. CargoInv => NeverOverloaded
    <2>1. ASSUME CargoInv, NEW c \in Convoy
          PROVE  Total(convoy[c].load) <= convoy[c].total /\ convoy[c].total <= Capacity
        BY <2>1, ConvoyIs DEF CargoInv, GoodsInv
    <2> QED
        BY <2>1 DEF NeverOverloaded
<1> QED
    BY <1>1, CargoInvariant, PTL

------------------------------------------------------------------------------
(* Goods that leave a convoy.                                               *)

\* What a convoy carries that f does not know of.
Carried(con, counter, f) == SumOf(con.load, f) - counter[f]

\* All goods of a load are told of.
LEMMA ToldAllCounts ==
    ASSUME NEW counter \in Counters, NEW load \in Seq(Goods), NEW f \in Factory, f \in factories
    PROVE  ToldAll(counter, load)[f] = counter[f] - SumOf(load, f)
BY DEF ToldAll

\* Goods that cannot leave the convoy are sent elsewhere, or told of (remove_stale_cargo).
LEMMA StaleRemovedCounts ==
    ASSUME OnMap, NEW con \in Convoys, NEW counter \in Counters, NEW f \in Factory, f \in factories
    PROVE  LET r == RemoveStaleCargo(con, counter)
           IN  Carried(r.con, r.transit, f) = Carried(con, counter, f)
<1> DEFINE stops == StopsFrom(con)
           Sent(g) == IF g.via \in Range(stops) THEN g
                      ELSE Routed(g, IF g.ziel \in Alive THEN g.ziel ELSE Head(stops), Head(stops))
           moved == [i \in DOMAIN con.load |-> Sent(con.load[i])]
           load == IF stops = <<>> THEN <<>> ELSE moved
           told == IF stops = <<>> THEN ToldAll(counter, con.load) ELSE counter
           r == RemoveStaleCargo(con, counter)
<1>1. r.con.load = load /\ r.transit = told
    <2>1. r = [con |-> WithCargo(con, load, Total(load)), transit |-> told]
        BY DEF RemoveStaleCargo, WithCargo
    <2> HIDE DEF load, told
    <2>2. WithCargo(con, load, Total(load)).load = load
        BY ConvoyIs DEF WithCargo
    <2> QED
        BY <2>1, <2>2
<1>2. con.load \in Seq(Goods) /\ counter[f] \in Int /\ SumOf(con.load, f) \in Nat
    BY ConvoyIs, SumOfIn DEF Counters
<1>3. SumOf(load, f) - told[f] = SumOf(con.load, f) - counter[f]
    <2>1. CASE stops = <<>>
        <3>1. load = <<>> /\ told = ToldAll(counter, con.load)
            BY <2>1
        <3>2. SumOf(load, f) = 0
            BY <3>1, SumOfNone
        <3>3. told[f] = counter[f] - SumOf(con.load, f)
            BY <1>2, <3>1, ToldAllCounts
        <3> HIDE DEF load, told
        <3> QED
            BY <1>2, <3>2, <3>3
    <2>2. CASE stops # <<>>
        <3> DEFINE N == Len(con.load)
        <3>1. load = moved /\ told = counter
            BY <2>2
        <3>2. ASSUME NEW g \in Goods
              PROVE  Sent(g) \in Goods /\ Share(Sent(g), f) = Share(g, f)
            <4> DEFINE first == Head(stops)
                       ziel == IF g.ziel \in Alive THEN g.ziel ELSE first
            <4>1. first \in Target
                <5>1. stops \in Seq(Halt)
                    BY ConvoyIs, StopsIn
                <5> HIDE DEF stops
                <5>2. first \in Halt
                    BY <2>2, <5>1
                <5> QED
                    BY <5>2 DEF Target
            <4>2. ziel \in Target
                BY <4>1 DEF Goods
            <4>3. Sent(g) = g \/ Sent(g) = Routed(g, ziel, first)
                OBVIOUS
            <4> HIDE DEF first, ziel, Sent
            <4>4. /\ Routed(g, ziel, first) \in Goods /\ Routed(g, ziel, first).amount = g.amount
                  /\ Routed(g, ziel, first).factory = g.factory
                BY <4>1, <4>2, RoutedGoods
            <4> QED
                BY <4>3, <4>4 DEF Share
        <3>3. N \in Nat /\ DOMAIN con.load = 1..N /\ \A i \in 1..N : con.load[i] \in Goods
            BY <1>2
        <3> HIDE DEF stops, N, Sent, load, told
        <3>4. \A i \in 1..N : moved[i] \in Goods /\ Share(moved[i], f) = Share(con.load[i], f)
            BY <3>2, <3>3
        <3>5. moved = [i \in 1..N |-> moved[i]]
            BY <3>3
        <3> HIDE DEF moved
        <3>6. moved \in Seq(Goods) /\ Len(moved) = N
            BY <3>3, <3>4, <3>5
        <3>7. SumOf(moved, f) = SumOf(con.load, f)
            BY <1>2, <3>4, <3>6, SumOfSame DEF N
        <3> QED
            BY <3>1, <3>7
    <2> QED
        BY <2>1, <2>2
<1> QED
    BY <1>1, <1>3 DEF Carried

\* So is a cargo that is discarded.
LEMMA DiscardedCounts ==
    ASSUME NEW con \in Convoys, NEW counter \in Counters, NEW f \in Factory, f \in factories
    PROVE  LET d == Discarded(con, counter)
           IN  Carried(d.con, d.transit, f) = Carried(con, counter, f)
<1> DEFINE d == Discarded(con, counter)
<1>1. d.con.load = <<>> /\ d.transit = ToldAll(counter, con.load)
    BY ConvoyIs DEF Discarded
<1>2. con.load \in Seq(Goods) /\ counter[f] \in Int /\ SumOf(con.load, f) \in Nat
    BY ConvoyIs, SumOfIn DEF Counters
<1>3. SumOf(d.con.load, f) = 0 /\ d.transit[f] = counter[f] - SumOf(con.load, f)
    BY <1>1, <1>2, SumOfNone, ToldAllCounts
<1> HIDE DEF d
<1> QED
    BY <1>2, <1>3 DEF Carried, d

------------------------------------------------------------------------------
(* All that is under way.                                                   *)

\* What waits, and what rides.
Here(w, f) == [h \in Halt |-> Waits(w[h], f)]
There(v, f) == [c \in Convoy |-> SumOf(v[c].load, f)]
AllHere(w, f) == Selecting!Sum(Here(w, f), Halt)
AllThere(v, f) == Selecting!Sum(There(v, f), Convoy)

\* What is under way waits or rides.
LEMMA UnderWayIs ==
    ASSUME NEW f
    PROVE  UnderWay(f) = AllHere(waiting, f) + AllThere(convoy, f)
<1>1. DOMAIN Here(waiting, f) = Halt /\ DOMAIN There(convoy, f) = Convoy
    BY DEF Here, There
<1>2. UnderWay(f) = SumFunction(Here(waiting, f)) + SumFunction(There(convoy, f))
    BY DEF UnderWay, Here, There, Waits
<1> QED
    BY <1>1, <1>2, SumsAre DEF AllHere, AllThere

\* All that waits and all that rides are numbers.
LEMMA HereIn ==
    ASSUME NEW w \in [Halt -> Seq(Filed)], NEW f
    PROVE  /\ AllHere(w, f) \in Int
           /\ \A h \in Halt : Here(w, f)[h] = Waits(w[h], f) /\ Here(w, f)[h] \in Int
<1>1. \A h \in Halt : Here(w, f)[h] = Waits(w[h], f) /\ Here(w, f)[h] \in Int
    <2>1. \A h \in Halt : Waits(w[h], f) \in Nat
        BY WaitsIn
    <2> QED
        BY <2>1 DEF Here
<1> QED
    BY <1>1, FreightAssumption, FiniteThere, Selecting!SumInt DEF AllHere

\* The same for convoys.
LEMMA ThereIn ==
    ASSUME NEW v \in [Convoy -> Convoys], NEW f
    PROVE  /\ AllThere(v, f) \in Int
           /\ \A c \in Convoy : There(v, f)[c] = SumOf(v[c].load, f) /\ There(v, f)[c] \in Int
<1>1. \A c \in Convoy : There(v, f)[c] = SumOf(v[c].load, f) /\ There(v, f)[c] \in Int
    <2>1. \A c \in Convoy : v[c].load \in Seq(Goods)
        BY ConvoyIs
    <2>2. \A c \in Convoy : SumOf(v[c].load, f) \in Nat
        BY <2>1, SumOfIn
    <2> QED
        BY <2>2 DEF There
<1> QED
    BY <1>1, FreightAssumption, FiniteThere, Selecting!SumInt DEF AllThere

\* What a change of one queue does to all that waits, and of one load to all that rides.
HereMoves(w, x, h, queue, f) == AllHere(x, f) = AllHere(w, f) - Waits(w[h], f) + Waits(queue, f)
ThereMoves(v, x, c, con, f) ==
    AllThere(x, f) = AllThere(v, f) - SumOf(v[c].load, f) + SumOf(con.load, f)

\* The queue of one stop changes,
LEMMA HereChanged ==
    ASSUME NEW w \in [Halt -> Seq(Filed)], NEW h \in Halt, NEW queue \in Seq(Filed), NEW f,
           NEW x, x = [w EXCEPT ![h] = queue]
    PROVE  HereMoves(w, x, h, queue, f)
<1>1. x \in [Halt -> Seq(Filed)] /\ x[h] = queue /\ \A k \in Halt \ {h} : x[k] = w[k]
    OBVIOUS
<1>2. /\ \A k \in Halt : Here(w, f)[k] \in Int
      /\ \A k \in Halt : Here(x, f)[k] \in Int
      /\ \A k \in Halt \ {h} : Here(w, f)[k] = Here(x, f)[k]
      /\ Here(w, f)[h] = Waits(w[h], f) /\ Here(x, f)[h] = Waits(queue, f)
    <2>1. \A k \in Halt : Here(w, f)[k] = Waits(w[k], f) /\ Here(w, f)[k] \in Int
        BY HereIn
    <2>2. \A k \in Halt : Here(x, f)[k] = Waits(x[k], f) /\ Here(x, f)[k] \in Int
        BY <1>1, HereIn
    <2> QED
        BY <1>1, <2>1, <2>2
<1>3. Selecting!Changed(Here(w, f), Here(x, f), Halt, h)
    BY <1>2, FreightAssumption, FiniteThere, Selecting!SumChanged
<1> QED
    BY <1>2, <1>3 DEF Selecting!Changed, AllHere, HereMoves

\* or the load of one convoy.
LEMMA ThereChanged ==
    ASSUME NEW v \in [Convoy -> Convoys], NEW c \in Convoy, NEW con \in Convoys, NEW f,
           NEW x, x = [v EXCEPT ![c] = con]
    PROVE  ThereMoves(v, x, c, con, f)
<1>1. x \in [Convoy -> Convoys] /\ x[c] = con /\ \A k \in Convoy \ {c} : x[k] = v[k]
    OBVIOUS
<1>2. /\ \A k \in Convoy : There(v, f)[k] \in Int
      /\ \A k \in Convoy : There(x, f)[k] \in Int
      /\ \A k \in Convoy \ {c} : There(v, f)[k] = There(x, f)[k]
      /\ There(v, f)[c] = SumOf(v[c].load, f) /\ There(x, f)[c] = SumOf(con.load, f)
    <2>1. \A k \in Convoy : There(v, f)[k] = SumOf(v[k].load, f) /\ There(v, f)[k] \in Int
        BY ThereIn
    <2>2. \A k \in Convoy : There(x, f)[k] = SumOf(x[k].load, f) /\ There(x, f)[k] \in Int
        BY <1>1, ThereIn
    <2> QED
        BY <1>1, <2>1, <2>2
<1>3. Selecting!Changed(There(v, f), There(x, f), Convoy, c)
    BY <1>2, FreightAssumption, FiniteThere, Selecting!SumChanged
<1> QED
    BY <1>2, <1>3 DEF Selecting!Changed, AllThere, ThereMoves

\* What a factory believes to be under way is a number, less what is.
LEMMA DriftIs ==
    ASSUME GoodsInv, NEW f \in Factory
    PROVE  /\ Drift(f) = transit[f] - (AllHere(waiting, f) + AllThere(convoy, f))
           /\ Drift(f)' = transit'[f] - (AllHere(waiting', f) + AllThere(convoy', f))
           /\ transit[f] \in Int /\ AllHere(waiting, f) \in Int /\ AllThere(convoy, f) \in Int
           /\ Drift(f) \in Int
<1>1. UnderWay(f) = AllHere(waiting, f) + AllThere(convoy, f)
    BY UnderWayIs
<1>2. UnderWay(f)' = AllHere(waiting', f) + AllThere(convoy', f)
    <2>1. DOMAIN Here(waiting', f) = Halt /\ DOMAIN There(convoy', f) = Convoy
        BY DEF Here, There
    <2>2. UnderWay(f)' = SumFunction(Here(waiting', f)) + SumFunction(There(convoy', f))
        BY DEF UnderWay, Here, There, Waits
    <2> QED
        BY <2>1, <2>2, SumsAre DEF AllHere, AllThere
<1>3. transit[f] \in Int /\ AllHere(waiting, f) \in Int /\ AllThere(convoy, f) \in Int
    BY HereIn, ThereIn DEF GoodsInv, Counters
<1>4. /\ Drift(f) = transit[f] - (AllHere(waiting, f) + AllThere(convoy, f))
      /\ Drift(f)' = transit'[f] - (AllHere(waiting', f) + AllThere(convoy', f))
    BY <1>1, <1>2 DEF Drift
<1> QED
    BY <1>3, <1>4

\* The queue of a stop changes,
LEMMA QueueDrift ==
    ASSUME GoodsInv, NEW h \in Halt, NEW queue \in Seq(Filed), NEW f \in Factory,
           waiting' = [waiting EXCEPT ![h] = queue], convoy' = convoy, transit' \in Counters
    PROVE  Drift(f)' = Drift(f) + (Waits(waiting[h], f) - transit[f]) - (Waits(queue, f) - transit'[f])
<1>1. waiting[h] \in Seq(Filed) /\ waiting \in [Halt -> Seq(Filed)]
    BY DEF GoodsInv
<1>2. HereMoves(waiting, waiting', h, queue, f)
    BY <1>1, HereChanged
<1>3. Waits(waiting[h], f) \in Nat /\ Waits(queue, f) \in Nat /\ transit'[f] \in Int
    BY <1>1, WaitsIn DEF Counters
<1>4. /\ Drift(f) = transit[f] - (AllHere(waiting, f) + AllThere(convoy, f))
      /\ Drift(f)' = transit'[f] - (AllHere(waiting', f) + AllThere(convoy', f))
      /\ transit[f] \in Int /\ AllHere(waiting, f) \in Int /\ AllThere(convoy, f) \in Int
    BY DriftIs
<1>5. AllThere(convoy', f) = AllThere(convoy, f)
    OBVIOUS
<1> QED
    BY <1>2, <1>3, <1>4, <1>5 DEF HereMoves

\* the load of a convoy,
LEMMA ConvoyDrift ==
    ASSUME GoodsInv, NEW c \in Convoy, NEW con \in Convoys, NEW f \in Factory,
           waiting' = waiting, convoy' = [convoy EXCEPT ![c] = con], transit' \in Counters
    PROVE  Drift(f)' = Drift(f) + Carried(convoy[c], transit, f) - Carried(con, transit', f)
<1>1. convoy[c].load \in Seq(Goods) /\ con.load \in Seq(Goods) /\ convoy \in [Convoy -> Convoys]
    BY ConvoyIs DEF GoodsInv
<1>2. ThereMoves(convoy, convoy', c, con, f)
    BY <1>1, ThereChanged
<1>3. SumOf(convoy[c].load, f) \in Nat /\ SumOf(con.load, f) \in Nat /\ transit'[f] \in Int
    BY <1>1, SumOfIn DEF Counters
<1>4. /\ Drift(f) = transit[f] - (AllHere(waiting, f) + AllThere(convoy, f))
      /\ Drift(f)' = transit'[f] - (AllHere(waiting', f) + AllThere(convoy', f))
      /\ transit[f] \in Int /\ AllHere(waiting, f) \in Int /\ AllThere(convoy, f) \in Int
    BY DriftIs
<1>5. AllHere(waiting', f) = AllHere(waiting, f)
    OBVIOUS
<1> QED
    BY <1>2, <1>3, <1>4, <1>5 DEF Carried, ThereMoves

\* without a change if what leaves the load is told of,
LEMMA ConvoyDriftNone ==
    ASSUME GoodsInv, NEW c \in Convoy, NEW con \in Convoys, NEW counter \in Counters, NEW f \in Factory,
           waiting' = waiting, convoy' = [convoy EXCEPT ![c] = con], transit' = counter,
           Carried(con, counter, f) = Carried(convoy[c], transit, f)
    PROVE  Drift(f)' = Drift(f)
<1>1. Drift(f)' = Drift(f) + Carried(convoy[c], transit, f) - Carried(con, transit', f)
    BY ConvoyDrift
<1>2. Carried(convoy[c], transit, f) \in Int
    <2>1. convoy[c].load \in Seq(Goods) /\ transit[f] \in Int
        BY ConvoyIs DEF GoodsInv, Counters
    <2>2. SumOf(convoy[c].load, f) \in Nat
        BY <2>1, SumOfIn
    <2> QED
        BY <2>1, <2>2 DEF Carried
<1>3. Drift(f) \in Int
    BY DriftIs
<1> QED
    BY <1>1, <1>2, <1>3

\* or both.
LEMMA ExchangeDrift ==
    ASSUME GoodsInv, NEW h \in Halt, NEW side \in Sides, NEW c \in Convoy, NEW con \in Convoys,
           NEW f \in Factory, waiting' = [waiting EXCEPT ![h] = side.queue],
           convoy' = [convoy EXCEPT ![c] = con], transit' = side.transit
    PROVE  /\ Drift(f)' = Drift(f) + Together(Side(h), convoy[c], f) - Together(side, con, f)
           /\ Together(Side(h), convoy[c], f) \in Int /\ Together(side, con, f) \in Int
<1> DEFINE queue == side.queue
<1>1. /\ waiting[h] \in Seq(Filed) /\ waiting \in [Halt -> Seq(Filed)] /\ queue \in Seq(Filed)
      /\ convoy[c].load \in Seq(Goods) /\ con.load \in Seq(Goods) /\ convoy \in [Convoy -> Convoys]
    BY ConvoyIs, SideParts DEF GoodsInv
<1>2. /\ Together(side, con, f) = Waits(queue, f) - transit'[f] + SumOf(con.load, f)
      /\ Together(Side(h), convoy[c], f)
         = Waits(waiting[h], f) - transit[f] + SumOf(convoy[c].load, f)
    BY DEF Together, Excess, Side
<1>3. waiting' = [waiting EXCEPT ![h] = queue]
    OBVIOUS
<1>4. transit'[f] \in Int
    BY SideParts DEF Counters
<1> HIDE DEF queue
<1>5. HereMoves(waiting, waiting', h, queue, f)
    BY <1>1, <1>3, HereChanged
<1>6. ThereMoves(convoy, convoy', c, con, f)
    BY <1>1, ThereChanged
<1>7. /\ Waits(waiting[h], f) \in Nat /\ Waits(queue, f) \in Nat
      /\ SumOf(convoy[c].load, f) \in Nat /\ SumOf(con.load, f) \in Nat
    BY <1>1, WaitsIn, SumOfIn
<1>8. /\ Drift(f) = transit[f] - (AllHere(waiting, f) + AllThere(convoy, f))
      /\ Drift(f)' = transit'[f] - (AllHere(waiting', f) + AllThere(convoy', f))
      /\ transit[f] \in Int /\ AllHere(waiting, f) \in Int /\ AllThere(convoy, f) \in Int
    BY DriftIs
<1> QED
    BY <1>2, <1>4, <1>5, <1>6, <1>7, <1>8 DEF HereMoves, ThereMoves

\* Nothing of this changes.
LEMMA NoDrift ==
    ASSUME GoodsInv, NEW f \in Factory, waiting' = waiting, transit'[f] = transit[f],
           \A c \in Convoy : convoy'[c].load = convoy[c].load
    PROVE  Drift(f)' = Drift(f)
<1>1. There(convoy', f) = There(convoy, f)
    BY DEF There
<1> QED
    BY <1>1, DriftIs DEF AllThere

------------------------------------------------------------------------------
(* The counter of a factory follows the goods.                              *)

\* What TransitFollowsGoods says of one factory in one step.
Follows(f) ==
    Drift(f)' # Drift(f) =>
       \/ Reload /\ Drift(f)' = 0
       \/ /\ Drift(f)' > Drift(f)
          /\ \/ \E h \in Halt : Extinguish(h)
             \/ \E c \in Convoy : Load(c) /\ LostAt(haltAt[convoy[c].schedule[convoy[c].stop]], f)

\* verteile_waren tells of all it ships,
LEMMA ShipFollows ==
    ASSUME CargoInv, NEW p \in Factory, Ship(p), NEW f \in Factory, f \in factories
    PROVE  Drift(f)' = Drift(f)
<1>1. OnMap /\ GoodsInv
    BY DEF CargoInv, StopsInv
<1>2. PICK h \in HaltsAt(Source), m \in Amounts :
          \E r \in RoutesFrom(h, p), g \in MakingRoom(h, p) :
              /\ waiting' = [waiting EXCEPT ![h] = Shipped(h, p, m, r, g).queue]
              /\ transit' = Shipped(h, p, m, r, g).transit
    BY DEF Ship
<1>3. PICK r \in RoutesFrom(h, p), g \in MakingRoom(h, p) :
          /\ waiting' = [waiting EXCEPT ![h] = Shipped(h, p, m, r, g).queue]
          /\ transit' = Shipped(h, p, m, r, g).transit
    BY <1>2
<1>4. h \in Halt
    BY <1>1, HaltsIn, FreightAssumption
<1> DEFINE x == Shipped(h, p, m, r, g)
<1>5. x \in Sides /\ Excess(x, f) = Excess(Side(h), f)
    BY <1>1, <1>4, ShippedIn
<1>6. convoy' = convoy
    BY DEF Ship
<1>7. waiting' = [waiting EXCEPT ![h] = x.queue] /\ transit' = x.transit
    BY <1>3
<1> HIDE DEF x
<1>8. x.queue \in Seq(Filed) /\ transit' \in Counters
    BY <1>5, <1>7, SideParts
<1>9. Drift(f)' = Drift(f) + (Waits(waiting[h], f) - transit[f]) - (Waits(x.queue, f) - transit'[f])
    BY <1>1, <1>4, <1>6, <1>7, <1>8, QueueDrift
<1>10. Waits(x.queue, f) - transit'[f] = Waits(waiting[h], f) - transit[f]
    BY <1>5, <1>7 DEF Excess, Side
<1>11. Waits(waiting[h], f) - transit[f] \in Int /\ Drift(f) \in Int
    <2>1. waiting[h] \in Seq(Filed) /\ transit[f] \in Int
        BY <1>1, <1>4 DEF GoodsInv, Counters
    <2>2. Waits(waiting[h], f) \in Nat
        BY <2>1, WaitsIn
    <2> QED
        BY <1>1, <2>1, <2>2, DriftIs
<1> QED
    BY <1>9, <1>10, <1>11

\* reroute_goods of all it removes.
LEMMA RerouteFollows ==
    ASSUME CargoInv, NEW h \in Halt, Reroute(h), NEW f \in Factory, f \in factories
    PROVE  Drift(f)' = Drift(f)
<1>1. OnMap /\ GoodsInv
    BY DEF CargoInv, StopsInv
<1>2. PICK e \in Explorations(h) : /\ waiting' = [waiting EXCEPT ![h] = Rerouted(Side(h), h, e).queue]
                                  /\ transit' = Rerouted(Side(h), h, e).transit
    BY DEF Reroute
<1>3. e \in [Halt -> Target]
    BY <1>1, ExplorationIn
<1> DEFINE x == Rerouted(Side(h), h, e)
<1>4. x \in Sides /\ Excess(x, f) = Excess(Side(h), f)
    BY <1>1, <1>3, SideIn, ReroutedIn, ReroutedCounts
<1>5. convoy' = convoy
    BY DEF Reroute
<1>6. waiting' = [waiting EXCEPT ![h] = x.queue] /\ transit' = x.transit
    BY <1>2
<1> HIDE DEF x
<1>7. x.queue \in Seq(Filed) /\ transit' \in Counters
    BY <1>4, <1>6, SideParts
<1>8. Drift(f)' = Drift(f) + (Waits(waiting[h], f) - transit[f]) - (Waits(x.queue, f) - transit'[f])
    BY <1>1, <1>5, <1>6, <1>7, QueueDrift
<1>9. Waits(x.queue, f) - transit'[f] = Waits(waiting[h], f) - transit[f]
    BY <1>4, <1>6 DEF Excess, Side
<1>10. Waits(waiting[h], f) - transit[f] \in Int /\ Drift(f) \in Int
    <2>1. waiting[h] \in Seq(Filed) /\ transit[f] \in Int
        BY <1>1 DEF GoodsInv, Counters
    <2>2. Waits(waiting[h], f) \in Nat
        BY <2>1, WaitsIn
    <2> QED
        BY <1>1, <2>1, <2>2, DriftIs
<1> QED
    BY <1>8, <1>9, <1>10

\* A convoy loses goods only at a stop where some wait for one that is gone
\* (hat_gehalten).
LEMMA LoadFollows ==
    ASSUME CargoInv, NEW c \in Convoy, Load(c), NEW f \in Factory, f \in factories
    PROVE  Follows(f)
<1>1. PICK h \in HaltsAt({convoy[c].schedule[convoy[c].stop]}) :
          \E e \in Explorations(h), all \in BOOLEAN :
            LET x == Exchanged(h, convoy[c], all, e)
            IN  /\ waiting' = [waiting EXCEPT ![h] = x.side.queue]
                /\ transit' = x.side.transit
                /\ convoy' = [convoy EXCEPT ![c] = x.con]
    BY DEF Load
<1>h. h = haltAt[convoy[c].schedule[convoy[c].stop]]
    BY DEF HaltsAt
<1>2. PICK e \in Explorations(h), all \in BOOLEAN :
            LET x == Exchanged(h, convoy[c], all, e)
            IN  /\ waiting' = [waiting EXCEPT ![h] = x.side.queue]
                /\ transit' = x.side.transit
                /\ convoy' = [convoy EXCEPT ![c] = x.con]
    BY <1>1
<1> DEFINE side == Exchanged(h, convoy[c], all, e).side
           con == Exchanged(h, convoy[c], all, e).con
           before == Together(Side(h), convoy[c], f)
           after == Together(side, con, f)
<1>3. OnMap /\ GoodsInv /\ convoy[c] \in Convoys
    BY DEF CargoInv, StopsInv, GoodsInv
<1>4. h \in Halt /\ h \in Alive
    <2>1. convoy[c].schedule[convoy[c].stop] \in Place
        BY <1>3, ConvoyIs
    <2>2. h \in Alive
        BY <2>1 DEF HaltsAt, Alive
    <2> QED
        BY <1>3, <2>2, HaltsIn
<1>5. e \in [Halt -> Target] /\ Side(h) \in Sides
    BY <1>3, <1>4, ExplorationIn, SideIn
<1>6. /\ side \in Sides /\ con \in Convoys
      /\ after <= before
      /\ Safe(Side(h), h, f) => after = before
    BY <1>3, <1>4, <1>5, ExchangedIn, ExchangedCounts
<1>7. /\ waiting' = [waiting EXCEPT ![h] = side.queue] /\ transit' = side.transit
      /\ convoy' = [convoy EXCEPT ![c] = con]
    BY <1>2
<1> HIDE DEF side, con
<1>8. Drift(f)' = Drift(f) + before - after /\ before \in Int /\ after \in Int
    BY <1>3, <1>4, <1>6, <1>7, ExchangeDrift
<1>9. Drift(f) \in Int
    BY <1>3, DriftIs
<1> HIDE DEF before, after
<1>10. CASE Safe(Side(h), h, f)
    BY <1>6, <1>8, <1>9, <1>10 DEF Follows
<1>11. CASE ~Safe(Side(h), h, f)
    <2>1. waiting[h] \in Seq(Filed) /\ Side(h).queue = waiting[h]
        BY <1>3, <1>4 DEF GoodsInv, Side
    <2>2. ~NoneLost(waiting[h], f)
        BY <1>11, <2>1 DEF Safe
    <2>3. PICK i \in DOMAIN waiting[h] : waiting[h][i].goods.factory = f /\ waiting[h][i].at.via \notin Alive
        BY <2>2 DEF NoneLost
    <2>4. waiting[h][i].goods.via = waiting[h][i].at.via
        <3>1. waiting[h][i] \in Filed
            BY <2>1
        <3>2. waiting[h][i] = Indexed(waiting[h][i].goods)
            BY <3>1, FiledIs
        <3> QED
            BY <3>2 DEF Indexed
    <2>5. Drift(f)' # Drift(f) => Drift(f)' > Drift(f)
        BY <1>6, <1>8, <1>9
    <2>6. search.origin = h => \A d \in HaltsAt(Covers[f]) : search.known[d] = NoHalt
        BY <1>11 DEF Safe, Good, Side
    <2>7. LostAt(h, f)
        BY <2>3, <2>4, <2>6 DEF LostAt
    <2> QED
        BY <1>h, <2>5, <2>7 DEF Follows
<1> QED
    BY <1>10, <1>11

\* The goods of a stale convoy are told of,
LEMMA StaleFollows ==
    ASSUME CargoInv, NEW c \in Convoy, CheckStale(c), NEW f \in Factory, f \in factories
    PROVE  Drift(f)' = Drift(f)
<1> DEFINE r == RemoveStaleCargo(convoy[c], transit)
<1>1. OnMap /\ GoodsInv /\ convoy[c] \in Convoys /\ transit \in Counters
    BY DEF CargoInv, StopsInv, GoodsInv
<1>2. convoy' = [convoy EXCEPT ![c] = r.con] /\ transit' = r.transit /\ waiting' = waiting
    BY DEF CheckStale
<1>3. r.con \in Convoys /\ r.transit \in Counters
    BY <1>1, StaleRemovedIn
<1>4. Carried(r.con, r.transit, f) = Carried(convoy[c], transit, f)
    BY <1>1, StaleRemovedCounts
<1> HIDE DEF r
<1> QED
    BY <1>1, <1>2, <1>3, <1>4, ConvoyDriftNone

\* those of a convoy with another schedule,
LEMMA EditFollows ==
    ASSUME CargoInv, NEW c \in Convoy, NEW s \in Timetables, EditSchedule(c, s),
           NEW f \in Factory, f \in factories
    PROVE  Drift(f)' = Drift(f)
<1>1. OnMap /\ GoodsInv /\ convoy[c] \in Convoys /\ transit \in Counters
    BY DEF CargoInv, StopsInv, GoodsInv
<1>2. PICK k \in DOMAIN s :
         LET r == RemoveStaleCargo([convoy[c] EXCEPT !.schedule = s, !.stop = k], transit)
         IN  convoy' = [convoy EXCEPT ![c] = r.con] /\ transit' = r.transit
    BY DEF EditSchedule
<1> DEFINE new == [convoy[c] EXCEPT !.schedule = s, !.stop = k]
           r == RemoveStaleCargo(new, transit)
<1>3. new \in Convoys /\ new.load = convoy[c].load
    BY <1>1, EditedIn
<1>4. convoy' = [convoy EXCEPT ![c] = r.con] /\ transit' = r.transit /\ waiting' = waiting
    BY <1>2 DEF EditSchedule
<1> HIDE DEF new
<1>5. r.con \in Convoys /\ r.transit \in Counters
    BY <1>1, <1>3, StaleRemovedIn
<1>6. Carried(r.con, r.transit, f) = Carried(new, transit, f)
    BY <1>1, <1>3, StaleRemovedCounts
<1>7. Carried(new, transit, f) = Carried(convoy[c], transit, f)
    BY <1>3 DEF Carried
<1> HIDE DEF r
<1> QED
    BY <1>1, <1>4, <1>5, <1>6, <1>7, ConvoyDriftNone

\* and those of a convoy in a depot.
LEMMA DepotFollows ==
    ASSUME CargoInv, NEW c \in Convoy, NEW listed \in BOOLEAN, EnterDepot(c, listed),
           NEW f \in Factory, f \in factories
    PROVE  Drift(f)' = Drift(f)
<1> DEFINE d == Discarded(convoy[c], transit)
           r == IF listed THEN RemoveStaleCargo(d.con, d.transit) ELSE d
<1>1. OnMap /\ GoodsInv /\ convoy[c] \in Convoys /\ transit \in Counters
    BY DEF CargoInv, StopsInv, GoodsInv
<1>2. /\ d.con \in Convoys /\ d.transit \in Counters
      /\ Carried(d.con, d.transit, f) = Carried(convoy[c], transit, f)
    BY <1>1, DiscardedIn, DiscardedCounts
<1>3. convoy' = [convoy EXCEPT ![c] = r.con] /\ transit' = r.transit /\ waiting' = waiting
    BY DEF EnterDepot
<1> HIDE DEF d
<1>4. /\ r.con \in Convoys /\ r.transit \in Counters
      /\ Carried(r.con, r.transit, f) = Carried(d.con, d.transit, f)
    BY <1>1, <1>2, StaleRemovedIn, StaleRemovedCounts
<1> HIDE DEF r
<1> QED
    BY <1>1, <1>2, <1>3, <1>4, ConvoyDriftNone

\* So is what waits at a stop that is removed.
LEMMA RemoveHaltFollows ==
    ASSUME CargoInv, NEW p \in Place, RemoveHalt(p), NEW f \in Factory, f \in factories
    PROVE  Drift(f)' = Drift(f)
<1> DEFINE h == haltAt[p]
           load == GoodsOf(waiting[h])
<1>1. OnMap /\ GoodsInv /\ transit \in Counters
    BY DEF CargoInv, StopsInv, GoodsInv
<1>2. h \in Halt
    BY <1>1 DEF RemoveHalt, OnMap, Target
<1>3. waiting[h] \in Seq(Filed) /\ load \in Seq(Goods)
    BY <1>1, <1>2, GoodsOfIn DEF GoodsInv
<1>4. /\ waiting' = [waiting EXCEPT ![h] = <<>>] /\ convoy' = convoy
      /\ transit' = ToldAll(transit, load)
    BY DEF RemoveHalt
<1>5. Waits(waiting[h], f) = SumOf(load, f)
    BY DEF Waits
<1> HIDE DEF h, load
<1>6. transit' \in Counters /\ transit'[f] = transit[f] - SumOf(load, f)
    BY <1>1, <1>3, <1>4, ToldAllIn, ToldAllCounts
<1>7. <<>> \in Seq(Filed) /\ Waits(<<>>, f) = 0 /\ Waits(waiting[h], f) \in Nat
    <2>1. <<>> \in Seq(Filed)
        OBVIOUS
    <2> QED
        BY <1>3, <2>1, WaitsIn
<1>8. Drift(f)' = Drift(f) + (Waits(waiting[h], f) - transit[f]) - (Waits(<<>>, f) - transit'[f])
    BY <1>1, <1>2, <1>4, <1>6, <1>7, QueueDrift
<1>9. Drift(f) \in Int /\ transit[f] \in Int
    BY <1>1, DriftIs
<1> QED
    BY <1>5, <1>6, <1>7, <1>8, <1>9

\* Nobody is told of what waits at a stop that a player clears
\* (extinguish_all_waiting_goods).
LEMMA ExtinguishFollows ==
    ASSUME CargoInv, NEW h \in Halt, Extinguish(h), NEW f \in Factory
    PROVE  Follows(f)
<1>1. GoodsInv /\ transit \in Counters
    BY DEF CargoInv, GoodsInv
<1>2. waiting' = [waiting EXCEPT ![h] = <<>>] /\ convoy' = convoy /\ transit' = transit
    BY DEF Extinguish
<1>3. <<>> \in Seq(Filed) /\ Waits(<<>>, f) = 0 /\ Waits(waiting[h], f) \in Nat
    <2>1. <<>> \in Seq(Filed) /\ waiting[h] \in Seq(Filed)
        BY <1>1 DEF GoodsInv
    <2> QED
        BY <2>1, WaitsIn
<1>4. Drift(f)' = Drift(f) + (Waits(waiting[h], f) - transit[f]) - (Waits(<<>>, f) - transit'[f])
    BY <1>1, <1>2, <1>3, QueueDrift
<1>5. Drift(f) \in Int /\ transit[f] \in Int
    BY <1>1, DriftIs
<1>6. Drift(f)' # Drift(f) => Drift(f)' > Drift(f)
    BY <1>2, <1>3, <1>4, <1>5
<1> QED
    BY <1>6 DEF Follows

\* The items of a saved queue of which something is left.
Full(queue) == {cargo \in Range(queue) : cargo.goods.amount > 0}

\* The goods of items that are filed anew.
LEMMA RefiledCounts ==
    ASSUME NEW f, NEW queue \in Seq(Filed), NEW other \in Seq(Filed), Len(other) = Len(queue),
           \A i \in 1..Len(queue) : Share(other[i].goods, f) = Share(queue[i].goods, f)
    PROVE  Waits(other, f) = Waits(queue, f)
<1>1. GoodsOf(queue) \in Seq(Goods) /\ GoodsOf(other) \in Seq(Goods)
    BY GoodsOfIn
<1>2. /\ Len(GoodsOf(queue)) = Len(queue) /\ Len(GoodsOf(other)) = Len(queue)
      /\ \A i \in 1..Len(queue) : /\ GoodsOf(queue)[i] = queue[i].goods
                                  /\ GoodsOf(other)[i] = other[i].goods
    BY DEF GoodsOf
<1>3. \A i \in 1..Len(GoodsOf(queue)) : Share(GoodsOf(other)[i], f) = Share(GoodsOf(queue)[i], f)
    BY <1>2
<1> HIDE DEF Waits
<1>4. SumOf(GoodsOf(other), f) = SumOf(GoodsOf(queue), f)
    BY <1>1, <1>2, <1>3, SumOfSame
<1> QED
    BY <1>4 DEF Waits

\* Items of which nothing is left count for nothing.
LEMMA FullCounts ==
    ASSUME NEW queue \in Seq(Filed), NEW f
    PROVE  Waits(Selected(queue, Full(queue)), f) = Waits(queue, f)
<1> DEFINE S == Full(queue)
           N == Len(queue)
           fun == Chosen(queue, S, f)
           gun == Shares(GoodsOf(queue), f)
<1>1. /\ Waits(Selected(queue, S), f) = Selecting!Sum(fun, 1..N)
      /\ \A i \in 1..N : fun[i] \in Int
    BY SelectedCounts
<1>2. /\ Waits(queue, f) = Selecting!Sum(gun, 1..N)
      /\ \A i \in 1..N : gun[i] = Share(queue[i].goods, f) /\ gun[i] \in Int
    BY WaitsIs
<1>3. \A i \in 1..N : fun[i] = gun[i]
    <2> TAKE i \in 1..N
    <2>1. queue[i] \in Filed /\ queue[i] \in Range(queue)
        BY DEF Range
    <2>2. queue[i].goods.amount \in Nat
        BY <2>1, FiledIs, LessAmount
    <2>3. fun[i] = IF queue[i] \in S THEN Share(queue[i].goods, f) ELSE 0
        BY DEF Chosen
    <2>4. queue[i] \notin S => Share(queue[i].goods, f) = 0
        BY <2>1, <2>2 DEF Full, Share
    <2> QED
        BY <1>2, <2>3, <2>4
<1>4. N \in Nat
    OBVIOUS
<1> HIDE DEF fun, gun, N
<1>5. Selecting!Sum(fun, 1..N) = Selecting!Sum(gun, 1..N)
    BY <1>1, <1>3, <1>4, FinitePositions, Selecting!SumSame
<1> QED
    BY <1>1, <1>2, <1>5

\* A saved game is counted anew, and nothing is lost or found.
LEMMA ReloadFollows ==
    ASSUME CargoInv, Reload, NEW f \in Factory, f \in factories
    PROVE  Drift(f)' = 0
<1> DEFINE Bound(h) == IF h \in Alive THEN h ELSE NoHalt
           Read(g) == Routed(g, Bound(g.ziel), Bound(g.via))
           queues == [h \in Halt |-> Selected(waiting[h], Full(waiting[h]))]
           Riding(c) == [i \in DOMAIN convoy[c].load |-> Read(convoy[c].load[i])]
           Filing(h) == [i \in DOMAIN queues[h] |-> Indexed(Read(queues[h][i].goods))]
<1>1. /\ waiting' = [h \in Halt |-> Filing(h)]
      /\ convoy' = [c \in Convoy |-> WithCargo(convoy[c], Riding(c), Total(convoy[c].load))]
    BY DEF Reload, WithCargo, Full
<1>2. /\ OnMap /\ GoodsInv
      /\ \A h \in Halt : waiting[h] \in Seq(Filed)
      /\ \A c \in Convoy : convoy[c] \in Convoys
    BY DEF CargoInv, StopsInv, GoodsInv
<1>3. ASSUME NEW g \in Goods PROVE Read(g) \in Goods /\ Share(Read(g), f) = Share(g, f)
    <2>1. Bound(g.ziel) \in Target /\ Bound(g.via) \in Target
        BY NoSearchIn DEF Goods
    <2> HIDE DEF Bound
    <2> QED
        BY <2>1, RoutedGoods DEF Share
<1> HIDE DEF Read
<1>4. ASSUME NEW h \in Halt PROVE Waits(Filing(h), f) = Waits(waiting[h], f)
    <2> DEFINE queue == waiting[h]
               kept == Selected(queue, Full(queue))
               filed == Filing(h)
    <2>1. queue \in Seq(Filed)
        BY <1>2
    <2>2. queues[h] = kept
        OBVIOUS
    <2> HIDE DEF queue
    <2>3. kept \in Seq(Filed \cap Full(queue)) /\ Waits(kept, f) = Waits(queue, f)
        BY <2>1, SelectedIn, FullCounts
    <2> HIDE DEF kept, queues
    <2>4. /\ kept \in Seq(Filed) /\ Len(kept) \in Nat /\ DOMAIN kept = 1..Len(kept)
          /\ \A i \in 1..Len(kept) : kept[i] \in Filed /\ kept[i].goods \in Goods
        BY <2>3, FiledIs
    <2>5. filed = [i \in 1..Len(kept) |-> Indexed(Read(kept[i].goods))]
        BY <2>2, <2>4
    <2> HIDE DEF filed
    <2>6. \A i \in 1..Len(kept) : /\ filed[i] \in Filed
                                  /\ Share(filed[i].goods, f) = Share(kept[i].goods, f)
        <3> TAKE i \in 1..Len(kept)
        <3>1. /\ Read(kept[i].goods) \in Goods
              /\ Share(Read(kept[i].goods), f) = Share(kept[i].goods, f)
            BY <1>3, <2>4
        <3> QED
            BY <2>5, <3>1, FiledIs
    <2>7. filed \in Seq(Filed) /\ Len(filed) = Len(kept)
        BY <2>4, <2>5, <2>6
    <2>8. Waits(filed, f) = Waits(kept, f)
        BY <2>4, <2>6, <2>7, RefiledCounts
    <2> QED
        BY <2>3, <2>8 DEF filed, queue
<1>5. ASSUME NEW c \in Convoy PROVE SumOf(Riding(c), f) = SumOf(convoy[c].load, f)
    <2> DEFINE load == convoy[c].load
               read == Riding(c)
               N == Len(load)
    <2>1. load \in Seq(Goods)
        BY <1>2, ConvoyIs
    <2>2. read = [i \in DOMAIN load |-> Read(load[i])]
        OBVIOUS
    <2> HIDE DEF load, read
    <2>3. N \in Nat /\ DOMAIN load = 1..N /\ \A i \in 1..N : load[i] \in Goods
        BY <2>1
    <2> HIDE DEF N
    <2>4. \A i \in 1..N : read[i] \in Goods /\ Share(read[i], f) = Share(load[i], f)
        BY <1>3, <2>2, <2>3
    <2>5. read \in Seq(Goods) /\ Len(read) = N
        BY <2>2, <2>3, <2>4
    <2>6. SumOf(read, f) = SumOf(load, f)
        BY <2>1, <2>4, <2>5, SumOfSame DEF N
    <2> QED
        BY <2>6 DEF load, read
<1> HIDE DEF Filing, Riding, queues
<1>6. Here(waiting', f) = Here(waiting, f)
    BY <1>1, <1>4 DEF Here
<1>7. There(convoy', f) = There(convoy, f)
    <2>1. \A c \in Convoy : convoy'[c].load = Riding(c)
        <3> TAKE c \in Convoy
        <3>1. WithCargo(convoy[c], Riding(c), Total(convoy[c].load)).load = Riding(c)
            BY <1>2, ConvoyIs DEF WithCargo
        <3> QED
            BY <1>1, <3>1
    <2> QED
        BY <1>5, <2>1 DEF There
<1>8. transit'[f] = AllHere(waiting, f) + AllThere(convoy, f)
    BY UnderWayIs DEF Reload
<1>9. AllHere(waiting, f) \in Int /\ AllThere(convoy, f) \in Int
    BY <1>2, DriftIs
<1>10. Drift(f)' = transit'[f] - (AllHere(waiting', f) + AllThere(convoy', f))
    BY <1>2, DriftIs
<1>11. AllHere(waiting', f) = AllHere(waiting, f) /\ AllThere(convoy', f) = AllThere(convoy, f)
    BY <1>6, <1>7 DEF AllHere, AllThere
<1> QED
    BY <1>8, <1>9, <1>10, <1>11

\* The other steps move no goods.
LEMMA OthersFollow ==
    ASSUME CargoInv, NEW f \in Factory, f \in factories, f \in factories',
           \/ UNCHANGED vars \/ OtherSearch
           \/ StartReconnecting \/ StartRerouting \/ EndRerouting
           \/ \E c \in Convoy : Go(c)
           \/ \E h \in Halt : Reconnect(h)
           \/ \E p \in Place, h \in Halt : BuildHalt(p, h)
           \/ \E g \in Factory : RemoveFactory(g) \/ BuildFactory(g)
    PROVE  Drift(f)' = Drift(f)
<1>1. GoodsInv /\ transit \in Counters /\ convoy \in [Convoy -> Convoys]
    BY DEF CargoInv, GoodsInv
<1>2. CASE UNCHANGED <<waiting, convoy, transit>>
    BY <1>1, <1>2, NoDrift
<1>3. ASSUME NEW c \in Convoy, Go(c) PROVE Drift(f)' = Drift(f)
    <2>1. waiting' = waiting /\ transit' = transit
        BY <1>3 DEF Go
    <2>2. \A k \in Convoy : convoy'[k].load = convoy[k].load
        <3> TAKE k \in Convoy
        <3>1. convoy[k] \in Convoys
            BY <1>1
        <3> DEFINE next == (convoy[c].stop % Len(convoy[c].schedule)) + 1
        <3>2. convoy' = [convoy EXCEPT ![c].stop = next]
            BY <1>3 DEF Go
        <3> HIDE DEF next
        <3>3. convoy'[k] = IF k = c THEN [convoy[c] EXCEPT !.stop = next] ELSE convoy[k]
            BY <1>1, <3>2
        <3>4. [convoy[k] EXCEPT !.stop = next].load = convoy[k].load
            BY <3>1, ConvoyIs
        <3> QED
            BY <3>3, <3>4
    <2> QED
        BY <1>1, <2>1, <2>2, NoDrift
<1>4. ASSUME NEW g \in Factory, RemoveFactory(g) PROVE Drift(f)' = Drift(f)
    <2>1. waiting' = waiting /\ convoy' = convoy /\ f # g
        BY <1>4 DEF RemoveFactory
    <2>2. transit'[f] = transit[f]
        BY <1>1, <1>4, <2>1 DEF RemoveFactory, Counters
    <2> QED
        BY <1>1, <2>1, <2>2, NoDrift
<1>5. ASSUME NEW g \in Factory, BuildFactory(g) PROVE UNCHANGED <<waiting, convoy, transit>>
    BY <1>5 DEF BuildFactory
<1>6. ASSUME NEW p \in Place, NEW h \in Halt, BuildHalt(p, h) PROVE UNCHANGED <<waiting, convoy, transit>>
    BY <1>6 DEF BuildHalt
<1>7. ASSUME NEW h \in Halt, Reconnect(h) PROVE UNCHANGED <<waiting, convoy, transit>>
    BY <1>7 DEF Reconnect
<1>8. ASSUME UNCHANGED vars \/ OtherSearch \/ StartReconnecting \/ StartRerouting \/ EndRerouting
      PROVE  UNCHANGED <<waiting, convoy, transit>>
    BY <1>8 DEF vars, OtherSearch, StartReconnecting, StartRerouting, EndRerouting
<1> QED
    BY <1>2, <1>3, <1>4, <1>5, <1>6, <1>7, <1>8

\* What no step may do.
LEMMA FollowsNext ==
    ASSUME CargoInv, [Next]_vars
    PROVE  \A f \in factories \cap factories' : Follows(f)
<1> SUFFICES ASSUME NEW f \in Factory, f \in factories, f \in factories' PROVE Follows(f)
    BY DEF CargoInv, RestInv
<1>1. ASSUME Drift(f)' = Drift(f) PROVE Follows(f)
    BY <1>1 DEF Follows
<1>2. ASSUME \/ UNCHANGED vars \/ OtherSearch
             \/ StartReconnecting \/ StartRerouting \/ EndRerouting
             \/ \E c \in Convoy : Go(c)
             \/ \E h \in Halt : Reconnect(h)
             \/ \E p \in Place, h \in Halt : BuildHalt(p, h)
             \/ \E g \in Factory : RemoveFactory(g) \/ BuildFactory(g)
      PROVE  Follows(f)
    BY <1>1, <1>2, OthersFollow
<1>3. ASSUME NEW p \in Factory, Ship(p) PROVE Follows(f)
    BY <1>1, <1>3, ShipFollows
<1>4. ASSUME NEW c \in Convoy, Load(c) PROVE Follows(f)
    BY <1>4, LoadFollows
<1>5. ASSUME NEW h \in Halt, Reroute(h) PROVE Follows(f)
    BY <1>1, <1>5, RerouteFollows
<1>6. ASSUME NEW c \in Convoy, CheckStale(c) PROVE Follows(f)
    BY <1>1, <1>6, StaleFollows
<1>7. ASSUME NEW c \in Convoy, NEW s \in Timetables, EditSchedule(c, s) PROVE Follows(f)
    BY <1>1, <1>7, EditFollows
<1>8. ASSUME NEW c \in Convoy, NEW listed \in BOOLEAN, EnterDepot(c, listed) PROVE Follows(f)
    BY <1>1, <1>8, DepotFollows
<1>9. ASSUME NEW p \in Place, RemoveHalt(p) PROVE Follows(f)
    BY <1>1, <1>9, RemoveHaltFollows
<1>10. ASSUME NEW h \in Halt, Extinguish(h) PROVE Follows(f)
    BY <1>10, ExtinguishFollows
<1>11. ASSUME Reload PROVE Follows(f)
    BY <1>11, ReloadFollows DEF Follows
<1>12. CASE StepAll
    BY <1>2, <1>5, <1>6, <1>12 DEF StepAll
<1>13. CASE Player
    BY <1>2, <1>7, <1>8, <1>9, <1>10, <1>11, <1>13 DEF Player
<1> QED
    BY <1>2, <1>3, <1>4, <1>12, <1>13 DEF Next

\* The counter of a factory follows the goods: only a stop that a player clears and
\* goods that cannot be routed when a convoy loads are ever lost from sight, which
\* makes the counter too large and never too small, and a reload corrects it.
THEOREM TransitFollowsGoodsTheorem == Spec => TransitFollowsGoods
<1>1. CargoInv /\ [Next]_vars => \A f \in factories \cap factories' : Follows(f)
    BY FollowsNext
<1>2. CargoInv /\ [Next]_vars => [\A f \in factories \cap factories' : Follows(f)]_vars
    BY <1>1
<1>3. TransitFollowsGoods <=> [][\A f \in factories \cap factories' : Follows(f)]_vars
    BY DEF TransitFollowsGoods, Follows
<1> QED
    BY <1>2, <1>3, CargoInvariant, PTL DEF Spec

------------------------------------------------------------------------------
(* The connections.                                                         *)

\* Reconnecting has done its part for the stops it has come to.  All that can
\* make this wrong, a schedule or a stop that changes, sets outdated first.
StagedCurrent ==
    ~outdated /\ status = "reconnecting" =>
        \A h \in Alive \ todo : staged[h] = {Connections(h)}

\* The variables are functions, and convoys have a schedule; what they hold
\* besides does not matter here.
IsConvoy(r) == "schedule" \in DOMAIN r
Shapes ==
    /\ haltAt \in [Place -> Halt \cup {NoHalt}]
    /\ links = [h \in Halt |-> links[h]]
    /\ staged = [h \in Halt |-> staged[h]]
    /\ convoy = [c \in Convoy |-> convoy[c]]
    /\ \A c \in Convoy : IsConvoy(convoy[c])

ConnectionsInv == Shapes /\ StagedCurrent /\ ConnectionsCurrent

------------------------------------------------------------------------------
\* No step but the player's changes a schedule.
SameSchedules == \A c \in Convoy : convoy'[c].schedule = convoy[c].schedule

\* Connections depend on nothing but where the stops are and what is scheduled.
LEMMA ConnectionsSame ==
    ASSUME haltAt' = haltAt, SameSchedules, NEW h
    PROVE  Connections(h)' = Connections(h)
<1>1. \A c \in Convoy : Serves(c)' = Serves(c)
    BY DEF SameSchedules, Serves, HaltsAt
<1> QED
    BY <1>1 DEF Connections

\* The stops that exist have handles.
LEMMA AliveHalts ==
    ASSUME Shapes
    PROVE  Alive \subseteq Halt
BY DEF Shapes, Alive, HaltsAt

\* A step that changes neither stops nor schedules, nor the connections.
LEMMA NothingReconnected ==
    ASSUME ConnectionsInv, Shapes', SameSchedules, UNCHANGED <<haltAt, links, staged, status, todo, outdated>>
    PROVE  ConnectionsInv'
<1>1. \A h : Connections(h)' = Connections(h)
    BY ConnectionsSame
<1>2. Alive' = Alive
    BY DEF Alive, HaltsAt
<1> QED
    BY <1>1, <1>2 DEF ConnectionsInv, StagedCurrent, ConnectionsCurrent

\* A step after which a change is pending.
LEMMA ChangePending ==
    ASSUME Shapes', outdated'
    PROVE  ConnectionsInv'
BY DEF ConnectionsInv, StagedCurrent, ConnectionsCurrent

\* A convoy takes or loses cargo, or goes on.
LEMMA OneConvoy ==
    ASSUME Shapes, NEW c \in Convoy, NEW r, IsConvoy(r), convoy' = [convoy EXCEPT ![c] = r],
           haltAt' = haltAt, links' = links, staged' = staged
    PROVE  /\ Shapes'
           /\ r.schedule = convoy[c].schedule => SameSchedules
<1>1. \A d \in Convoy : convoy'[d] = IF d = c THEN r ELSE convoy[d]
    BY DEF Shapes
<1>2. convoy' = [d \in Convoy |-> convoy'[d]]
    BY DEF Shapes
<1>3. \A d \in Convoy : IsConvoy(convoy'[d])
    BY <1>1 DEF Shapes
<1>4. (\A d \in Convoy : IsConvoy(convoy[d]))'
    BY <1>3 DEF IsConvoy
<1> QED
    BY <1>1, <1>2, <1>4 DEF Shapes, SameSchedules

\* A cargo changes no schedule.
LEMMA CargoSet ==
    ASSUME NEW con, IsConvoy(con), NEW load, NEW total
    PROVE  /\ IsConvoy([con EXCEPT !.load = load, !.total = total])
           /\ [con EXCEPT !.load = load, !.total = total].schedule = con.schedule
BY DEF IsConvoy

\* Neither does remove_stale_cargo,
LEMMA StaleRemoved ==
    ASSUME NEW con, IsConvoy(con), NEW counter
    PROVE  /\ IsConvoy(RemoveStaleCargo(con, counter).con)
           /\ RemoveStaleCargo(con, counter).con.schedule = con.schedule
<1> DEFINE stops == StopsFrom(con)
           Sent(g) == IF g.via \in Range(stops) THEN g
                      ELSE Routed(g, IF g.ziel \in Alive THEN g.ziel ELSE Head(stops), Head(stops))
           load == IF stops = <<>> THEN <<>> ELSE [i \in DOMAIN con.load |-> Sent(con.load[i])]
<1>1. RemoveStaleCargo(con, counter).con = [con EXCEPT !.load = load, !.total = Total(load)]
    BY DEF RemoveStaleCargo
<1> HIDE DEF load
<1>2. /\ IsConvoy([con EXCEPT !.load = load, !.total = Total(load)])
      /\ [con EXCEPT !.load = load, !.total = Total(load)].schedule = con.schedule
    BY DEF IsConvoy
<1> QED
    BY <1>1, <1>2, Zenon

\* nor a stop.
LEMMA CargoExchanged ==
    ASSUME NEW h, NEW con, IsConvoy(con), NEW all, NEW e
    PROVE  /\ IsConvoy(Exchanged(h, con, all, e).con)
           /\ Exchanged(h, con, all, e).con.schedule = con.schedule
<1> DEFINE un == UnloadCargo(Side(h), h, con, all, e)
           room == FreeCapacity(un)
           ready == IF room > 0 /\ un.side.queue # <<>> THEN RouteInvalid(un.side, h, e)
                    ELSE un.side
           ahead == Reachable(con, h)
           got == Fetch(ready.queue, room, IF room > 0 THEN ahead ELSE <<>>)
           load == LoadCargo(un.load, got.load)
           total == un.total + Total(got.load)
<1>1. Exchanged(h, con, all, e).con = [con EXCEPT !.load = load, !.total = total]
    BY DEF Exchanged
<1> HIDE DEF load, total
<1>2. /\ IsConvoy([con EXCEPT !.load = load, !.total = total])
      /\ [con EXCEPT !.load = load, !.total = total].schedule = con.schedule
    BY DEF IsConvoy
<1> QED
    BY <1>1, <1>2, Zenon

------------------------------------------------------------------------------
\* At the beginning the connections are those of the schedules.
LEMMA ConnectionsInit == Init => ConnectionsInv
<1> SUFFICES ASSUME Init PROVE ConnectionsInv
    OBVIOUS
<1>1. Shapes
    BY FreightAssumption DEF Init, Shapes, IsConvoy
<1>2. Alive \subseteq Halt
    BY <1>1, AliveHalts
<1> QED
    BY <1>1, <1>2 DEF Init, ConnectionsInv, StagedCurrent, ConnectionsCurrent

\* Every step keeps them, or leaves a change pending.
LEMMA ConnectionsNext == ConnectionsInv /\ [Next]_vars => ConnectionsInv'
<1> SUFFICES ASSUME ConnectionsInv, [Next]_vars PROVE ConnectionsInv'
    OBVIOUS
<1>s. Shapes
    BY DEF ConnectionsInv
<1>1. ASSUME NEW f \in Factory, Ship(f) PROVE ConnectionsInv'
    <2>1. UNCHANGED <<haltAt, links, staged, status, todo, outdated, convoy>>
        BY <1>1 DEF Ship, haltVars
    <2> QED
        BY <2>1, <1>s, NothingReconnected DEF Shapes, SameSchedules
<1>2. ASSUME NEW c \in Convoy, Load(c) PROVE ConnectionsInv'
    <2>1. UNCHANGED <<haltAt, links, staged, status, todo, outdated>>
        BY <1>2 DEF Load, haltVars
    <2>2. PICK h, e, all : convoy' = [convoy EXCEPT ![c] = Exchanged(h, convoy[c], all, e).con]
        BY <1>2 DEF Load
    <2> DEFINE r == Exchanged(h, convoy[c], all, e).con
    <2>3. IsConvoy(r) /\ r.schedule = convoy[c].schedule
        BY <1>s, CargoExchanged DEF Shapes
    <2> HIDE DEF r
    <2> QED
        BY <2>1, <2>2, <2>3, <1>s, OneConvoy, NothingReconnected DEF r
<1>3. ASSUME NEW c \in Convoy, Go(c) PROVE ConnectionsInv'
    <2>1. UNCHANGED <<haltAt, links, staged, status, todo, outdated>>
        BY <1>3 DEF Go, haltVars
    <2> DEFINE r == [convoy[c] EXCEPT !.stop = (@ % Len(convoy[c].schedule)) + 1]
    <2>2. convoy' = [convoy EXCEPT ![c] = r]
        BY <1>3 DEF Go
    <2>3. IsConvoy(r) /\ r.schedule = convoy[c].schedule
        BY <1>s DEF Shapes, IsConvoy
    <2> HIDE DEF r
    <2> QED
        BY <2>1, <2>2, <2>3, <1>s, OneConvoy, NothingReconnected
<1>4. CASE OtherSearch
    <2>1. UNCHANGED <<haltAt, links, staged, status, todo, outdated, convoy>>
        BY <1>4 DEF OtherSearch, haltVars
    <2> QED
        BY <2>1, <1>s, NothingReconnected DEF Shapes, SameSchedules
<1>5. ASSUME NEW c \in Convoy, CheckStale(c) PROVE ConnectionsInv'
    <2>1. UNCHANGED <<haltAt, links, staged, status, todo, outdated>>
        BY <1>5 DEF CheckStale, haltVars
    <2> DEFINE r == RemoveStaleCargo(convoy[c], transit).con
    <2>2. convoy' = [convoy EXCEPT ![c] = r]
        BY <1>5 DEF CheckStale
    <2>3. IsConvoy(r) /\ r.schedule = convoy[c].schedule
        BY <1>s, StaleRemoved DEF Shapes
    <2> HIDE DEF r
    <2> QED
        BY <2>1, <2>2, <2>3, <1>s, OneConvoy, NothingReconnected
<1>6. CASE StartReconnecting
    <2>1. UNCHANGED <<haltAt, links, staged, convoy>> /\ todo' = Alive
        BY <1>6 DEF StartReconnecting
    <2>2. Alive' = Alive
        BY <2>1 DEF Alive, HaltsAt
    <2> QED
        BY <1>6, <2>1, <2>2, <1>s
        DEF StartReconnecting, ConnectionsInv, Shapes, StagedCurrent, ConnectionsCurrent
<1>7. ASSUME NEW h \in Halt, Reconnect(h) PROVE ConnectionsInv'
    <2>1. UNCHANGED <<haltAt, links, status, outdated, convoy>>
        BY <1>7 DEF Reconnect
    <2>2. staged' = [staged EXCEPT ![h] = {Connections(h)}] /\ todo' = todo \ {h}
        BY <1>7 DEF Reconnect
    <2>3. Alive' = Alive
        BY <2>1 DEF Alive, HaltsAt
    <2>4. \A k : Connections(k)' = Connections(k)
        BY <2>1, ConnectionsSame DEF SameSchedules
    <2>5. Shapes'
        BY <2>1, <2>2, <1>s DEF Shapes
    <2>6. \A k \in Halt : staged'[k] = IF k = h THEN {Connections(h)} ELSE staged[k]
        BY <2>2, <1>s DEF Shapes
    <2>7. Alive \subseteq Halt
        BY <1>s, AliveHalts
    <2>8. StagedCurrent'
        BY <2>1, <2>2, <2>3, <2>4, <2>6, <2>7 DEF ConnectionsInv, StagedCurrent
    <2>9. ConnectionsCurrent'
        BY <2>1, <2>3, <2>4 DEF ConnectionsInv, ConnectionsCurrent
    <2> QED
        BY <2>5, <2>8, <2>9 DEF ConnectionsInv
<1>8. CASE StartRerouting
    <2>1. UNCHANGED <<haltAt, convoy>> /\ ~outdated /\ status = "reconnecting" /\ todo = {}
        BY <1>8 DEF StartRerouting
    <2>2. /\ links' = [h \in Halt |-> IF staged[h] = {} THEN links[h] ELSE UNION staged[h]]
          /\ staged' = [h \in Halt |-> {}]
          /\ status' = "rerouting"
        BY <1>8 DEF StartRerouting
    <2>3. Alive' = Alive
        BY <2>1 DEF Alive, HaltsAt
    <2>4. \A k : Connections(k)' = Connections(k)
        BY <2>1, ConnectionsSame DEF SameSchedules
    <2>5. Shapes'
        BY <2>1, <2>2, <1>s DEF Shapes
    <2>6. \A h \in Alive : h \in Halt /\ staged[h] = {Connections(h)}
        BY <2>1, <1>s, AliveHalts DEF ConnectionsInv, StagedCurrent
    <2>7. \A h \in Alive : links'[h] = Connections(h)
        BY <2>2, <2>6
    <2>8. ConnectionsCurrent'
        BY <2>3, <2>4, <2>7 DEF ConnectionsCurrent
    <2> QED
        BY <2>2, <2>5, <2>8 DEF ConnectionsInv, StagedCurrent
<1>9. ASSUME NEW h \in Halt, Reroute(h) PROVE ConnectionsInv'
    <2>1. UNCHANGED <<haltAt, links, staged, status, outdated, convoy>> /\ status = "rerouting"
        BY <1>9 DEF Reroute
    <2>2. Alive' = Alive
        BY <2>1 DEF Alive, HaltsAt
    <2>3. \A k : Connections(k)' = Connections(k)
        BY <2>1, ConnectionsSame DEF SameSchedules
    <2> QED
        BY <2>1, <2>2, <2>3, <1>s DEF ConnectionsInv, Shapes, StagedCurrent, ConnectionsCurrent
<1>10. CASE EndRerouting
    <2>1. /\ UNCHANGED <<haltAt, links, staged, outdated, convoy>>
          /\ status = "rerouting" /\ status' = "idle"
        BY <1>10 DEF EndRerouting
    <2>2. Alive' = Alive
        BY <2>1 DEF Alive, HaltsAt
    <2>3. \A k : Connections(k)' = Connections(k)
        BY <2>1, ConnectionsSame DEF SameSchedules
    <2> QED
        BY <2>1, <2>2, <2>3, <1>s DEF ConnectionsInv, Shapes, StagedCurrent, ConnectionsCurrent
<1>11. CASE Reload
    <2> DEFINE Bound(h) == IF h \in Alive THEN h ELSE NoHalt
               Read(g) == Routed(g, Bound(g.ziel), Bound(g.via))
               Riding(c) == [i \in DOMAIN convoy[c].load |-> Read(convoy[c].load[i])]
               Count(c) == Total(convoy[c].load)
    <2>1. /\ UNCHANGED <<haltAt, factories>> /\ status' = "rerouting"
          /\ links' = [h \in Halt |-> IF h \in Alive THEN Connections(h) ELSE {}]
          /\ staged' = [h \in Halt |-> {}]
        BY <1>11 DEF Reload
    <2>2. convoy' = [c \in Convoy |-> [convoy[c] EXCEPT !.load = Riding(c), !.total = Count(c)]]
        BY <1>11 DEF Reload
    <2> HIDE DEF Riding, Count
    <2>3. \A c \in Convoy : IsConvoy(convoy'[c]) /\ convoy'[c].schedule = convoy[c].schedule
        BY <2>2, <1>s DEF Shapes, IsConvoy
    <2>4. Alive' = Alive
        BY <2>1 DEF Alive, HaltsAt
    <2>5. \A k : Connections(k)' = Connections(k)
        BY <2>1, <2>3, ConnectionsSame DEF SameSchedules
    <2>6. (\A c \in Convoy : IsConvoy(convoy[c]))'
        BY <2>3 DEF IsConvoy
    <2>7. Shapes'
        BY <2>1, <2>2, <2>6, <1>s DEF Shapes
    <2>8. ConnectionsCurrent'
        BY <2>1, <2>4, <2>5, <1>s, AliveHalts DEF ConnectionsCurrent
    <2> QED
        BY <2>1, <2>7, <2>8 DEF ConnectionsInv, StagedCurrent
<1>13. ASSUME NEW c \in Convoy, NEW s, EditSchedule(c, s) PROVE ConnectionsInv'
    <2>1. UNCHANGED <<haltAt, links, staged>> /\ outdated'
        BY <1>13 DEF EditSchedule, haltVars
    <2>2. PICK k : convoy' = [convoy EXCEPT ![c] = RemoveStaleCargo(
              [convoy[c] EXCEPT !.schedule = s, !.stop = k], transit).con]
        BY <1>13 DEF EditSchedule
    <2> DEFINE con == [convoy[c] EXCEPT !.schedule = s, !.stop = k]
               r == RemoveStaleCargo(con, transit).con
    <2>3. IsConvoy(con)
        BY <1>s DEF Shapes, IsConvoy
    <2> HIDE DEF con
    <2>4. IsConvoy(r)
        BY <2>3, StaleRemoved
    <2>5. convoy' = [convoy EXCEPT ![c] = r]
        BY <2>2 DEF con
    <2> HIDE DEF r
    <2> QED
        BY <2>1, <2>4, <2>5, <1>s, OneConvoy, ChangePending
<1>14. ASSUME NEW c \in Convoy, NEW listed \in BOOLEAN, EnterDepot(c, listed) PROVE ConnectionsInv'
    <2>1. UNCHANGED <<haltAt, links, staged>> /\ outdated'
        BY <1>14 DEF EnterDepot, haltVars
    <2> DEFINE d == Discarded(convoy[c], transit)
               r == (IF listed THEN RemoveStaleCargo(d.con, d.transit) ELSE d).con
    <2>2. IsConvoy(d.con)
        BY <1>s DEF Shapes, IsConvoy, Discarded
    <2>3. convoy' = [convoy EXCEPT ![c] = r]
        BY <1>14 DEF EnterDepot
    <2> HIDE DEF d
    <2>4. IsConvoy(r)
        BY <2>2, StaleRemoved
    <2> HIDE DEF r
    <2> QED
        BY <2>1, <2>3, <2>4, <1>s, OneConvoy, ChangePending
<1>15. ASSUME NEW p \in Place, RemoveHalt(p) PROVE ConnectionsInv'
    <2>1. /\ UNCHANGED convoy /\ outdated'
          /\ haltAt' = [haltAt EXCEPT ![p] = NoHalt]
          /\ links' = [links EXCEPT ![haltAt[p]] = {}]
          /\ staged' = [staged EXCEPT ![haltAt[p]] = {}]
        BY <1>15 DEF RemoveHalt
    <2> QED
        BY <2>1, <1>s, ChangePending DEF Shapes
<1>16. ASSUME NEW p \in Place, NEW h \in Halt, BuildHalt(p, h) PROVE ConnectionsInv'
    <2>1. /\ UNCHANGED <<convoy, links, staged>> /\ outdated'
          /\ haltAt' = [haltAt EXCEPT ![p] = h]
        BY <1>16 DEF BuildHalt
    <2> QED
        BY <2>1, <1>s, ChangePending DEF Shapes
<1>17. ASSUME NEW f \in Factory, RemoveFactory(f) \/ BuildFactory(f) PROVE ConnectionsInv'
    <2>1. UNCHANGED <<haltAt, links, staged, status, todo, outdated, convoy>>
        BY <1>17 DEF RemoveFactory, BuildFactory, haltVars
    <2> QED
        BY <2>1, <1>s, NothingReconnected DEF Shapes, SameSchedules
<1>18. ASSUME NEW h \in Halt, Extinguish(h) PROVE ConnectionsInv'
    <2>1. UNCHANGED <<haltAt, links, staged, status, todo, outdated, convoy>>
        BY <1>18 DEF Extinguish, haltVars
    <2> QED
        BY <2>1, <1>s, NothingReconnected DEF Shapes, SameSchedules
<1>12. CASE UNCHANGED vars
    <2>1. UNCHANGED <<haltAt, links, staged, status, todo, outdated, convoy>>
        BY <1>12 DEF vars
    <2> QED
        BY <2>1, <1>s, NothingReconnected DEF Shapes, SameSchedules
<1> QED
    BY <1>1, <1>2, <1>3, <1>4, <1>5, <1>6, <1>7, <1>8, <1>9, <1>10, <1>11, <1>12,
       <1>13, <1>14, <1>15, <1>16, <1>17, <1>18
    DEF Next, StepAll, Player

------------------------------------------------------------------------------
\* The inductive invariant.
THEOREM ConnectionsInvariant == Spec => []ConnectionsInv
<1>1. Init => ConnectionsInv
    BY ConnectionsInit
<1>2. ConnectionsInv /\ [Next]_vars => ConnectionsInv'
    BY ConnectionsNext
<1> QED
    BY <1>1, <1>2, PTL DEF Spec

\* Whenever no change is pending and the stops have reconnected, goods are routed
\* by the connections of the schedules (step_all, rebuild_connected_components).
THEOREM ConnectionsCurrentTheorem == Spec => []ConnectionsCurrent
<1>1. ConnectionsInv => ConnectionsCurrent
    BY DEF ConnectionsInv
<1> QED
    BY <1>1, ConnectionsInvariant, PTL
=============================================================================
