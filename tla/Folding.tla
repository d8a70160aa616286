------------------------------ MODULE Folding --------------------------------
(* What folds and sums compute, for data of any size: induction over numbers *)
(* and finite sets, the steps of a FoldLeft, and the sums of SumFunction.    *)
(* A fold of another module is one with its own Step, whose first arguments  *)
(* are what the fold reads besides the sequence.                             *)
EXTENDS Integers, FiniteSets, SequencesExt, TLAPS, WellFoundedInduction, FiniteSetTheorems

CONSTANT Step(_, _, _, _, _)

Run(p, q, r, b, seq) == FoldLeft(LAMBDA s, x : Step(p, q, r, s, x), b, seq)

------------------------------------------------------------------------------
(* Induction over data.                                                     *)

\* A set of natural numbers has a least one.
LEMMA LeastOne ==
    ASSUME NEW T \in SUBSET Nat, T # {}
    PROVE  \E x \in T : \A y \in T : x <= y
<1>1. IsWellFoundedOn({ss \in Nat \X Nat : ss[1] < ss[2]}, Nat)
    BY NatLessThanWellFounded DEF OpToRel
<1>2. \E x \in T : \A y \in T : ~(<<y, x>> \in {ss \in Nat \X Nat : ss[1] < ss[2]})
    BY <1>1, WFMin
<1>3. PICK x \in T : \A y \in T : ~(y < x)
    BY <1>2
<1>4. \A y \in T : x <= y
    BY <1>3
<1> QED
    BY <1>4

\* Induction, of a set in the place of a property.
LEMMA Induction ==
    ASSUME NEW S, 0 \in S, \A n \in Nat : n \in S => n + 1 \in S
    PROVE  Nat \subseteq S
<1> SUFFICES ASSUME Nat \ S # {} PROVE FALSE
    OBVIOUS
<1>1. PICK x \in Nat \ S : \A y \in Nat \ S : x <= y
    BY LeastOne
<1>2. x # 0 /\ x - 1 \in Nat /\ (x - 1) + 1 = x
    BY <1>1
<1>3. x - 1 \in S
    BY <1>1, <1>2
<1> QED
    BY <1>1, <1>2, <1>3

\* Induction over the subsets of a finite set.
LEMMA SubsetInduction ==
    ASSUME NEW S, IsFiniteSet(S), NEW T, {} \in T,
           \A s \in SUBSET S : \A x \in S \ s : s \in T => s \cup {x} \in T
    PROVE  SUBSET S \subseteq T
<1> DEFINE K == {k \in Nat : \A s \in SUBSET S : Cardinality(s) = k => s \in T}
<1>1. \A s \in SUBSET S : IsFiniteSet(s) /\ Cardinality(s) \in Nat
    BY FS_Subset, FS_CardinalityType
<1>2. 0 \in K
    BY <1>1, FS_EmptySet
<1>3. ASSUME NEW k \in Nat, k \in K PROVE k + 1 \in K
    <2>1. ASSUME NEW s \in SUBSET S, Cardinality(s) = k + 1 PROVE s \in T
        <3>1. s # {}
            <4>1. Cardinality({}) = 0 /\ k + 1 # 0
                BY FS_EmptySet
            <4> QED
                BY <2>1, <4>1
        <3>2. PICK x \in s : TRUE
            BY <3>1
        <3>3. Cardinality(s \ {x}) = k
            <4>1. IsFiniteSet(s) /\ x \in s
                BY <1>1
            <4>2. Cardinality(s \ {x}) = Cardinality(s) - 1
                BY <4>1, FS_RemoveElement
            <4> QED
                BY <2>1, <4>2
        <3>4. s \ {x} \in T /\ x \in S \ (s \ {x}) /\ s \ {x} \in SUBSET S
            BY <1>3, <3>3
        <3>5. (s \ {x}) \cup {x} = s
            OBVIOUS
        <3> QED
            BY <3>4, <3>5
    <2> QED
        BY <2>1
<1> HIDE DEF K
<1>4. Nat \subseteq K
    BY <1>2, <1>3, Induction
<1>5. ASSUME NEW s \in SUBSET S PROVE s \in T
    <2>1. Cardinality(s) \in K
        BY <1>1, <1>4
    <2> QED
        BY <2>1 DEF K
<1> QED
    BY <1>5

\* The order in which a fold takes the elements of its set, last one first.
Order(ch, S) == /\ ch = [s \in (SUBSET S) \ {{}} |-> ch[s]]
                /\ \A s \in (SUBSET S) \ {{}} : ch[s] \in s

\* G tells for each set of elements what a fold with F from b gives.
FoldOf(G, ch, F, b, S) ==
    \A s \in SUBSET S : G[s] = IF s = {} THEN b ELSE F[<<G[s \ {ch[s]}], ch[s]>>]

\* What a fold over a finite set computes is defined.
LEMMA FoldExists ==
    ASSUME NEW S, IsFiniteSet(S), NEW ch, Order(ch, S),
           NEW R, NEW F \in [R \X S -> R], NEW b \in R
    PROVE  \E G \in [SUBSET S -> R] : FoldOf(G, ch, F, b, S)
<1> DEFINE D(k) == {s \in SUBSET S : Cardinality(s) <= k}
           Good(k) == \E G \in [D(k) -> R] :
                          \A s \in D(k) : G[s] = IF s = {} THEN b ELSE F[<<G[s \ {ch[s]}], ch[s]>>]
           K == {k \in Nat : Good(k)}
<1>1. \A s \in SUBSET S : IsFiniteSet(s) /\ Cardinality(s) \in Nat
    BY FS_Subset, FS_CardinalityType
<1>2. Good(0)
    <2>1. \A s \in D(0) : s = {}
        BY <1>1, FS_EmptySet
    <2> DEFINE G == [s \in D(0) |-> b]
    <2>2. G \in [D(0) -> R] /\ \A s \in D(0) : G[s] = IF s = {} THEN b ELSE F[<<G[s \ {ch[s]}], ch[s]>>]
        BY <2>1
    <2> QED
        BY <2>2
<1>3. ASSUME NEW k \in Nat, Good(k) PROVE Good(k + 1)
    <2> DEFINE E == D(k)
               C == D(k + 1)
    <2>1. PICK G \in [E -> R] : \A s \in E : G[s] = IF s = {} THEN b ELSE F[<<G[s \ {ch[s]}], ch[s]>>]
        BY <1>3
    <2>2. ASSUME NEW s \in C, s # {}
          PROVE  ch[s] \in S /\ s \ {ch[s]} \in E
        <3>1. ch[s] \in s /\ s \in SUBSET S
            BY <2>2 DEF Order
        <3>2. Cardinality(s \ {ch[s]}) = Cardinality(s) - 1 /\ Cardinality(s) <= k + 1
            BY <1>1, <3>1, FS_RemoveElement
        <3>3. Cardinality(s \ {ch[s]}) <= k
            BY <1>1, <3>1, <3>2
        <3> QED
            BY <3>1, <3>3
    <2>3. {} \in E /\ {} \in C /\ E \subseteq C
        BY <1>1, FS_EmptySet
    <2> HIDE DEF E, C
    <2> DEFINE H == [s \in C |-> IF s = {} THEN b ELSE F[<<G[s \ {ch[s]}], ch[s]>>]]
    <2>4. \A s \in E : H[s] = G[s]
        BY <2>1, <2>3
    <2>5. \A s \in C : H[s] \in R
        <3>1. ASSUME NEW s \in C, s # {} PROVE H[s] \in R
            <4>1. <<G[s \ {ch[s]}], ch[s]>> \in R \X S
                BY <2>2, <3>1
            <4> QED
                BY <3>1, <4>1
        <3>2. H[{}] = b
            BY <2>3
        <3> QED
            BY <3>1, <3>2
    <2>6. ASSUME NEW s \in C PROVE H[s] = IF s = {} THEN b ELSE F[<<H[s \ {ch[s]}], ch[s]>>]
        <3>1. CASE s # {}
            <4>1. H[s \ {ch[s]}] = G[s \ {ch[s]}]
                BY <2>2, <2>4, <3>1
            <4> QED
                BY <3>1, <4>1
        <3> QED
            BY <3>1
    <2>7. H \in [C -> R]
        BY <2>5
    <2> HIDE DEF H
    <2>8. \E g \in [C -> R] : \A s \in C : g[s] = IF s = {} THEN b ELSE F[<<g[s \ {ch[s]}], ch[s]>>]
        BY <2>6, <2>7
    <2> QED
        BY <2>8 DEF C
<1> HIDE DEF Good
<1>4. 0 \in K /\ \A k \in Nat : k \in K => k + 1 \in K
    BY <1>2, <1>3
<1>5. Nat \subseteq K
    <2> HIDE DEF K
    <2> QED
        BY <1>4, Induction
<1>6. Good(Cardinality(S)) /\ D(Cardinality(S)) = SUBSET S
    <2>1. Cardinality(S) \in Nat
        BY FS_CardinalityType
    <2>2. \A s \in SUBSET S : Cardinality(s) <= Cardinality(S)
        BY FS_Subset
    <2> QED
        BY <1>5, <2>1, <2>2
<1> QED
    BY <1>6 DEF Good, FoldOf


------------------------------------------------------------------------------
(* The steps of a fold.                                                     *)

\* The greatest of a set of numbers.
LEMMA MaxIs ==
    ASSUME NEW s \in SUBSET Nat, NEW m \in s, \A x \in s : m >= x
    PROVE  Max(s) = m
<1>1. Max(s) \in s /\ \A y \in s : Max(s) >= y
  BY DEF Max
<1>2. PICK x \in s : x = Max(s)
  BY <1>1
<1>3. x >= m /\ m >= x /\ x \in Nat /\ m \in Nat
  BY <1>1, <1>2
<1>4. QED
  BY <1>2, <1>3

\* So has a set of numbers that are not greater than k.
LEMMA MaxIn ==
    ASSUME NEW k \in Nat, NEW s \in SUBSET (1 .. k), s # {}
    PROVE  Max(s) \in s /\ Max(s) \in 1 .. k /\ s \ {Max(s)} \in SUBSET (1 .. k)
<1> DEFINE T == {k - x : x \in s}
<1>1. T \in SUBSET Nat /\ T # {}
  <2>1. \A x \in s : k - x \in Nat
    OBVIOUS
  <2>2. PICK x \in s : TRUE
    OBVIOUS
  <2>3. k - x \in T
    OBVIOUS
  <2>4. QED
    BY <2>1, <2>3
<1>2. PICK t \in T : \A y \in T : t <= y
  BY <1>1, LeastOne
<1>3. PICK m \in s : t = k - m
  OBVIOUS
<1>4. ASSUME NEW x \in s PROVE m >= x
  <2>1. k - x \in T
    OBVIOUS
  <2>2. k - m <= k - x /\ x \in Nat /\ m \in Nat
    BY <1>2, <1>3, <2>1
  <2>3. QED
    BY <2>2
<1>5. Max(s) = m
  <2>1. s \in SUBSET Nat
    OBVIOUS
  <2>2. QED
    BY <1>4, <2>1, MaxIs
<1>6. QED
  BY <1>5

\* What is in S after each step.
LEMMA StepsIn ==
    ASSUME NEW N \in Nat, NEW S, NEW g, g = [n \in 0 .. N |-> g[n]], g[0] \in S,
           \A n \in 1 .. N : g[n - 1] \in S => g[n] \in S
    PROVE  g \in [0 .. N -> S]
<1> DEFINE T == {n \in Nat : n <= N => g[n] \in S}
<1>1. 0 \in T
  OBVIOUS
<1>2. ASSUME NEW n \in Nat, n \in T PROVE n + 1 \in T
  <2>1. CASE n + 1 <= N
    <3>1. n + 1 \in 1 .. N /\ (n + 1) - 1 = n /\ g[n] \in S
      BY <1>2, <2>1
    <3>2. g[n + 1] \in S
      BY <3>1
    <3>3. QED
      BY <3>2
  <2>2. QED
    BY <2>1
<1> HIDE DEF T
<1>3. Nat \subseteq T
  BY <1>1, <1>2, Induction
<1>4. ASSUME NEW n \in 0 .. N PROVE g[n] \in S
  <2>1. n \in T
    BY <1>3
  <2>2. QED
    BY <2>1 DEF T
<1>5. QED
  BY <1>4

\* The first n of N steps.
LEMMA FirstSteps ==
    ASSUME NEW N \in Nat
    PROVE  /\ 1 .. 0 = {} /\ {} \in SUBSET (1 .. N) /\ 1 .. N \in SUBSET (1 .. N)
           /\ \A n \in 1 .. N : /\ 1 .. n \in SUBSET (1 .. N) /\ 1 .. n # {} /\ Max(1 .. n) = n
                                /\ (1 .. n) \ {n} = 1 .. (n - 1)
<1>1. ASSUME NEW n \in 1 .. N PROVE 1 .. n \in SUBSET (1 .. N) /\ 1 .. n # {} /\ Max(1 .. n) = n /\ (1 .. n) \ {n} = 1 .. (n - 1)
  <2>1. 1 .. n \in SUBSET Nat /\ n \in 1 .. n /\ \A x \in 1 .. n : n >= x
    OBVIOUS
  <2>2. Max(1 .. n) = n
    BY <2>1, MaxIs
  <2>3. QED
    BY <2>1, <2>2
<1>2. QED
  BY <1>1


\* No step with an element of T leaves R.
Closed(p, q, r, R, T) == \A s \in R, x \in T : Step(p, q, r, s, x) \in R

\* g tells what a fold over N elements has computed after each of them.
Steps(g, p, q, r, b, seq, N) ==
    /\ g[0] = b /\ Run(p, q, r, b, seq) = g[N]
    /\ \A n \in 1..N : g[n] = Step(p, q, r, g[n - 1], seq[n])

\* There is such a g, in any set that no step leaves.
LEMMA FoldSteps ==
    ASSUME NEW p, NEW q, NEW r, NEW R, NEW b \in R, NEW T, NEW seq, NEW N \in Nat,
           seq \in [1..N -> T], Closed(p, q, r, R, T)
    PROVE  \E g \in [0..N -> R] : Steps(g, p, q, r, b, seq, N)
<1> DEFINE F == [v \in R \X (1..N) |-> Step(p, q, r, v[1], seq[v[2]])]
           ch == [s \in (SUBSET (1..N)) \ {{}} |-> Max(s)]
           Body(G) == [s \in SUBSET (1..N) |-> IF s = {} THEN b
                           ELSE Step(p, q, r, G[s \ {Max(s)}], seq[Max(s)])]
           Iter == CHOOSE G : G = Body(G)
<1>1. DOMAIN seq = 1..N /\ \A n \in 1..N : seq[n] \in T
    OBVIOUS
<1>2. Run(p, q, r, b, seq) = Iter[1..N]
    BY <1>1 DEF Run, FoldLeft, MapThenFoldSet
<1>3. \A s \in (SUBSET (1..N)) \ {{}} : Max(s) \in s /\ Max(s) \in 1..N /\ s \ {Max(s)} \in SUBSET (1..N)
    BY MaxIn
<1>4. Order(ch, 1..N) /\ \A s \in (SUBSET (1..N)) \ {{}} : ch[s] = Max(s)
    BY <1>3 DEF Order
<1>5. F \in [R \X (1..N) -> R]
    BY <1>1 DEF Closed
<1>6. \A s \in R, n \in 1..N : F[<<s, n>>] = Step(p, q, r, s, seq[n])
    OBVIOUS
<1> HIDE DEF ch, F
<1>7. PICK G \in [SUBSET (1..N) -> R] : FoldOf(G, ch, F, b, 1..N)
    <2>1. IsFiniteSet(1..N)
        BY FS_Interval
    <2> QED
        BY <1>4, <1>5, <2>1, FoldExists
<1>8. ASSUME NEW s \in SUBSET (1..N)
      PROVE  G[s] = IF s = {} THEN b ELSE Step(p, q, r, G[s \ {Max(s)}], seq[Max(s)])
    <2>1. CASE s # {}
        <3>1. G[s] = F[<<G[s \ {Max(s)}], Max(s)>>]
            BY <1>4, <1>7, <2>1 DEF FoldOf
        <3>2. G[s \ {Max(s)}] \in R /\ Max(s) \in 1..N
            BY <1>3, <1>7, <2>1
        <3> QED
            BY <1>6, <2>1, <3>1, <3>2
    <2> QED
        BY <1>7, <2>1 DEF FoldOf
<1>9. G = Body(G)
    BY <1>7, <1>8
<1>10. Iter = Body(Iter)
    BY <1>9
<1> HIDE DEF Iter
<1>11. \A s \in SUBSET (1..N) :
           Iter[s] = IF s = {} THEN b ELSE Step(p, q, r, Iter[s \ {Max(s)}], seq[Max(s)])
    BY <1>10
<1>12. /\ 1..0 = {} /\ {} \in SUBSET (1..N) /\ 1..N \in SUBSET (1..N)
       /\ \A n \in 1..N : /\ 1..n \in SUBSET (1..N) /\ 1..n # {} /\ Max(1..n) = n
                          /\ (1..n) \ {n} = 1..(n - 1)
    BY FirstSteps
<1> DEFINE g == [n \in 0..N |-> Iter[1..n]]
<1>13. g[0] = b /\ Run(p, q, r, b, seq) = g[N]
    <2>1. {} \in SUBSET (1..N) /\ 1..0 = {} /\ 0 \in 0..N /\ N \in 0..N
        OBVIOUS
    <2>2. Iter[{}] = b
        BY <1>11, <2>1
    <2> QED
        BY <1>2, <2>1, <2>2
<1>14. \A n \in 1..N : g[n] = Step(p, q, r, g[n - 1], seq[n])
    <2>1. \A n \in 1..N : Iter[1..n] = Step(p, q, r, Iter[1..(n - 1)], seq[n])
        BY <1>11, <1>12
    <2> QED
        BY <2>1
<1>15. g = [n \in 0..N |-> g[n]]
    OBVIOUS
<1> HIDE DEF g
<1>16. \A n \in 1..N : g[n - 1] \in R => g[n] \in R
    BY <1>1, <1>14 DEF Closed
<1>17. g \in [0..N -> R]
    BY <1>13, <1>15, <1>16, StepsIn
<1> QED
    BY <1>13, <1>14, <1>17 DEF Steps

\* A fold stays in a set that no step leaves.
THEOREM FoldIn ==
    ASSUME NEW p, NEW q, NEW r, NEW R, NEW b \in R, NEW T, NEW seq \in Seq(T),
           Closed(p, q, r, R, T)
    PROVE  Run(p, q, r, b, seq) \in R
<1> DEFINE N == Len(seq)
<1>1. N \in Nat /\ seq \in [1..N -> T]
    OBVIOUS
<1> HIDE DEF N
<1>2. PICK g \in [0..N -> R] : Steps(g, p, q, r, b, seq, N)
    BY <1>1, FoldSteps
<1>3. N \in 0..N
    BY <1>1
<1> QED
    BY <1>2, <1>3 DEF Steps

------------------------------------------------------------------------------
(* Sums.                                                                    *)

Sum(fun, S) == SumFunctionOnSet(fun, S)

\* The element a sum over s takes first.
Chosen(s) == CHOOSE x \in s : TRUE

\* G is the sum of fun over each part of S.
Sums(G, fun, S) ==
    /\ G[{}] = 0
    /\ \A s \in (SUBSET S) \ {{}} : G[s] = fun[Chosen(s)] + G[s \ {Chosen(s)}]

\* There is such a G.
LEMMA SumsExist ==
    ASSUME NEW S, IsFiniteSet(S), NEW fun, \A x \in S : fun[x] \in Int
    PROVE  \E G \in [SUBSET S -> Int] : Sums(G, fun, S)
<1> DEFINE ch == [s \in (SUBSET S) \ {{}} |-> Chosen(s)]
           F == [p \in Int \X S |-> fun[p[2]] + p[1]]
<1>1. Order(ch, S)
    BY DEF Order, Chosen
<1>2. F \in [Int \X S -> Int]
    OBVIOUS
<1>3. \A v \in Int, x \in S : F[<<v, x>>] = fun[x] + v
    OBVIOUS
<1>4. \A s \in (SUBSET S) \ {{}} : ch[s] = Chosen(s) /\ Chosen(s) \in S /\ s \ {Chosen(s)} \in SUBSET S
    BY DEF Chosen
<1> HIDE DEF ch, F
<1>5. PICK G \in [SUBSET S -> Int] : FoldOf(G, ch, F, 0, S)
    <2>1. 0 \in Int
        OBVIOUS
    <2> QED
        BY <1>1, <1>2, <2>1, FoldExists
<1>6. G[{}] = 0
    BY <1>5 DEF FoldOf
<1>7. ASSUME NEW s \in (SUBSET S) \ {{}} PROVE G[s] = fun[Chosen(s)] + G[s \ {Chosen(s)}]
    <2>1. G[s] = F[<<G[s \ {Chosen(s)}], Chosen(s)>>]
        BY <1>4, <1>5 DEF FoldOf
    <2>2. G[s \ {Chosen(s)}] \in Int /\ Chosen(s) \in S
        BY <1>4, <1>5
    <2> QED
        BY <1>3, <2>1, <2>2
<1> QED
    BY <1>5, <1>6, <1>7 DEF Sums

\* There is but one.
LEMMA SumsUnique ==
    ASSUME NEW S, IsFiniteSet(S), NEW U \in SUBSET S, NEW fun, NEW G, NEW H,
           Sums(G, fun, S), Sums(H, fun, U)
    PROVE  H[U] = G[U]
<1> DEFINE K == {k \in Nat : \A s \in SUBSET U : Cardinality(s) = k => H[s] = G[s]}
<1>1. \A s \in SUBSET U : IsFiniteSet(s) /\ Cardinality(s) \in Nat /\ s \in SUBSET S
    <2>1. IsFiniteSet(U)
        BY FS_Subset
    <2> QED
        BY <2>1, FS_Subset, FS_CardinalityType
<1>2. 0 \in K
    <2>1. \A s \in SUBSET U : Cardinality(s) = 0 => s = {}
        BY <1>1, FS_EmptySet
    <2> QED
        BY <2>1 DEF Sums
<1>3. ASSUME NEW k \in Nat, k \in K PROVE k + 1 \in K
    <2>1. ASSUME NEW s \in SUBSET U, Cardinality(s) = k + 1 PROVE H[s] = G[s]
        <3> DEFINE r == s \ {Chosen(s)}
        <3>1. s # {}
            <4>1. Cardinality({}) = 0 /\ k + 1 # 0
                BY FS_EmptySet
            <4> QED
                BY <2>1, <4>1
        <3>2. Chosen(s) \in s
            BY <3>1 DEF Chosen
        <3>3. Cardinality(r) = k
            <4>1. Cardinality(r) = Cardinality(s) - 1
                BY <1>1, <3>2, FS_RemoveElement
            <4> QED
                BY <2>1, <4>1
        <3>4. H[r] = G[r]
            BY <1>3, <3>3
        <3>5. H[s] = fun[Chosen(s)] + H[r]
            BY <3>1 DEF Sums
        <3>6. G[s] = fun[Chosen(s)] + G[r]
            BY <1>1, <3>1 DEF Sums
        <3> QED
            BY <3>4, <3>5, <3>6
    <2> QED
        BY <2>1
<1> HIDE DEF K
<1>4. Nat \subseteq K
    BY <1>2, <1>3, Induction
<1>5. Cardinality(U) \in K
    BY <1>1, <1>4
<1> QED
    BY <1>5 DEF K

\* It is what SumFunctionOnSet gives.
LEMMA SumIs ==
    ASSUME NEW S, IsFiniteSet(S), NEW fun, \A x \in S : fun[x] \in Int,
           NEW G, Sums(G, fun, S), NEW U \in SUBSET S
    PROVE  Sum(fun, U) = G[U]
<1> DEFINE Body(g) == [s \in SUBSET U |-> IF s = {} THEN 0
                              ELSE fun[Chosen(s)] + g[s \ {Chosen(s)}]]
           Iter == CHOOSE g : g = Body(g)
<1>1. Sum(fun, U) = Iter[U]
    BY DEF Sum, SumFunctionOnSet, FoldFunctionOnSet, MapThenFoldSet, Chosen
<1>2. IsFiniteSet(U) /\ \A x \in U : fun[x] \in Int
    BY FS_Subset
<1>3. PICK g \in [SUBSET U -> Int] : Sums(g, fun, U)
    BY <1>2, SumsExist
<1>4. g = Body(g)
    BY <1>3 DEF Sums
<1>5. Iter = Body(Iter)
    BY <1>4
<1> HIDE DEF Iter
<1>6. Sums(Iter, fun, U)
    BY <1>5 DEF Sums
<1> QED
    BY <1>1, <1>6, SumsUnique

\* A sum of integers is one; that of none is 0.
LEMMA SumInt ==
    ASSUME NEW S, IsFiniteSet(S), NEW fun, \A x \in S : fun[x] \in Int
    PROVE  Sum(fun, S) \in Int /\ Sum(fun, {}) = 0
<1>1. PICK G \in [SUBSET S -> Int] : Sums(G, fun, S)
    BY SumsExist
<1>2. Sum(fun, S) = G[S] /\ Sum(fun, {}) = G[{}]
    <2>1. S \in SUBSET S /\ {} \in SUBSET S
        OBVIOUS
    <2> QED
        BY <1>1, <2>1, SumIs
<1> QED
    BY <1>1, <1>2 DEF Sums

\* Only the members of S count.
LEMMA SumSame ==
    ASSUME NEW S, IsFiniteSet(S), NEW fun, NEW gun, \A x \in S : fun[x] = gun[x] /\ fun[x] \in Int
    PROVE  Sum(fun, S) = Sum(gun, S)
<1>1. PICK G \in [SUBSET S -> Int] : Sums(G, fun, S)
    BY SumsExist
<1>2. \A s \in (SUBSET S) \ {{}} : Chosen(s) \in S
    BY DEF Chosen
<1>3. Sums(G, gun, S)
    BY <1>1, <1>2 DEF Sums
<1>4. S \in SUBSET S
    OBVIOUS
<1> QED
    BY <1>1, <1>3, <1>4, SumIs

\* Any member may be counted apart.
THEOREM SumRemove ==
    ASSUME NEW S, IsFiniteSet(S), NEW fun, \A x \in S : fun[x] \in Int, NEW x \in S
    PROVE  Sum(fun, S) = fun[x] + Sum(fun, S \ {x})
<1>1. PICK G \in [SUBSET S -> Int] : Sums(G, fun, S)
    BY SumsExist
<1> DEFINE K == {k \in Nat : \A s \in SUBSET S : Cardinality(s) = k =>
                                 \A y \in s : G[s] = fun[y] + G[s \ {y}]}
<1>2. \A s \in SUBSET S : IsFiniteSet(s) /\ Cardinality(s) \in Nat
    BY FS_Subset, FS_CardinalityType
<1>3. 0 \in K
    <2>1. \A s \in SUBSET S : Cardinality(s) = 0 => s = {}
        BY <1>2, FS_EmptySet
    <2> QED
        BY <2>1
<1>4. ASSUME NEW k \in Nat, k \in K PROVE k + 1 \in K
    <2>1. ASSUME NEW s \in SUBSET S, Cardinality(s) = k + 1, NEW y \in s
          PROVE  G[s] = fun[y] + G[s \ {y}]
        <3> DEFINE z == Chosen(s)
        <3>1. z \in s
            BY DEF Chosen
        <3>2. G[s] = fun[z] + G[s \ {z}]
            BY <1>1 DEF Sums
        <3> HIDE DEF z
        <3>3. CASE y # z
            <4>1. Cardinality(s \ {y}) = k /\ Cardinality(s \ {z}) = k
                <5>1. /\ Cardinality(s \ {y}) = Cardinality(s) - 1
                      /\ Cardinality(s \ {z}) = Cardinality(s) - 1
                    BY <1>2, <3>1, FS_RemoveElement
                <5> QED
                    BY <2>1, <5>1
            <4>2. y \in s \ {z} /\ z \in s \ {y} /\ s \ {y} \in SUBSET S /\ s \ {z} \in SUBSET S
                BY <3>1, <3>3
            <4>3. /\ G[s \ {z}] = fun[y] + G[(s \ {z}) \ {y}]
                  /\ G[s \ {y}] = fun[z] + G[(s \ {y}) \ {z}]
                BY <1>4, <4>1, <4>2
            <4>4. (s \ {z}) \ {y} = (s \ {y}) \ {z}
                OBVIOUS
            <4>5. fun[y] \in Int /\ fun[z] \in Int /\ G[(s \ {y}) \ {z}] \in Int
                BY <1>1, <3>1
            <4>6. \A a, b, c \in Int : a + (b + c) = b + (a + c)
                OBVIOUS
            <4>7. fun[z] + (fun[y] + G[(s \ {y}) \ {z}]) = fun[y] + (fun[z] + G[(s \ {y}) \ {z}])
                BY <4>5, <4>6
            <4> QED
                BY <3>2, <4>3, <4>4, <4>7
        <3> QED
            BY <3>2, <3>3
    <2> QED
        BY <2>1
<1> HIDE DEF K
<1>5. Nat \subseteq K
    BY <1>3, <1>4, Induction
<1>6. Cardinality(S) \in K
    BY <1>2, <1>5
<1>7. G[S] = fun[x] + G[S \ {x}]
    BY <1>6 DEF K
<1>8. S \in SUBSET S /\ S \ {x} \in SUBSET S
    OBVIOUS
<1>9. Sum(fun, S) = G[S] /\ Sum(fun, S \ {x}) = G[S \ {x}]
    BY <1>1, <1>8, SumIs
<1> QED
    BY <1>7, <1>9

\* A sum of natural numbers is one.
LEMMA SumNat ==
    ASSUME NEW S, IsFiniteSet(S), NEW fun, \A x \in S : fun[x] \in Nat
    PROVE  Sum(fun, S) \in Nat
<1> DEFINE T == {s \in SUBSET S : Sum(fun, s) \in Nat}
<1>1. {} \in T
    BY SumInt
<1>2. ASSUME NEW s \in SUBSET S, NEW x \in S \ s, s \in T PROVE s \cup {x} \in T
    <2>1. IsFiniteSet(s \cup {x}) /\ x \in s \cup {x} /\ \A y \in s \cup {x} : fun[y] \in Int
        BY FS_Subset
    <2>2. Sum(fun, s \cup {x}) = fun[x] + Sum(fun, (s \cup {x}) \ {x})
        BY <2>1, SumRemove
    <2>3. (s \cup {x}) \ {x} = s
        BY <1>2
    <2>4. Sum(fun, s) \in Nat /\ fun[x] \in Nat
        BY <1>2
    <2> QED
        BY <2>2, <2>3, <2>4
<1> HIDE DEF T
<1>3. SUBSET S \subseteq T
    BY <1>1, <1>2, SubsetInduction
<1>4. S \in T
    BY <1>3
<1> QED
    BY <1>4 DEF T

\* Two sums over the same members are one.
LEMMA SumAdds ==
    ASSUME NEW S, IsFiniteSet(S), NEW fun, NEW gun, NEW hun,
           \A x \in S : fun[x] \in Int /\ gun[x] \in Int /\ hun[x] = fun[x] + gun[x]
    PROVE  Sum(hun, S) = Sum(fun, S) + Sum(gun, S)
<1> DEFINE T == {s \in SUBSET S : Sum(hun, s) = Sum(fun, s) + Sum(gun, s)}
<1>0. \A x \in S : hun[x] \in Int
    OBVIOUS
<1>1. {} \in T
    <2>1. Sum(hun, {}) = 0 /\ Sum(fun, {}) = 0 /\ Sum(gun, {}) = 0
        BY <1>0, SumInt
    <2> QED
        BY <2>1
<1>2. ASSUME NEW s \in SUBSET S, NEW x \in S \ s, s \in T PROVE s \cup {x} \in T
    <2> DEFINE t == s \cup {x}
    <2>1. IsFiniteSet(t) /\ IsFiniteSet(s) /\ x \in t /\ t \in SUBSET S /\ t \ {x} = s
        BY <1>2, FS_Subset
    <2>2. \A y \in t : fun[y] \in Int /\ gun[y] \in Int /\ hun[y] \in Int
        BY <1>0, <2>1
    <2> HIDE DEF t
    <2>3. Sum(fun, t) = fun[x] + Sum(fun, t \ {x})
        BY <2>1, <2>2, SumRemove
    <2>4. Sum(gun, t) = gun[x] + Sum(gun, t \ {x})
        BY <2>1, <2>2, SumRemove
    <2>5. Sum(hun, t) = hun[x] + Sum(hun, t \ {x})
        BY <2>1, <2>2, SumRemove
    <2>6. Sum(fun, s) \in Int /\ Sum(gun, s) \in Int
        BY <1>0, <2>1, SumInt
    <2>7. hun[x] = fun[x] + gun[x] /\ fun[x] \in Int /\ gun[x] \in Int
        BY <1>2
    <2>8. Sum(hun, s) = Sum(fun, s) + Sum(gun, s)
        BY <1>2
    <2>9. Sum(hun, t) = Sum(fun, t) + Sum(gun, t)
        <3>1. \A a, b, c, d \in Int : (a + c) + (b + d) = (a + b) + (c + d)
            OBVIOUS
        <3>2. (fun[x] + gun[x]) + (Sum(fun, s) + Sum(gun, s)) = (fun[x] + Sum(fun, s)) + (gun[x] + Sum(gun, s))
            BY <2>6, <2>7, <3>1
        <3> QED
            BY <2>1, <2>3, <2>4, <2>5, <2>7, <2>8, <3>2
    <2> QED
        BY <2>1, <2>9 DEF t
<1> HIDE DEF T
<1>3. SUBSET S \subseteq T
    BY <1>1, <1>2, SubsetInduction
<1>4. S \in T
    BY <1>3
<1> QED
    BY <1>4 DEF T

\* The sum of gun is that of fun with another term for x.
Changed(fun, gun, S, x) == Sum(gun, S) = Sum(fun, S) - fun[x] + gun[x]

\* One term of a sum changes.
LEMMA SumChanged ==
    ASSUME NEW S, IsFiniteSet(S), NEW fun, NEW gun, NEW x \in S,
           \A y \in S : fun[y] \in Int, \A y \in S : gun[y] \in Int,
           \A y \in S \ {x} : fun[y] = gun[y]
    PROVE  Changed(fun, gun, S, x)
<1> DEFINE U == S \ {x}
<1>1. IsFiniteSet(U) /\ \A y \in U : fun[y] = gun[y] /\ fun[y] \in Int
    BY FS_RemoveElement
<1>2. Sum(fun, S) = fun[x] + Sum(fun, U)
    BY SumRemove
<1>3. Sum(gun, S) = gun[x] + Sum(gun, U)
    BY SumRemove
<1> HIDE DEF U
<1>4. Sum(fun, U) = Sum(gun, U) /\ Sum(fun, U) \in Int
    BY <1>1, SumSame, SumInt
<1>5. fun[x] \in Int /\ gun[x] \in Int
    OBVIOUS
<1> QED
    BY <1>2, <1>3, <1>4, <1>5 DEF Changed

\* Every step adds w of its element to a measure M of the state, or at most adds it,
Exact(p, q, r, R, T, M, w) == \A s \in R, x \in T : M[Step(p, q, r, s, x)] = M[s] + w[x]
AtMost(p, q, r, R, T, M, w) == \A s \in R, x \in T : M[Step(p, q, r, s, x)] <= M[s] + w[x]

\* and so does the fold.
Counted(p, q, r, b, seq, M, fun) == M[Run(p, q, r, b, seq)] = M[b] + Sum(fun, 1..Len(seq))
Bounded(p, q, r, b, seq, M, fun) == M[Run(p, q, r, b, seq)] <= M[b] + Sum(fun, 1..Len(seq))

\* What its steps add to a measure of the state, or at most add, a fold adds.
THEOREM FoldCounts ==
    ASSUME NEW p, NEW q, NEW r, NEW R, NEW b \in R, NEW T, NEW seq \in Seq(T),
           Closed(p, q, r, R, T), NEW M, \A s \in R : M[s] \in Int,
           NEW w, \A x \in T : w[x] \in Int,
           NEW fun, \A i \in 1..Len(seq) : fun[i] = w[seq[i]]
    PROVE  /\ Exact(p, q, r, R, T, M, w) => Counted(p, q, r, b, seq, M, fun)
           /\ AtMost(p, q, r, R, T, M, w) => Bounded(p, q, r, b, seq, M, fun)
<1> DEFINE N == Len(seq)
<1>1. N \in Nat /\ seq \in [1..N -> T] /\ N \in 0..N
    OBVIOUS
<1>2. \A i \in 1..N : seq[i] \in T /\ fun[i] = w[seq[i]] /\ fun[i] \in Int
    BY <1>1
<1> HIDE DEF N
<1>3. PICK g \in [0..N -> R] : Steps(g, p, q, r, b, seq, N)
    BY <1>1, FoldSteps
<1>4. /\ g[0] = b /\ Run(p, q, r, b, seq) = g[N] /\ g[N] \in R
      /\ \A n \in 1..N : g[n] = Step(p, q, r, g[n - 1], seq[n])
    BY <1>1, <1>3 DEF Steps
<1>5. \A n \in 0..N : Sum(fun, 1..n) \in Int
    <2>1. ASSUME NEW n \in 0..N PROVE Sum(fun, 1..n) \in Int
        <3>1. IsFiniteSet(1..n) /\ \A i \in 1..n : fun[i] \in Int
            BY <1>1, <1>2, FS_Interval
        <3> DEFINE S == 1..n
        <3> HIDE DEF S
        <3>2. Sum(fun, S) \in Int
            BY <3>1, SumInt DEF S
        <3> QED
            BY <3>2 DEF S
    <2> QED
        BY <2>1
<1>6. Sum(fun, 1..0) = 0
    <2>1. 1..0 = {} /\ IsFiniteSet({}) /\ \A i \in {} : fun[i] \in Int
        BY FS_EmptySet
    <2> QED
        BY <2>1, SumInt
<1>7. \A n \in 1..N : Sum(fun, 1..n) = fun[n] + Sum(fun, 1..(n - 1))
    <2>1. ASSUME NEW n \in 1..N PROVE Sum(fun, 1..n) = fun[n] + Sum(fun, 1..(n - 1))
        <3> DEFINE S == 1..n
        <3>1. IsFiniteSet(S) /\ n \in S /\ S \ {n} = 1..(n - 1) /\ \A i \in S : fun[i] \in Int
            <4>1. IsFiniteSet(1..n)
                BY <1>1, FS_Interval
            <4>2. n \in 1..n /\ (1..n) \ {n} = 1..(n - 1) /\ \A i \in 1..n : i \in 1..N
                BY <1>1
            <4> QED
                BY <1>2, <4>1, <4>2
        <3> HIDE DEF S
        <3>2. Sum(fun, S) = fun[n] + Sum(fun, S \ {n})
            BY <3>1, SumRemove
        <3> QED
            BY <3>1, <3>2 DEF S
    <2> QED
        BY <2>1
<1>8. \A n \in 0..N : g[n] \in R /\ M[g[n]] \in Int
    BY <1>3
<1> DEFINE K == {n \in Nat : n <= N => M[g[n]] = M[b] + Sum(fun, 1..n)}
           J == {n \in Nat : n <= N => M[g[n]] <= M[b] + Sum(fun, 1..n)}
<1>9. 0 \in K /\ 0 \in J
    BY <1>1, <1>4, <1>6, <1>8
<1>10. ASSUME NEW n \in Nat, n + 1 <= N
       PROVE  /\ n <= N /\ n \in 0..N /\ n + 1 \in 1..N
              /\ g[n] \in R /\ seq[n + 1] \in T
              /\ g[n + 1] = Step(p, q, r, g[n], seq[n + 1])
              /\ Sum(fun, 1..(n + 1)) = w[seq[n + 1]] + Sum(fun, 1..n)
              /\ w[seq[n + 1]] \in Int /\ Sum(fun, 1..n) \in Int /\ M[g[n]] \in Int /\ M[b] \in Int
              /\ M[g[n + 1]] \in Int
    <2>1. n <= N /\ n \in 0..N /\ n + 1 \in 1..N /\ n + 1 \in 0..N /\ (n + 1) - 1 = n
        BY <1>1, <1>10
    <2>2. g[n + 1] = Step(p, q, r, g[n], seq[n + 1])
        BY <1>4, <2>1
    <2>3. Sum(fun, 1..(n + 1)) = fun[n + 1] + Sum(fun, 1..n)
        BY <1>7, <2>1
    <2> QED
        BY <1>2, <1>5, <1>8, <2>1, <2>2, <2>3
<1>11. ASSUME Exact(p, q, r, R, T, M, w)
       PROVE  M[g[N]] = M[b] + Sum(fun, 1..N)
    <2>1. ASSUME NEW n \in Nat, n \in K PROVE n + 1 \in K
        <3> SUFFICES ASSUME n + 1 <= N PROVE M[g[n + 1]] = M[b] + Sum(fun, 1..(n + 1))
            OBVIOUS
        <3>1. M[g[n]] = M[b] + Sum(fun, 1..n)
            BY <1>10, <2>1
        <3>2. M[g[n + 1]] = M[g[n]] + w[seq[n + 1]]
            BY <1>10, <1>11 DEF Exact
        <3> QED
            BY <1>10, <3>1, <3>2
    <2> HIDE DEF K
    <2>2. N \in K
        BY <1>1, <1>9, <2>1, Induction
    <2> QED
        BY <1>1, <2>2 DEF K
<1>12. ASSUME AtMost(p, q, r, R, T, M, w)
       PROVE  M[g[N]] <= M[b] + Sum(fun, 1..N)
    <2>1. ASSUME NEW n \in Nat, n \in J PROVE n + 1 \in J
        <3> SUFFICES ASSUME n + 1 <= N PROVE M[g[n + 1]] <= M[b] + Sum(fun, 1..(n + 1))
            OBVIOUS
        <3>1. M[g[n]] <= M[b] + Sum(fun, 1..n)
            BY <1>10, <2>1
        <3>2. M[g[n + 1]] <= M[g[n]] + w[seq[n + 1]]
            BY <1>10, <1>12 DEF AtMost
        <3> QED
            BY <1>10, <3>1, <3>2
    <2> HIDE DEF J
    <2>2. N \in J
        BY <1>1, <1>9, <2>1, Induction
    <2> QED
        BY <1>1, <2>2 DEF J
<1> QED
    BY <1>4, <1>11, <1>12 DEF N, Counted, Bounded
=============================================================================
