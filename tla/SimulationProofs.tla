-------------------------- MODULE SimulationProofs --------------------------
(* Simulation for every batch of jobs: the reward and the metric, the window *)
(* and the optimality of the strategies.  What sums and sorts return is      *)
(* proved first, from least counterexamples in place of induction.           *)
EXTENDS Simulation, FiniteSetTheorems, WellFoundedInduction, TLAPS

(* The least number, or the least set, of those that are a counterexample.   *)
LEMMA SmallestNumber ==
    ASSUME NEW T \in SUBSET Nat, T # {}
    PROVE  \E n \in T : \A m \in T : n <= m
<1>1. PICK n \in T : \A m \in T : ~(<<m, n>> \in OpToRel(<, Nat))
  BY NatLessThanWellFounded, WFMin
<1>2. ASSUME NEW m \in T, m < n PROVE FALSE
  <2>1. <<m, n>> \in {ss \in Nat \X Nat : ss[1] < ss[2]}
    BY <1>2
  <2> QED BY <1>1, <2>1 DEF OpToRel
<1> QED BY <1>2

LEMMA SmallestSet ==
    ASSUME NEW S, IsFiniteSet(S), NEW T \in SUBSET (SUBSET S), T # {}
    PROVE  \E t \in T : \A u \in T : u \subseteq t => u = t
<1>1. \A t \in T : IsFiniteSet(t) /\ Cardinality(t) \in Nat
  BY FS_Subset, FS_CardinalityType
<1>2. PICK n \in {Cardinality(t) : t \in T} : \A m \in {Cardinality(t) : t \in T} : n <= m
  <2>1. /\ {Cardinality(t) : t \in T} \in SUBSET Nat
        /\ {Cardinality(t) : t \in T} # {}
    BY <1>1
  <2> QED BY <2>1, SmallestNumber
<1>3. PICK t \in T : Cardinality(t) = n
  BY <1>2
<1>4. ASSUME NEW u \in T, u \subseteq t PROVE u = t
  <2>1. Cardinality(t) <= Cardinality(u)
    BY <1>2, <1>3
  <2>2. Cardinality(u) <= Cardinality(t) /\ (Cardinality(t) = Cardinality(u) => t = u)
    BY <1>1, <1>4, FS_Subset
  <2> QED BY <1>1, <2>1, <2>2
<1> QED BY <1>4

-----------------------------------------------------------------------------
(* Sums over finite sets: the recursive function behind MapThenSumSet.       *)

Picked(s) == CHOOSE x \in s : TRUE

Sums(g, S, f) ==
    f = [s \in SUBSET S |-> IF s = {} THEN 0 ELSE g[Picked(s)] + f[s \ {Picked(s)}]]

LEMMA SumsAgree ==
    ASSUME NEW g, NEW S, IsFiniteSet(S), NEW R, NEW f, NEW h, Sums(g, S, f), Sums(g, R, h),
           NEW s \in SUBSET S, s \subseteq R
    PROVE  f[s] = h[s]
<1> DEFINE T == {t \in SUBSET S : t \subseteq R /\ f[t] # h[t]}
<1>1. SUFFICES ASSUME T # {} PROVE FALSE
  OBVIOUS
<1>2. PICK t \in T : \A u \in T : u \subseteq t => u = t
  <2>1. T \in SUBSET (SUBSET S)
    OBVIOUS
  <2> HIDE DEF T
  <2> QED BY <1>1, <2>1, SmallestSet
<1>3. t # {}
  BY <1>2 DEF Sums
<1>4. Picked(t) \in t
  BY <1>3 DEF Picked
<1>5. f[t \ {Picked(t)}] = h[t \ {Picked(t)}]
  BY <1>2, <1>4
<1>6. f[t] = g[Picked(t)] + f[t \ {Picked(t)}] /\ h[t] = g[Picked(t)] + h[t \ {Picked(t)}]
  BY <1>2, <1>3 DEF Sums
<1> QED BY <1>2, <1>5, <1>6

LEMMA SumsExist ==
    ASSUME NEW g, NEW S, IsFiniteSet(S)
    PROVE  \E f : Sums(g, S, f)
<1> DEFINE T == {t \in SUBSET S : ~\E f : Sums(g, t, f)}
<1>1. SUFFICES ASSUME T # {} PROVE FALSE
  OBVIOUS
<1>2. PICK t \in T : \A u \in T : u \subseteq t => u = t
  <2>1. T \in SUBSET (SUBSET S)
    OBVIOUS
  <2> HIDE DEF T
  <2> QED BY <1>1, <2>1, SmallestSet
<1> DEFINE F(u) == CHOOSE f : Sums(g, u, f)
           h == [s \in SUBSET t |-> IF s = {} THEN 0
                                    ELSE g[Picked(s)] + F(s \ {Picked(s)})[s \ {Picked(s)}]]
<1>3. ASSUME NEW u \in SUBSET t, u # t PROVE Sums(g, u, F(u)) /\ IsFiniteSet(u)
  <2>1. u \notin T /\ u \in SUBSET S
    BY <1>2, <1>3
  <2>2. \E f : Sums(g, u, f)
    BY <2>1
  <2>3. Sums(g, u, F(u))
    BY <2>2
  <2> QED BY <2>1, <2>3, FS_Subset
<1>4. ASSUME NEW s \in SUBSET t, s # {}
      PROVE  h[s \ {Picked(s)}] = F(s \ {Picked(s)})[s \ {Picked(s)}]
  <2> DEFINE u == s \ {Picked(s)}
  <2> HIDE DEF F
  <2>1. Picked(s) \in s /\ u \in SUBSET t /\ u # t
    BY <1>4 DEF Picked
  <2>2. Sums(g, u, F(u)) /\ IsFiniteSet(u)
    BY <1>3, <2>1
  <2>3. CASE u = {}
    BY <2>1, <2>2, <2>3 DEF Sums
  <2>4. CASE u # {}
    <3> DEFINE v == u \ {Picked(u)}
    <3>1. Picked(u) \in u /\ v \in SUBSET t /\ v # t /\ v \subseteq u
      BY <2>1, <2>4 DEF Picked
    <3>2. Sums(g, v, F(v))
      BY <1>3, <3>1
    <3>3. F(u)[v] = F(v)[v]
      BY <2>2, <3>1, <3>2, SumsAgree
    <3>4. F(u)[u] = g[Picked(u)] + F(u)[v]
      BY <2>2, <2>4 DEF Sums
    <3>5. h[u] = g[Picked(u)] + F(v)[v]
      BY <2>1, <2>4
    <3> QED BY <3>3, <3>4, <3>5
  <2> QED BY <2>3, <2>4
<1>5. Sums(g, t, h)
  <2> HIDE DEF F
  <2>1. ASSUME NEW s \in SUBSET t
        PROVE  h[s] = IF s = {} THEN 0 ELSE g[Picked(s)] + h[s \ {Picked(s)}]
    BY <1>4
  <2>2. h = [s \in SUBSET t |-> h[s]]
    OBVIOUS
  <2> HIDE DEF h
  <2> QED BY <2>1, <2>2 DEF Sums
<1> QED BY <1>2, <1>5

(* The sum of g over S, with the facts that are needed of it.                *)
Total(g, S) == (CHOOSE f : Sums(g, S, f))[S]

LEMMA TotalUnfolds ==
    ASSUME NEW g, NEW S, IsFiniteSet(S)
    PROVE  /\ S = {} => Total(g, S) = 0
           /\ S # {} => /\ Picked(S) \in S
                        /\ Total(g, S) = g[Picked(S)] + Total(g, S \ {Picked(S)})
<1> DEFINE F(u) == CHOOSE f : Sums(g, u, f)
           R == S \ {Picked(S)}
<1>1. ASSUME NEW u \in SUBSET S PROVE Sums(g, u, F(u)) /\ Total(g, u) = F(u)[u]
  BY FS_Subset, SumsExist DEF Total
<1> HIDE DEF F
<1>2. S = {} => Total(g, S) = 0
  BY <1>1 DEF Sums
<1>3. ASSUME S # {} PROVE Picked(S) \in S
  BY <1>3 DEF Picked
<1>4. ASSUME S # {} PROVE Total(g, S) = g[Picked(S)] + Total(g, R)
  <2>1. F(S)[S] = g[Picked(S)] + F(S)[R]
    BY <1>1, <1>4 DEF Sums
  <2>2. F(S)[R] = F(R)[R]
    <3>1. Sums(g, S, F(S)) /\ Sums(g, R, F(R))
      BY <1>1
    <3>2. R \in SUBSET S
      OBVIOUS
    <3> HIDE DEF R
    <3> QED BY <3>1, <3>2, SumsAgree
  <2> QED BY <1>1, <2>1, <2>2
<1> QED BY <1>2, <1>3, <1>4

LEMMA TotalType ==
    ASSUME NEW D, NEW g \in [D -> Nat], NEW S \in SUBSET D, IsFiniteSet(S)
    PROVE  Total(g, S) \in Nat
<1> DEFINE T == {t \in SUBSET S : Total(g, t) \notin Nat}
<1>1. SUFFICES ASSUME T # {} PROVE FALSE
  OBVIOUS
<1>2. PICK t \in T : \A u \in T : u \subseteq t => u = t
  <2>1. T \in SUBSET (SUBSET S)
    OBVIOUS
  <2> HIDE DEF T
  <2> QED BY <1>1, <2>1, SmallestSet
<1>3. IsFiniteSet(t) /\ t # {}
  <2>1. IsFiniteSet(t)
    BY <1>2, FS_Subset
  <2>2. Total(g, {}) = 0
    BY FS_EmptySet, TotalUnfolds
  <2>3. Total(g, t) \notin Nat
    BY <1>2
  <2> QED BY <2>1, <2>2, <2>3
<1>4. Picked(t) \in t /\ Total(g, t) = g[Picked(t)] + Total(g, t \ {Picked(t)})
  BY <1>3, TotalUnfolds
<1>5. Total(g, t \ {Picked(t)}) \in Nat
  BY <1>2, <1>4
<1> QED BY <1>2, <1>4, <1>5

(* The order in which the elements are picked does not matter.               *)
LEMMA TotalOfRest ==
    ASSUME NEW D, NEW g \in [D -> Nat], NEW S \in SUBSET D, IsFiniteSet(S), NEW i \in S
    PROVE  Total(g, S) = g[i] + Total(g, S \ {i})
<1> DEFINE Holds(t) == \A k \in t : Total(g, t) = g[k] + Total(g, t \ {k})
           T == {t \in SUBSET S : ~Holds(t)}
<1>1. SUFFICES ASSUME T # {} PROVE FALSE
  OBVIOUS
<1>2. PICK t \in T : \A u \in T : u \subseteq t => u = t
  <2>1. T \in SUBSET (SUBSET S)
    OBVIOUS
  <2> HIDE DEF T
  <2> QED BY <1>1, <2>1, SmallestSet
<1>3. PICK k \in t : Total(g, t) # g[k] + Total(g, t \ {k})
  BY <1>2
<1> DEFINE p == Picked(t)
<1>4. IsFiniteSet(t) /\ p \in t /\ Total(g, t) = g[p] + Total(g, t \ {p})
  BY <1>2, <1>3, FS_Subset, TotalUnfolds
<1> HIDE DEF p
<1>5. p # k
  BY <1>3, <1>4
<1>6. Holds(t \ {p}) /\ Holds(t \ {k})
  BY <1>2, <1>3, <1>4
<1>7. /\ Total(g, t \ {p}) = g[k] + Total(g, (t \ {p}) \ {k})
      /\ Total(g, t \ {k}) = g[p] + Total(g, (t \ {k}) \ {p})
  BY <1>3, <1>4, <1>5, <1>6
<1>8. (t \ {p}) \ {k} = (t \ {k}) \ {p}
  OBVIOUS
<1>9. Total(g, (t \ {k}) \ {p}) \in Nat /\ g[k] \in Nat /\ g[p] \in Nat
  BY <1>2, <1>3, <1>4, FS_Subset, TotalType
<1> QED BY <1>3, <1>4, <1>7, <1>8, <1>9

LEMMA TotalMonotonic ==
    ASSUME NEW D, NEW g \in [D -> Nat], NEW S \in SUBSET D, IsFiniteSet(S), NEW R \in SUBSET S
    PROVE  Total(g, R) <= Total(g, S)
<1> DEFINE T == {t \in SUBSET S : R \subseteq t /\ ~(Total(g, R) <= Total(g, t))}
<1>1. SUFFICES ASSUME T # {} PROVE FALSE
  OBVIOUS
<1>2. PICK t \in T : \A u \in T : u \subseteq t => u = t
  <2>1. T \in SUBSET (SUBSET S)
    OBVIOUS
  <2> HIDE DEF T
  <2> QED BY <1>1, <2>1, SmallestSet
<1>3. IsFiniteSet(t) /\ Total(g, t) \in Nat /\ Total(g, R) \in Nat
  BY <1>2, FS_Subset, TotalType
<1>4. PICK k \in t : k \notin R
  <2>1. R \subseteq t /\ R # t
    BY <1>2, <1>3
  <2> QED BY <2>1
<1>5. Total(g, t) = g[k] + Total(g, t \ {k})
  BY <1>2, <1>3, <1>4, TotalOfRest
<1>6. Total(g, R) <= Total(g, t \ {k})
  BY <1>2, <1>4
<1>7. Total(g, t \ {k}) \in Nat /\ g[k] \in Nat
  BY <1>2, <1>3, <1>4, FS_Subset, TotalType
<1> QED BY <1>2, <1>3, <1>5, <1>6, <1>7

(* MapThenSumSet, here of the best rewards, is such a sum.                   *)
Best == [i \in All |-> 22 + batch[i].prio]

LEMMA SumOfBest ==
    ASSUME IsFiniteSet(All)
    PROVE  MapThenSumSet(LAMBDA i : 22 + batch[i].prio, All) = Total(Best, All)
<1> DEFINE P(f) == f = [s \in SUBSET All |->
                          IF s = {} THEN 0
                          ELSE (22 + batch[Picked(s)].prio) + f[s \ {Picked(s)}]]
<1>1. ASSUME NEW f PROVE P(f) <=> Sums(Best, All, f)
  <2>1. ASSUME NEW s \in SUBSET All, s # {} PROVE Best[Picked(s)] = 22 + batch[Picked(s)].prio
    BY <2>1 DEF Picked, Best
  <2>2. [s \in SUBSET All |-> IF s = {} THEN 0
                              ELSE (22 + batch[Picked(s)].prio) + f[s \ {Picked(s)}]]
        = [s \in SUBSET All |-> IF s = {} THEN 0 ELSE Best[Picked(s)] + f[s \ {Picked(s)}]]
    BY <2>1
  <2> QED BY <2>2 DEF Sums
<1>2. MapThenSumSet(LAMBDA i : 22 + batch[i].prio, All) = (CHOOSE f : P(f))[All]
  BY DEF MapThenSumSet, MapThenFoldSet, Picked
<1> HIDE DEF P
<1>3. PICK f : Sums(Best, All, f)
  BY SumsExist
<1> DEFINE a == CHOOSE h : P(h)
           b == CHOOSE h : Sums(Best, All, h)
<1>4. Sums(Best, All, a) /\ Sums(Best, All, b)
  <2>1. P(a)
    BY <1>1, <1>3
  <2> QED BY <1>1, <1>3, <2>1
<1>5. Total(Best, All) = b[All] /\ MapThenSumSet(LAMBDA i : 22 + batch[i].prio, All) = a[All]
  BY <1>2 DEF Total
<1> HIDE DEF a, b
<1>6. a[All] = b[All]
  BY <1>4, SumsAgree
<1> QED BY <1>5, <1>6

-----------------------------------------------------------------------------
(* Sorting: in a strict total order every rank belongs to one element.       *)

StrictOrder(R, S) ==
    /\ \A i \in S : <<i, i>> \notin R
    /\ \A i, j, k \in S : <<i, j>> \in R /\ <<j, k>> \in R => <<i, k>> \in R
    /\ \A i, j \in S : i # j => <<i, j>> \in R \/ <<j, i>> \in R

Ahead(R, S, i) == {j \in S : <<j, i>> \in R}

LEMMA RankFollowsOrder ==
    ASSUME NEW S, IsFiniteSet(S), NEW R, StrictOrder(R, S), NEW i \in S
    PROVE  /\ Cardinality(Ahead(R, S, i)) \in 0..(Cardinality(S) - 1)
           /\ \A j \in S : <<j, i>> \in R =>
                  Cardinality(Ahead(R, S, j)) < Cardinality(Ahead(R, S, i))
<1>1. \A U \in SUBSET S : IsFiniteSet(U) /\ Cardinality(U) \in Nat
  BY FS_Subset, FS_CardinalityType
<1>2. ASSUME NEW U \in SUBSET S, NEW V \in SUBSET U, NEW k \in U, k \notin V
      PROVE  Cardinality(V) < Cardinality(U)
  <2>1. Cardinality(V) <= Cardinality(U) /\ (Cardinality(U) = Cardinality(V) => U = V)
    BY <1>1, FS_Subset
  <2> QED BY <1>1, <1>2, <2>1
<1>3. Cardinality(Ahead(R, S, i)) < Cardinality(S)
  <2>1. Ahead(R, S, i) \in SUBSET S /\ i \notin Ahead(R, S, i)
    BY DEF Ahead, StrictOrder
  <2> QED BY <1>2, <2>1
<1>4. ASSUME NEW j \in S, <<j, i>> \in R
      PROVE  Cardinality(Ahead(R, S, j)) < Cardinality(Ahead(R, S, i))
  <2>1. /\ Ahead(R, S, i) \in SUBSET S /\ Ahead(R, S, j) \in SUBSET Ahead(R, S, i)
        /\ j \in Ahead(R, S, i) /\ j \notin Ahead(R, S, j)
    BY <1>4 DEF Ahead, StrictOrder
  <2> QED BY <1>2, <2>1
<1>5. Ahead(R, S, i) \in SUBSET S
  BY DEF Ahead
<1> QED BY <1>1, <1>3, <1>4, <1>5

LEMMA EveryRankIsTaken ==
    ASSUME NEW S, IsFiniteSet(S), NEW R, StrictOrder(R, S), NEW n \in 1..Cardinality(S)
    PROVE  \E i \in S : Cardinality(Ahead(R, S, i)) = n - 1
<1> DEFINE N == 0..(Cardinality(S) - 1)
           rank == [i \in S |-> Cardinality(Ahead(R, S, i))]
<1>1. Cardinality(S) \in Nat /\ IsFiniteSet(N) /\ Cardinality(N) = Cardinality(S)
  <2>1. Cardinality(S) \in Nat
    BY FS_CardinalityType
  <2>2. 0 \in Int /\ Cardinality(S) - 1 \in Int
    BY <2>1
  <2> QED BY <2>1, <2>2, FS_Interval
<1>2. rank \in Injection(S, N)
  <2>1. rank \in [S -> N]
    BY RankFollowsOrder
  <2>2. ASSUME NEW i \in S, NEW j \in S, rank[i] = rank[j] PROVE i = j
    <3>1. rank[i] \in Nat /\ rank[j] \in Nat
      BY <2>1
    <3>2. CASE <<i, j>> \in R
      BY <2>2, <3>1, <3>2, RankFollowsOrder
    <3>3. CASE <<j, i>> \in R
      BY <2>2, <3>1, <3>3, RankFollowsOrder
    <3> QED BY <3>2, <3>3 DEF StrictOrder
  <2> QED BY <2>1, <2>2 DEF Injection, IsInjective
<1>3. rank \in Surjection(S, N)
  <2> HIDE DEF rank, N
  <2> QED BY <1>1, <1>2, FS_Injection
<1>4. n - 1 \in N
  BY <1>1
<1> QED BY <1>3, <1>4 DEF Surjection

(* s is S in the order R.                                                    *)
Ranked(s, S, R) ==
    /\ s \in [1..Cardinality(S) -> S]
    /\ \A n \in 1..Cardinality(S) : Cardinality(Ahead(R, S, s[n])) = n - 1

LEMMA RankedIsInOrder ==
    ASSUME NEW S, IsFiniteSet(S), NEW R, StrictOrder(R, S), NEW s, Ranked(s, S, R)
    PROVE  /\ \A m, n \in 1..Cardinality(S) : <<s[m], s[n]>> \in R <=> m < n
           /\ \A i \in S : \E n \in 1..Cardinality(S) : s[n] = i
<1>1. Cardinality(S) \in Nat
  BY FS_CardinalityType
<1>2. ASSUME NEW m \in 1..Cardinality(S), NEW n \in 1..Cardinality(S), m < n
      PROVE  <<s[m], s[n]>> \in R
  <2>1. /\ s[m] \in S /\ s[n] \in S
        /\ Cardinality(Ahead(R, S, s[m])) = m - 1 /\ Cardinality(Ahead(R, S, s[n])) = n - 1
    BY DEF Ranked
  <2>2. s[m] # s[n]
    BY <1>1, <1>2, <2>1
  <2>3. <<s[n], s[m]>> \notin R
    BY <1>1, <1>2, <2>1, RankFollowsOrder
  <2> QED BY <2>1, <2>2, <2>3 DEF StrictOrder
<1>3. ASSUME NEW m \in 1..Cardinality(S), NEW n \in 1..Cardinality(S), <<s[m], s[n]>> \in R
      PROVE  m < n
  <2>1. s[m] \in S /\ s[n] \in S
    BY DEF Ranked
  <2>2. m # n
    BY <1>3, <2>1 DEF StrictOrder
  <2>3. ~(n < m)
    BY <1>2, <1>3, <2>1 DEF StrictOrder
  <2> QED BY <1>1, <2>2, <2>3
<1>4. ASSUME NEW i \in S PROVE \E n \in 1..Cardinality(S) : s[n] = i
  <2> DEFINE n == Cardinality(Ahead(R, S, i)) + 1
  <2>1. n \in 1..Cardinality(S)
    BY <1>1, RankFollowsOrder
  <2>2. /\ s[n] \in S /\ Cardinality(Ahead(R, S, i)) \in Nat
        /\ Cardinality(Ahead(R, S, s[n])) = Cardinality(Ahead(R, S, i))
    <3>1. Cardinality(Ahead(R, S, i)) \in 0..(Cardinality(S) - 1)
      BY RankFollowsOrder
    <3> QED BY <1>1, <2>1, <3>1 DEF Ranked
  <2>3. <<s[n], i>> \notin R /\ <<i, s[n]>> \notin R
    BY <2>2, RankFollowsOrder
  <2>4. s[n] = i
    BY <2>2, <2>3 DEF StrictOrder
  <2> QED BY <2>1, <2>4
<1> QED BY <1>2, <1>3, <1>4

-----------------------------------------------------------------------------
(* The batch and its two orders *)

LEMMA BatchFacts ==
    ASSUME batch \in Batches
    PROVE  /\ IsFiniteSet(All) /\ All # {} /\ All = 1..Len(batch) /\ Len(batch) \in Nat
           /\ Cardinality(All) = Len(batch)
           /\ \A i \in All : /\ i \in Nat
                             /\ batch[i].dur \in Nat \ {0}
                             /\ batch[i].due \in Nat /\ batch[i].prio \in 1..10
<1>1. batch \in Seq(JobType) /\ batch # <<>>
  BY SimulationAssumption
<1>2. All = 1..Len(batch) /\ Len(batch) \in Nat
  BY <1>1 DEF All
<1>3. IsFiniteSet(All) /\ Cardinality(All) = Len(batch)
  BY <1>2, FS_Interval
<1>4. \A i \in All : batch[i] \in JobType
  BY <1>1 DEF All
<1>5. All # {}
  BY <1>1, <1>2
<1> QED BY <1>2, <1>3, <1>4, <1>5 DEF JobType

ByDue == {p \in All \X All : DueBefore(p[1], p[2])}
ByPriority == {p \in All \X All : HigherFirst(p[1], p[2])}

LEMMA OrdersAreStrict ==
    ASSUME batch \in Batches, NEW S \in SUBSET All
    PROVE  StrictOrder(ByDue, S) /\ StrictOrder(ByPriority, S)
<1>1. \A i, j \in All : /\ <<i, j>> \in ByDue <=> DueBefore(i, j)
                        /\ <<i, j>> \in ByPriority <=> HigherFirst(i, j)
  BY DEF ByDue, ByPriority
<1>2. StrictOrder(ByDue, S)
  BY <1>1, BatchFacts DEF StrictOrder, DueBefore
<1>3. StrictOrder(ByPriority, S)
  <2>1. \A i \in S : ~HigherFirst(i, i)
    BY BatchFacts DEF HigherFirst, DueBefore
  <2>2. \A i \in S : batch[i].prio \in Int
    BY BatchFacts
  <2>3. ASSUME NEW i \in S, NEW j \in S, NEW k \in S, HigherFirst(i, j), HigherFirst(j, k)
        PROVE  HigherFirst(i, k)
    <3>1. DueBefore(i, j) /\ DueBefore(j, k) => DueBefore(i, k)
      BY <1>1, <1>2 DEF StrictOrder
    <3> QED BY <2>3, <2>2, <3>1 DEF HigherFirst
  <2>4. ASSUME NEW i \in S, NEW j \in S, i # j PROVE HigherFirst(i, j) \/ HigherFirst(j, i)
    <3>1. DueBefore(i, j) \/ DueBefore(j, i)
      BY <1>1, <1>2, <2>4 DEF StrictOrder
    <3> QED BY <2>2, <3>1 DEF HigherFirst
  <2> QED BY <1>1, <2>1, <2>3, <2>4 DEF StrictOrder
<1> QED BY <1>2, <1>3

LEMMA SortedAreRanked ==
    ASSUME batch \in Batches, NEW S \in SUBSET All
    PROVE  /\ Ranked(SortedByDeadline(S), S, ByDue)
           /\ Ranked(PriorityOrder, All, ByPriority)
<1>1. IsFiniteSet(S) /\ IsFiniteSet(All)
  BY BatchFacts, FS_Subset
<1>2. \A i \in All : /\ Ahead(ByDue, S, i) = {j \in S : DueBefore(j, i)}
                     /\ Ahead(ByPriority, All, i) = {j \in All : HigherFirst(j, i)}
  <2>1. ASSUME NEW i \in All
        PROVE  /\ \A j \in All : <<j, i>> \in ByDue <=> DueBefore(j, i)
               /\ \A j \in All : <<j, i>> \in ByPriority <=> HigherFirst(j, i)
    BY DEF ByDue, ByPriority
  <2> QED BY <2>1 DEF Ahead
<1>3. Ranked(SortedByDeadline(S), S, ByDue)
  <2>1. ASSUME NEW n \in 1..Cardinality(S)
        PROVE  \E i \in S : Cardinality({j \in S : DueBefore(j, i)}) = n - 1
    <3>1. PICK i \in S : Cardinality(Ahead(ByDue, S, i)) = n - 1
      BY <1>1, OrdersAreStrict, EveryRankIsTaken
    <3>2. Ahead(ByDue, S, i) = {j \in S : DueBefore(j, i)}
      BY <1>2
    <3> QED BY <3>1, <3>2
  <2> DEFINE s == [n \in 1..Cardinality(S) |->
                      CHOOSE i \in S : Cardinality({j \in S : DueBefore(j, i)}) = n - 1]
  <2>2. SortedByDeadline(S) = s
    BY DEF SortedByDeadline, Sorted
  <2>3. ASSUME NEW n \in 1..Cardinality(S)
        PROVE  s[n] \in S /\ Cardinality({j \in S : DueBefore(j, s[n])}) = n - 1
    BY <2>1
  <2>4. s \in [1..Cardinality(S) -> S]
    BY <2>3
  <2> HIDE DEF s
  <2> QED BY <1>2, <2>2, <2>3, <2>4 DEF Ranked
<1>4. Ranked(PriorityOrder, All, ByPriority)
  <2>1. ASSUME NEW n \in 1..Cardinality(All)
        PROVE  \E i \in All : Cardinality({j \in All : HigherFirst(j, i)}) = n - 1
    <3>1. PICK i \in All : Cardinality(Ahead(ByPriority, All, i)) = n - 1
      BY <1>1, OrdersAreStrict, EveryRankIsTaken
    <3>2. Ahead(ByPriority, All, i) = {j \in All : HigherFirst(j, i)}
      BY <1>2
    <3> QED BY <3>1, <3>2
  <2> DEFINE s == [n \in 1..Cardinality(All) |->
                      CHOOSE i \in All : Cardinality({j \in All : HigherFirst(j, i)}) = n - 1]
  <2>2. PriorityOrder = s
    BY DEF PriorityOrder, Sorted
  <2>3. ASSUME NEW n \in 1..Cardinality(All)
        PROVE  s[n] \in All /\ Cardinality({j \in All : HigherFirst(j, s[n])}) = n - 1
    BY <2>1
  <2>4. s \in [1..Cardinality(All) -> All]
    BY <2>3
  <2> HIDE DEF s
  <2> QED BY <1>2, <2>2, <2>3, <2>4 DEF Ranked
<1> QED BY <1>3, <1>4

-----------------------------------------------------------------------------
(* One decision *)

(* What is shown to the agent are the jobs with the earliest deadlines.      *)
LEMMA ChosenIsEarly ==
    ASSUME batch \in Batches, waiting \in SUBSET All, waiting # {},
           NEW i \in Selected(WindowOf(SortedByDeadline(waiting)))
    PROVE  /\ i \in waiting
           /\ Cardinality(Ahead(ByDue, waiting, i)) < ActionSize
           /\ firstOnly => Ahead(ByDue, waiting, i) = {}
<1> DEFINE s == SortedByDeadline(waiting)
           k == IF Len(s) < ActionSize THEN Len(s) ELSE ActionSize
           c == Cardinality(waiting)
<1>1. IsFiniteSet(waiting) /\ c \in Nat /\ c > 0
  BY BatchFacts, FS_Subset, FS_CardinalityType, FS_EmptySet
<1>2. s \in [1..c -> waiting] /\ \A n \in 1..c : Cardinality(Ahead(ByDue, waiting, s[n])) = n - 1
  BY SortedAreRanked DEF Ranked
<1> HIDE DEF s, c
<1>3. s \in Seq(waiting) /\ Len(s) = c
  BY <1>1, <1>2
<1>4. k \in 1..c /\ k <= ActionSize /\ ActionSize \in Nat
  BY <1>1, <1>3, SimulationAssumption
<1>5. WindowOf(s) = SubSeq(s, 1, k)
  BY DEF WindowOf
<1> HIDE DEF k
<1>6. WindowOf(s) = [n \in 1..k |-> s[n]]
  BY <1>3, <1>4, <1>5
<1>7. PICK n \in 1..k : i = s[n] /\ (firstOnly => n = 1)
  <2>1. i \in Selected(WindowOf(s))
    BY DEF s
  <2>2. CASE firstOnly
    BY <1>4, <1>6, <2>1, <2>2 DEF Selected
  <2>3. CASE ~firstOnly
    BY <1>6, <2>1, <2>3 DEF Selected, ToSet
  <2> QED BY <2>2, <2>3
<1>8. i \in waiting /\ Cardinality(Ahead(ByDue, waiting, i)) = n - 1
  BY <1>1, <1>2, <1>4, <1>7
<1>9. ASSUME firstOnly PROVE Ahead(ByDue, waiting, i) = {}
  <2>1. Cardinality(Ahead(ByDue, waiting, i)) = 0
    BY <1>7, <1>8, <1>9
  <2>2. IsFiniteSet(Ahead(ByDue, waiting, i))
    BY <1>1, FS_Subset DEF Ahead
  <2> QED BY <2>1, <2>2, FS_EmptySet
<1> QED BY <1>1, <1>4, <1>7, <1>8, <1>9

LEMMA RunJobEffect ==
    ASSUME SimulationTypeOK, RunJob
    PROVE  \E i \in waiting :
             /\ Cardinality(Ahead(ByDue, waiting, i)) < ActionSize
             /\ firstOnly => Ahead(ByDue, waiting, i) = {}
             /\ now' = now + batch[i].dur
             /\ completedAt' = [completedAt EXCEPT ![i] = now']
             /\ completed' = Append(completed, i)
             /\ reward' = reward + CalculateReward(i, now')
             /\ waiting' = waiting \ {i}
             /\ batch' = batch /\ firstOnly' = firstOnly
<1>1. PICK i \in Selected(WindowOf(SortedByDeadline(waiting))) :
             /\ now' = now + batch[i].dur
             /\ completedAt' = [completedAt EXCEPT ![i] = now']
             /\ completed' = Append(completed, i)
             /\ reward' = reward + CalculateReward(i, now')
             /\ waiting' = waiting \ {i}
             /\ batch' = batch /\ firstOnly' = firstOnly
  BY DEF RunJob
<1>2. batch \in Batches /\ waiting \in SUBSET All /\ waiting # {}
  BY DEF SimulationTypeOK, RunJob
<1> QED BY <1>1, <1>2, ChosenIsEarly

LEMMA SimulationTypes ==
    ASSUME SimulationTypeOK, [RunJob]_simulationVars PROVE SimulationTypeOK'
<1>1. CASE UNCHANGED simulationVars
  BY <1>1 DEF simulationVars, SimulationTypeOK, All
<1>2. CASE RunJob
  <2>1. PICK i \in waiting :
             /\ now' = now + batch[i].dur
             /\ completedAt' = [completedAt EXCEPT ![i] = now']
             /\ completed' = Append(completed, i)
             /\ reward' = reward + CalculateReward(i, now')
             /\ waiting' = waiting \ {i}
             /\ batch' = batch /\ firstOnly' = firstOnly
    BY <1>2, RunJobEffect
  <2>2. /\ i \in All /\ All' = All
        /\ batch[i].dur \in Nat /\ batch[i].prio \in Int /\ batch[i].due \in Nat
    <3>1. batch \in Batches /\ waiting \in SUBSET All
      BY DEF SimulationTypeOK
    <3>2. i \in All
      BY <2>1, <3>1
    <3>3. batch[i].dur \in Nat /\ batch[i].prio \in Int /\ batch[i].due \in Nat
      BY <3>1, <3>2, BatchFacts
    <3> QED BY <2>1, <3>2, <3>3 DEF All
  <2>3. now' \in Nat /\ CalculateReward(i, now') \in Int
    <3>1. now' \in Nat
      BY <2>1, <2>2 DEF SimulationTypeOK
    <3>2. (IF now' <= batch[i].due THEN 20 ELSE -20) \in Int
      OBVIOUS
    <3> QED BY <2>2, <3>1, <3>2 DEF CalculateReward
  <2> QED BY <2>1, <2>2, <2>3 DEF SimulationTypeOK
<1> QED BY <1>1, <1>2

-----------------------------------------------------------------------------
(* Invariants of an episode *)

Done == All \ waiting
Durations == [i \in All |-> batch[i].dur]

(* What has been earned so far is the best rewards of the jobs that are      *)
(* done, less 40 for each of them that was late.                             *)
Earned ==
    /\ \A i \in waiting : completedAt[i] = NotYet
    /\ reward = Total(Best, Done) - 40 * Cardinality(Missed(completedAt))

Listed == Done = {completed[n] : n \in DOMAIN completed}

(* An agent that answers 0 has run jobs by deadline and without a gap.       *)
UpTo(i) == {j \in All : j = i \/ DueBefore(j, i)}
RunByDeadline ==
    firstOnly =>
        /\ now = Total(Durations, Done)
        /\ \A i \in Done : /\ \A j \in waiting : DueBefore(i, j)
                           /\ completedAt[i] = Total(Durations, UpTo(i))

LEMMA DoneGrows ==
    ASSUME NEW i \in waiting, waiting \in SUBSET All, waiting' = waiting \ {i}, batch' = batch
    PROVE  Done' = Done \cup {i} /\ Done = Done' \ {i} /\ All' = All
BY DEF Done, All

LEMMA EarnedStep ==
    ASSUME SimulationTypeOK, Earned, RunJob PROVE Earned'
<1>1. PICK i \in waiting :
             /\ now' = now + batch[i].dur
             /\ completedAt' = [completedAt EXCEPT ![i] = now']
             /\ reward' = reward + CalculateReward(i, now')
             /\ waiting' = waiting \ {i}
             /\ batch' = batch
  BY RunJobEffect
<1>2. /\ i \in All /\ waiting \in SUBSET All /\ batch \in Batches /\ IsFiniteSet(All)
      /\ now' \in Nat /\ batch[i].due \in Nat /\ batch[i].prio \in 1..10
      /\ completedAt \in [All -> Nat] /\ reward \in Int
  BY <1>1, BatchFacts DEF SimulationTypeOK
<1>3. Done' = Done \cup {i} /\ Done = Done' \ {i} /\ All' = All
  BY <1>1, <1>2, DoneGrows
<1>4. \A j \in waiting' : completedAt'[j] = NotYet
  BY <1>1, <1>2 DEF Earned
<1>5. Best' = Best /\ Best \in [All -> Nat] /\ Best[i] = 22 + batch[i].prio
  <2>1. Best' = Best
    BY <1>1, <1>3 DEF Best
  <2>2. ASSUME NEW j \in All PROVE 22 + batch[j].prio \in Nat
    <3>1. batch[j].prio \in 1..10
      BY <1>2, BatchFacts
    <3> QED BY <3>1
  <2> QED BY <1>2, <2>1, <2>2 DEF Best
<1>6. /\ Total(Best, Done') = Best[i] + Total(Best, Done)
      /\ Total(Best, Done) \in Nat
  <2>1. Done' \in SUBSET All /\ i \in Done' /\ IsFiniteSet(Done') /\ IsFiniteSet(Done)
    BY <1>2, <1>3, FS_Subset DEF Done
  <2> QED BY <1>3, <1>5, <2>1, TotalOfRest, TotalType DEF Done
<1> DEFINE M == Missed(completedAt)
<1>7. /\ M \in SUBSET All /\ i \notin M
      /\ Missed(completedAt)' = IF now' > batch[i].due THEN M \cup {i} ELSE M
  <2>1. completedAt[i] = 0
    BY <1>1 DEF Earned, NotYet
  <2>2. i \notin M
    BY <1>2, <2>1 DEF Missed
  <2>3. \A j \in All : completedAt'[j] = IF j = i THEN now' ELSE completedAt[j]
    BY <1>1, <1>2
  <2>4. Missed(completedAt)' = {j \in All : completedAt'[j] > batch[j].due}
    BY <1>1, <1>3 DEF Missed
  <2> QED BY <1>2, <2>2, <2>3, <2>4 DEF Missed
<1> HIDE DEF M
<1>8. IsFiniteSet(M) /\ Cardinality(M) \in Nat /\ Cardinality(M \cup {i}) = Cardinality(M) + 1
  BY <1>2, <1>7, FS_Subset, FS_CardinalityType, FS_AddElement
<1>9. reward = Total(Best, Done) - 40 * Cardinality(M)
  BY DEF Earned, M
<1>10. reward' = Total(Best, Done') - 40 * Cardinality(Missed(completedAt)')
  <2>1. CASE now' > batch[i].due
    <3>1. CalculateReward(i, now') = Best[i] - 40
      BY <1>2, <1>5, <2>1 DEF CalculateReward
    <3> QED BY <1>1, <1>2, <1>5, <1>6, <1>7, <1>8, <1>9, <2>1, <3>1
  <2>2. CASE ~(now' > batch[i].due)
    <3>1. CalculateReward(i, now') = Best[i]
      BY <1>2, <1>5, <2>2 DEF CalculateReward
    <3> QED BY <1>1, <1>2, <1>5, <1>6, <1>7, <1>8, <1>9, <2>2, <3>1
  <2> QED BY <2>1, <2>2
<1>11. (Total(Best, Done))' = Total(Best, Done')
  BY <1>5 DEF Total, Sums
<1> QED BY <1>4, <1>10, <1>11 DEF Earned

LEMMA ListedStep ==
    ASSUME SimulationTypeOK, Listed, OvertakesFew, RunJob PROVE Listed' /\ OvertakesFew'
<1>1. PICK i \in waiting :
             /\ Cardinality(Ahead(ByDue, waiting, i)) < ActionSize
             /\ completed' = Append(completed, i)
             /\ waiting' = waiting \ {i}
             /\ batch' = batch
  BY RunJobEffect
<1>2. /\ i \in All /\ waiting \in SUBSET All /\ batch \in Batches /\ IsFiniteSet(All)
      /\ completed \in Seq(All)
  BY <1>1, BatchFacts DEF SimulationTypeOK
<1>3. Done' = Done \cup {i} /\ All' = All
  BY <1>1, <1>2, DoneGrows
<1>4. PICK c \in Nat : c = Len(completed) + 1
  BY <1>2
<1>5. /\ DOMAIN completed = 1..(c - 1) /\ DOMAIN completed' = 1..c /\ c \in 1..c
      /\ completed'[c] = i /\ \A m \in 1..(c - 1) : completed'[m] = completed[m]
      /\ \A m \in 1..c : m = c \/ m \in 1..(c - 1)
      /\ \A m \in 1..(c - 1) : m \in 1..c
  BY <1>1, <1>2, <1>4
<1> DEFINE Later(n) ==
        {k \in All \ {completed[m] : m \in 1..n} : batch[k].due < batch[completed[n]].due}
<1>6. {completed'[m] : m \in 1..c} = Done'
  <2>1. Done = {completed[m] : m \in 1..(c - 1)}
    BY <1>5 DEF Listed
  <2>2. ASSUME NEW x \in {completed'[m] : m \in 1..c} PROVE x \in Done \cup {i}
    BY <1>5, <2>1, <2>2
  <2>3. ASSUME NEW x \in Done PROVE x \in {completed'[m] : m \in 1..c}
    <3>1. PICK m \in 1..(c - 1) : x = completed[m]
      BY <2>1, <2>3
    <3>2. m \in 1..c /\ x = completed'[m]
      BY <1>5, <3>1
    <3> QED BY <3>2
  <2>4. i \in {completed'[m] : m \in 1..c}
    BY <1>5
  <2> QED BY <1>3, <2>2, <2>3, <2>4
<1>7. Listed'
  BY <1>5, <1>6 DEF Listed
<1>8. ASSUME NEW n \in 1..(c - 1) PROVE Cardinality(Later(n)') < ActionSize
  <2>1. n \in 1..(c - 1) /\ \A m \in 1..n : m \in 1..(c - 1)
    BY <1>4
  <2>2. {completed'[m] : m \in 1..n} = {completed[m] : m \in 1..n} /\ completed'[n] = completed[n]
    BY <1>5, <2>1
  <2>3. Later(n)' = Later(n)
    BY <1>1, <1>3, <2>2
  <2>4. Cardinality(Later(n)) < ActionSize
    BY <1>5 DEF OvertakesFew
  <2> QED BY <2>3, <2>4
<1>9. Cardinality(Later(c)') < ActionSize
  <2> DEFINE A == Ahead(ByDue, waiting, i)
  <2>1. Later(c)' = {k \in All \ Done' : batch[k].due < batch[i].due}
    BY <1>1, <1>3, <1>5, <1>6
  <2>2. ASSUME NEW k \in Later(c)' PROVE k \in A
    <3>1. k \in waiting /\ k \in All /\ batch[k].due < batch[i].due
      BY <1>3, <2>1, <2>2 DEF Done
    <3> QED BY <1>2, <3>1 DEF Ahead, ByDue, DueBefore
  <2>3. A \in SUBSET All
    BY <1>2 DEF Ahead
  <2> HIDE DEF A, Later
  <2>4. IsFiniteSet(A) /\ Cardinality(Later(c)') <= Cardinality(A) /\ IsFiniteSet(Later(c)')
    BY <1>2, <2>2, <2>3, FS_Subset
  <2>5. Cardinality(Later(c)') \in Nat /\ Cardinality(A) \in Nat
    BY <2>4, FS_CardinalityType
  <2>6. Cardinality(A) < ActionSize
    BY <1>1 DEF A
  <2> QED BY <2>4, <2>5, <2>6, SimulationAssumption
<1>10. \A n \in 1..c : Cardinality(Later(n)') < ActionSize
  BY <1>5, <1>8, <1>9
<1> QED BY <1>5, <1>7, <1>10 DEF OvertakesFew

LEMMA RunByDeadlineStep ==
    ASSUME SimulationTypeOK, RunByDeadline, RunJob PROVE RunByDeadline'
<1>1. PICK i \in waiting :
             /\ firstOnly => Ahead(ByDue, waiting, i) = {}
             /\ now' = now + batch[i].dur
             /\ completedAt' = [completedAt EXCEPT ![i] = now']
             /\ waiting' = waiting \ {i}
             /\ batch' = batch /\ firstOnly' = firstOnly
  BY RunJobEffect
<1>2. /\ i \in All /\ waiting \in SUBSET All /\ batch \in Batches /\ IsFiniteSet(All)
      /\ completedAt \in [All -> Nat] /\ firstOnly \in BOOLEAN
  BY <1>1, BatchFacts DEF SimulationTypeOK
<1>3. Done' = Done \cup {i} /\ Done = Done' \ {i} /\ All' = All
  BY <1>1, <1>2, DoneGrows
<1>4. SUFFICES ASSUME firstOnly
      PROVE  /\ now' = Total(Durations, Done')
             /\ \A j \in Done' : /\ \A k \in waiting' : DueBefore(j, k)
                                 /\ completedAt'[j] = Total(Durations, UpTo(j))
  <2>1. Durations' = Durations
    BY <1>1, <1>3 DEF Durations
  <2>2. \A j, k : DueBefore(j, k)' = DueBefore(j, k)
    BY <1>1 DEF DueBefore
  <2>3. \A j : UpTo(j)' = UpTo(j)
    BY <1>3, <2>2 DEF UpTo
  <2>4. Total(Durations, Done)' = Total(Durations, Done')
    BY <2>1 DEF Total, Sums
  <2>5. ASSUME NEW j PROVE Total(Durations, UpTo(j))' = Total(Durations, UpTo(j))
    <3>1. UpTo(j)' = UpTo(j)
      BY <2>3
    <3> QED BY <2>1, <3>1 DEF Total, Sums
  <2> QED BY <1>1, <1>4, <2>2, <2>4, <2>5 DEF RunByDeadline
<1>5. ASSUME NEW k \in waiting, k # i PROVE DueBefore(i, k)
  <2>1. <<k, i>> \notin ByDue
    BY <1>1, <1>4, <1>5 DEF Ahead
  <2>2. <<i, k>> \in ByDue
    BY <1>2, <1>5, <2>1, OrdersAreStrict DEF StrictOrder
  <2> QED BY <2>2 DEF ByDue
<1>6. now' = Total(Durations, Done')
  <2>1. Durations \in [All -> Nat] /\ Durations[i] = batch[i].dur
    BY <1>2, BatchFacts DEF Durations
  <2>2. Done' \in SUBSET All /\ i \in Done' /\ IsFiniteSet(Done') /\ IsFiniteSet(Done)
    BY <1>2, <1>3, FS_Subset DEF Done
  <2>3. Total(Durations, Done') = Durations[i] + Total(Durations, Done)
    BY <1>3, <2>1, <2>2, TotalOfRest
  <2>4. now = Total(Durations, Done) /\ Total(Durations, Done) \in Nat
    BY <1>4, <2>1, <2>2, TotalType DEF RunByDeadline, Done
  <2>5. Durations[i] \in Nat
    BY <1>2, <2>1
  <2> QED BY <1>1, <2>1, <2>3, <2>4, <2>5
<1>7. UpTo(i) = Done'
  <2>1. \A j \in Done : DueBefore(j, i)
    BY <1>1, <1>4 DEF RunByDeadline
  <2>2. \A k \in waiting : k # i => ~DueBefore(k, i)
    BY <1>1, <1>4, <1>2 DEF Ahead, ByDue
  <2> QED BY <1>2, <1>3, <2>1, <2>2 DEF UpTo, Done
<1>8. ASSUME NEW j \in Done'
      PROVE  /\ \A k \in waiting' : DueBefore(j, k)
             /\ completedAt'[j] = Total(Durations, UpTo(j))
  <2>1. CASE j = i
    BY <1>1, <1>2, <1>5, <1>6, <1>7, <2>1
  <2>2. CASE j # i
    <3>1. j \in Done /\ j \in All
      BY <1>2, <1>3, <2>2 DEF Done
    <3> QED BY <1>1, <1>2, <1>4, <2>2, <3>1 DEF RunByDeadline
  <2> QED BY <2>1, <2>2
<1> QED BY <1>6, <1>8

Episode ==
    SimulationTypeOK /\ Earned /\ Listed /\ OvertakesFew /\ RunByDeadline

LEMMA EpisodeInit == SimulationInit => Episode
<1> SUFFICES ASSUME SimulationInit PROVE Episode
  OBVIOUS
<1>1. /\ batch \in Batches /\ firstOnly \in BOOLEAN /\ waiting = All /\ now = 0
      /\ completed = <<>> /\ completedAt = [i \in All |-> NotYet] /\ reward = 0
  BY DEF SimulationInit
<1>2. Done = {} /\ DOMAIN completed = {}
  BY <1>1 DEF Done
<1>3. \A g : Total(g, {}) = 0
  BY FS_EmptySet, TotalUnfolds
<1>4. Missed(completedAt) = {}
  BY <1>1, BatchFacts DEF Missed, NotYet
<1>5. Cardinality({}) = 0
  BY FS_EmptySet
<1>6. SimulationTypeOK
  BY <1>1 DEF SimulationTypeOK, NotYet
<1>7. Earned
  <2>1. reward = 0 /\ Total(Best, Done) = 0 /\ Cardinality(Missed(completedAt)) = 0
    BY <1>1, <1>2, <1>3, <1>4, <1>5
  <2>2. \A i \in waiting : completedAt[i] = NotYet
    BY <1>1
  <2> QED BY <2>1, <2>2 DEF Earned
<1>8. Listed /\ OvertakesFew
  BY <1>2 DEF Listed, OvertakesFew
<1>9. RunByDeadline
  BY <1>1, <1>2, <1>3 DEF RunByDeadline
<1> QED BY <1>6, <1>7, <1>8, <1>9 DEF Episode

LEMMA EpisodeStep ==
    ASSUME Episode, [RunJob]_simulationVars PROVE Episode'
<1>1. CASE RunJob
  BY <1>1, SimulationTypes, EarnedStep, ListedStep, RunByDeadlineStep DEF Episode
<1>2. CASE UNCHANGED simulationVars
  <2>1. SimulationTypeOK'
    BY <1>2, SimulationTypes DEF Episode
  <2>2. /\ UNCHANGED <<batch, firstOnly, waiting, now, completed, completedAt, reward>>
        /\ All' = All /\ Done' = Done /\ Best' = Best /\ Durations' = Durations
    BY <1>2 DEF simulationVars, All, Done, Best, Durations
  <2>3. Earned'
    <3>1. Total(Best, Done)' = Total(Best, Done) /\ Missed(completedAt)' = Missed(completedAt)
      BY <2>2 DEF Total, Sums, Missed
    <3> QED BY <2>2, <3>1 DEF Episode, Earned
  <2>4. Listed' /\ OvertakesFew'
    BY <2>2 DEF Episode, Listed, OvertakesFew
  <2>5. RunByDeadline'
    <3>1. Total(Durations, Done)' = Total(Durations, Done)
      BY <2>2 DEF Total, Sums
    <3>2. ASSUME NEW i PROVE Total(Durations, UpTo(i))' = Total(Durations, UpTo(i))
      <4>1. UpTo(i)' = UpTo(i)
        BY <2>2 DEF UpTo, DueBefore
      <4> QED BY <2>2, <4>1 DEF Total, Sums
    <3> QED BY <2>2, <3>1, <3>2 DEF Episode, RunByDeadline, DueBefore
  <2> QED BY <2>1, <2>3, <2>4, <2>5 DEF Episode
<1> QED BY <1>1, <1>2

LEMMA EpisodeAlways == SimulationSpec => []Episode
BY EpisodeInit, EpisodeStep, PTL DEF SimulationSpec

(* Every variable of an episode keeps its type, for any batches and any size *)
(* of the agent's window.                                                    *)
THEOREM SimulationTypeCorrect == SimulationSpec => []SimulationTypeOK
<1>1. Episode => SimulationTypeOK
  BY DEF Episode
<1> QED BY <1>1, EpisodeAlways, PTL

(* The rewards of train_model.py add up to what benchmark.py measures: the   *)
(* order only matters by the number of missed deadlines.                     *)
THEOREM RewardAlwaysCountsMisses == SimulationSpec => []RewardCountsMisses
<1>1. ASSUME Episode, waiting = {}
      PROVE  reward = MapThenSumSet(LAMBDA i : 22 + batch[i].prio, All)
                      - 40 * Cardinality(Missed(completedAt))
  <2>1. Done = All /\ reward = Total(Best, Done) - 40 * Cardinality(Missed(completedAt))
    BY <1>1 DEF Episode, Earned, Done
  <2>2. Total(Best, All) = MapThenSumSet(LAMBDA i : 22 + batch[i].prio, All)
    BY <1>1, BatchFacts, SumOfBest DEF Episode, SimulationTypeOK
  <2> QED BY <2>1, <2>2
<1>2. Episode => RewardCountsMisses
  BY <1>1 DEF RewardCountsMisses
<1> QED BY <1>2, EpisodeAlways, PTL

(* Whatever the agent chooses in its window, less than ActionSize jobs with  *)
(* an earlier deadline are left behind by a job, for any batch.              *)
THEOREM OvertakesAreFew == SimulationSpec => []OvertakesFew
<1>1. Episode => OvertakesFew
  BY DEF Episode
<1> QED BY <1>1, EpisodeAlways, PTL

-----------------------------------------------------------------------------
(* Optimality of the strategies *)

First(o, n) == {o[m] : m \in 1..n}

LEMMA DurationsTyped ==
    ASSUME batch \in Batches
    PROVE  Durations \in [All -> Nat] /\ \A i \in All : Durations[i] = batch[i].dur
BY BatchFacts DEF Durations

LEMMA OrderFacts ==
    ASSUME batch \in Batches, NEW o \in Orders
    PROVE  /\ o \in [All -> All] /\ Len(o) = Len(batch) /\ DOMAIN o = All
           /\ \A m, n \in All : o[m] = o[n] => m = n
           /\ \A i \in All : \E n \in All : o[n] = i
<1>1. o \in [All -> All] /\ \A m, n \in All : o[m] = o[n] => m = n
  BY DEF Orders, IsInjective
<1>2. Len(o) = Len(batch) /\ DOMAIN o = All
  BY <1>1, BatchFacts
<1>3. o \in Injection(All, All)
  BY <1>1 DEF Injection, IsInjective
<1>4. o \in Surjection(All, All)
  BY <1>3, BatchFacts, FS_Injection
<1> QED BY <1>1, <1>2, <1>4 DEF Surjection

LEMMA FirstGrows ==
    ASSUME batch \in Batches, NEW o \in Orders, NEW n \in All
    PROVE  /\ First(o, n) \in SUBSET All /\ IsFiniteSet(First(o, n))
           /\ Total(Durations, First(o, n))
                  = Total(Durations, First(o, n - 1)) + batch[o[n]].dur
<1>1. n \in 1..Len(batch) /\ All = 1..Len(batch) /\ Len(batch) \in Nat /\ IsFiniteSet(All)
  BY BatchFacts
<1>2. ASSUME NEW m \in 1..n PROVE m \in All /\ o[m] \in All
  <2>1. m \in All
    BY <1>1
  <2> QED BY <2>1, OrderFacts
<1>3. First(o, n) \in SUBSET All
  BY <1>2 DEF First
<1>4. IsFiniteSet(First(o, n))
  BY <1>1, <1>3, FS_Subset
<1>5. o[n] \in First(o, n) /\ o[n] \in All
  BY <1>1, <1>2 DEF First
<1>6. First(o, n) \ {o[n]} = First(o, n - 1)
  <2>1. \A m \in 1..n : m = n \/ m \in 1..(n - 1)
    BY <1>1
  <2>2. \A m \in 1..(n - 1) : m \in 1..n /\ m # n
    BY <1>1
  <2>3. \A m \in 1..(n - 1) : o[m] # o[n]
    BY <1>2, <2>2, OrderFacts
  <2> QED BY <2>1, <2>2, <2>3 DEF First
<1>7. Total(Durations, First(o, n)) = Durations[o[n]] + Total(Durations, First(o, n - 1))
  BY <1>3, <1>4, <1>5, <1>6, DurationsTyped, TotalOfRest
<1>8. /\ Total(Durations, First(o, n - 1)) \in Nat
      /\ Durations[o[n]] = batch[o[n]].dur /\ Durations[o[n]] \in Nat
  <2>1. First(o, n - 1) \in SUBSET All /\ IsFiniteSet(First(o, n - 1))
    BY <1>1, <1>3, <1>6, FS_Subset
  <2>2. Total(Durations, First(o, n - 1)) \in Nat
    BY <2>1, DurationsTyped, TotalType
  <2> QED BY <1>5, <2>2, DurationsTyped
<1> QED BY <1>3, <1>4, <1>7, <1>8

(* What the loop over an order adds up to.                                   *)
LEMMA FinishIsTotal ==
    ASSUME batch \in Batches, NEW o \in Orders, NEW n \in All
    PROVE  FinishTimes(o)[o[n]] = Total(Durations, First(o, n))
<1> DEFINE E(f) == f = [k \in 0..Len(o) |-> IF k = 0 THEN 0 ELSE f[k - 1] + batch[o[k]].dur]
           h == [k \in 0..Len(o) |-> Total(Durations, First(o, k))]
           ends == CHOOSE f : E(f)
<1>1. All = 1..Len(o) /\ Len(o) \in Nat
  BY BatchFacts, OrderFacts
<1>2. E(h)
  <2>1. h[0] = 0
    <3>1. First(o, 0) = {}
      BY DEF First
    <3>2. Total(Durations, {}) = 0
      BY FS_EmptySet, TotalUnfolds
    <3>3. 0 \in 0..Len(o)
      BY <1>1
    <3> QED BY <3>1, <3>2, <3>3
  <2>2. ASSUME NEW k \in 0..Len(o), k # 0 PROVE h[k] = h[k - 1] + batch[o[k]].dur
    <3>1. k \in All /\ k - 1 \in 0..Len(o)
      BY <1>1, <2>2
    <3> QED BY <3>1, FirstGrows
  <2>3. h = [k \in 0..Len(o) |-> h[k]]
    OBVIOUS
  <2> HIDE DEF h
  <2> QED BY <2>1, <2>2, <2>3
<1> HIDE DEF h
<1>3. E(ends)
  BY <1>2
<1>4. FinishTimes(o) = [i \in All |-> ends[CHOOSE m \in DOMAIN o : o[m] = i]]
  BY DEF FinishTimes
<1> HIDE DEF ends
<1>5. \A k \in 0..Len(o) : ends[k] = h[k]
  <2> DEFINE T == {k \in 0..Len(o) : ends[k] # h[k]}
  <2>1. SUFFICES ASSUME T # {} PROVE FALSE
    OBVIOUS
  <2>2. PICK k \in T : \A m \in T : k <= m
    <3>1. T \in SUBSET Nat
      BY <1>1
    <3> HIDE DEF T
    <3> QED BY <2>1, <3>1, SmallestNumber
  <2>3. k \in 0..Len(o) /\ k # 0
    BY <1>1, <1>2, <1>3, <2>2
  <2>4. k - 1 \in 0..Len(o) /\ ends[k - 1] = h[k - 1]
    BY <1>1, <2>2, <2>3
  <2>5. ends[k] = ends[k - 1] + batch[o[k]].dur /\ h[k] = h[k - 1] + batch[o[k]].dur
    BY <1>2, <1>3, <2>3
  <2> QED BY <2>2, <2>4, <2>5
<1>6. o[n] \in All /\ (CHOOSE m \in DOMAIN o : o[m] = o[n]) = n
  BY OrderFacts
<1>7. FinishTimes(o)[o[n]] = ends[n]
  BY <1>4, <1>6
<1>8. n \in 0..Len(o)
  BY <1>1
<1> QED BY <1>5, <1>7, <1>8 DEF h

(* In any order, the last of some jobs ends when all of them have run.       *)
LEMMA LastOfSome ==
    ASSUME batch \in Batches, NEW o \in Orders, NEW D \in SUBSET All, D # {}
    PROVE  \E n \in All :
             /\ o[n] \in D
             /\ \A m \in All : o[m] \in D => m <= n
             /\ \A G \in SUBSET All :
                    (\A m \in All : o[m] \in G => m <= n)
                        => FinishTimes(o)[o[n]] >= Total(Durations, G)
<1>1. All = 1..Len(batch) /\ Len(batch) \in Nat
  BY BatchFacts
<1> DEFINE N == Len(batch)
           P == {N - m : m \in {k \in All : o[k] \in D}}
<1>2. PICK p \in P : \A q \in P : p <= q
  <2>1. P \in SUBSET Nat
    BY <1>1
  <2>2. P # {}
    BY OrderFacts
  <2> HIDE DEF P
  <2> QED BY <2>1, <2>2, SmallestNumber
<1>3. PICK n \in All : o[n] \in D /\ p = N - n
  BY <1>2
<1>4. ASSUME NEW m \in All, o[m] \in D PROVE m <= n
  <2>1. N - m \in P
    BY <1>4
  <2>2. N - n <= N - m
    BY <1>2, <1>3, <2>1
  <2> QED BY <1>1, <2>2
<1>5. ASSUME NEW G \in SUBSET All, \A m \in All : o[m] \in G => m <= n
      PROVE  FinishTimes(o)[o[n]] >= Total(Durations, G)
  <2>1. G \in SUBSET First(o, n)
    <3>1. ASSUME NEW i \in G PROVE i \in First(o, n)
      <4>1. PICK m \in All : o[m] = i
        BY OrderFacts
      <4>2. m \in 1..n
        BY <1>1, <1>5, <4>1
      <4> QED BY <4>1, <4>2 DEF First
    <3> QED BY <3>1
  <2>2. Total(Durations, G) <= Total(Durations, First(o, n))
    BY <2>1, FirstGrows, DurationsTyped, TotalMonotonic
  <2>3. Total(Durations, G) \in Nat /\ Total(Durations, First(o, n)) \in Nat
    BY <2>1, FirstGrows, FS_Subset, DurationsTyped, TotalType
  <2> QED BY <2>2, <2>3, FinishIsTotal
<1> QED BY <1>3, <1>4, <1>5

(* The greatest lateness is that of some job.                                *)
LEMMA SomebodyIsLatest ==
    ASSUME batch \in Batches, NEW at \in [All -> Int]
    PROVE  /\ \E i \in All : Lateness(at) = at[i] - batch[i].due
           /\ \A i \in All : at[i] - batch[i].due <= Lateness(at)
           /\ Lateness(at) \in Int
<1> DEFINE late(i) == at[i] - batch[i].due
           Worst(t) == \E i \in t : \A j \in t : late(j) <= late(i)
           T == {t \in SUBSET All : t # {} /\ ~Worst(t)}
<1>1. IsFiniteSet(All) /\ All # {} /\ \A i \in All : late(i) \in Int
  BY BatchFacts
<1>2. Worst(All)
  <2>1. SUFFICES ASSUME ~Worst(All) PROVE FALSE
    OBVIOUS
  <2>2. PICK t \in T : \A u \in T : u \subseteq t => u = t
    <3>1. All \in T
      BY <1>1, <2>1
    <3>2. T \in SUBSET (SUBSET All)
      OBVIOUS
    <3> HIDE DEF T
    <3> QED BY <1>1, <3>1, <3>2, SmallestSet
  <2>3. PICK k \in t : TRUE
    BY <2>2
  <2>4. t \ {k} # {}
    BY <1>1, <2>2, <2>3
  <2>5. Worst(t \ {k})
    <3>1. t \ {k} \notin T
      <4>1. t \ {k} \subseteq t /\ t \ {k} # t
        BY <2>3
      <4> HIDE DEF T
      <4> QED BY <2>2, <4>1
    <3> QED BY <2>2, <2>4, <3>1
  <2>6. PICK i \in t \ {k} : \A j \in t \ {k} : late(j) <= late(i)
    BY <2>5
  <2>7. late(i) \in Int /\ late(k) \in Int /\ \A j \in t : late(j) \in Int
    BY <1>1, <2>2, <2>3, <2>6
  <2> HIDE DEF late
  <2>8. CASE late(k) <= late(i)
    BY <2>2, <2>6, <2>8
  <2>9. CASE late(i) <= late(k)
    BY <2>2, <2>3, <2>6, <2>7, <2>9
  <2> QED BY <2>7, <2>8, <2>9
<1>3. PICK i \in All : \A j \in All : late(j) <= late(i)
  BY <1>2
<1> DEFINE L == {late(j) : j \in All}
<1>4. Lateness(at) = CHOOSE x \in L : \A y \in L : x >= y
  BY DEF Lateness, Max
<1> HIDE DEF late
<1>5. late(i) \in L /\ \A y \in L : late(i) >= y
  BY <1>1, <1>3
<1>6. Lateness(at) \in L /\ \A y \in L : Lateness(at) >= y
  BY <1>4, <1>5
<1>7. \A j \in All : late(j) <= Lateness(at)
  BY <1>1, <1>6
<1> QED BY <1>1, <1>6, <1>7 DEF late

LEMMA FinishTimesTyped ==
    ASSUME batch \in Batches, NEW o \in Orders
    PROVE  FinishTimes(o) \in [All -> Nat]
<1>1. ASSUME NEW i \in All PROVE FinishTimes(o)[i] \in Nat
  <2>1. PICK n \in All : o[n] = i
    BY OrderFacts
  <2> QED BY <2>1, FinishIsTotal, FirstGrows, DurationsTyped, TotalType
<1>2. FinishTimes(o) = [i \in All |-> FinishTimes(o)[i]]
  BY DEF FinishTimes
<1> QED BY <1>1, <1>2

(* If the latest job of one schedule has a counterpart that ends no earlier  *)
(* in the other and was due no later, the other is no better.                *)
LEMMA NoBetter ==
    ASSUME batch \in Batches, NEW at \in [All -> Nat], NEW bt \in [All -> Nat],
           \A i \in All : \E k \in All : bt[k] >= at[i] /\ batch[k].due <= batch[i].due
    PROVE  Lateness(at) <= Lateness(bt)
<1>1. at \in [All -> Int] /\ bt \in [All -> Int]
  OBVIOUS
<1>2. PICK i \in All : Lateness(at) = at[i] - batch[i].due
  BY <1>1, SomebodyIsLatest
<1>3. PICK k \in All : bt[k] >= at[i] /\ batch[k].due <= batch[i].due
  OBVIOUS
<1>4. bt[k] - batch[k].due <= Lateness(bt) /\ Lateness(bt) \in Int
  BY <1>1, SomebodyIsLatest
<1>5. at[i] \in Nat /\ bt[k] \in Nat /\ batch[i].due \in Nat /\ batch[k].due \in Nat
  BY BatchFacts
<1> QED BY <1>2, <1>3, <1>4, <1>5

LEMMA DeadlineIsOptimal ==
    ASSUME SimulationTypeOK, RunByDeadline, firstOnly, waiting = {}, NEW o \in Orders
    PROVE  Lateness(completedAt) <= Lateness(FinishTimes(o))
<1>1. batch \in Batches /\ completedAt \in [All -> Nat] /\ Done = All
  BY DEF SimulationTypeOK, Done
<1>2. ASSUME NEW i \in All
      PROVE  \E k \in All : /\ FinishTimes(o)[k] >= completedAt[i]
                           /\ batch[k].due <= batch[i].due
  <2>1. completedAt[i] = Total(Durations, UpTo(i))
    BY <1>1 DEF RunByDeadline
  <2>2. UpTo(i) \in SUBSET All /\ UpTo(i) # {}
    BY DEF UpTo
  <2>3. PICK n \in All : /\ o[n] \in UpTo(i)
                        /\ FinishTimes(o)[o[n]] >= Total(Durations, UpTo(i))
    BY <1>1, <2>2, LastOfSome
  <2>4. batch[o[n]].due <= batch[i].due
    BY <1>1, <2>2, <2>3, BatchFacts DEF UpTo, DueBefore
  <2> QED BY <2>1, <2>2, <2>3, <2>4
<1>3. FinishTimes(o) \in [All -> Nat]
  BY <1>1, FinishTimesTyped
<1> QED BY <1>1, <1>2, <1>3, NoBetter

LEMMA PriorityOrderFacts ==
    ASSUME batch \in Batches
    PROVE  /\ PriorityOrder \in Orders
           /\ \A n \in All : \A j \in First(PriorityOrder, n) :
                  \/ j = PriorityOrder[n]
                  \/ HigherFirst(j, PriorityOrder[n])
<1> DEFINE s == PriorityOrder
<1>1. Ranked(s, All, ByPriority) /\ StrictOrder(ByPriority, All) /\ IsFiniteSet(All)
  BY SortedAreRanked, OrdersAreStrict, BatchFacts
<1>2. All = 1..Cardinality(All) /\ Cardinality(All) \in Nat
  BY BatchFacts
<1> HIDE DEF s
<1>3. s \in [All -> All]
  BY <1>1, <1>2 DEF Ranked
<1>4. \A m, n \in All : <<s[m], s[n]>> \in ByPriority <=> m < n
  BY <1>1, <1>2, RankedIsInOrder
<1>5. s \in Orders
  <2>1. ASSUME NEW m \in All, NEW n \in All, s[m] = s[n] PROVE m = n
    <3>1. ~(m < n) /\ ~(n < m)
      BY <1>1, <1>3, <1>4, <2>1 DEF StrictOrder
    <3> QED BY <1>2, <3>1
  <2> QED BY <1>3, <2>1 DEF Orders, IsInjective
<1>6. ASSUME NEW n \in All, NEW j \in First(s, n) PROVE j = s[n] \/ HigherFirst(j, s[n])
  <2>1. PICK m \in 1..n : j = s[m]
    BY <1>6 DEF First
  <2>2. m \in All
    BY <1>2
  <2>3. CASE m < n
    BY <1>4, <2>1, <2>2, <2>3 DEF ByPriority
  <2>4. CASE m = n
    BY <2>1, <2>4
  <2> QED BY <1>2, <2>3, <2>4
<1> QED BY <1>5, <1>6 DEF s

LEMMA PriorityIsOptimal ==
    ASSUME batch \in Batches, NEW o \in Orders,
           \A m, n \in All : m < n => batch[o[m]].prio >= batch[o[n]].prio
    PROVE  Lateness(FinishTimes(PriorityOrder)) <= Lateness(FinishTimes(o))
<1> DEFINE s == PriorityOrder
<1>1. s \in Orders
  BY PriorityOrderFacts
<1>2. ASSUME NEW i \in All
      PROVE  \E k \in All : /\ FinishTimes(o)[k] >= FinishTimes(s)[i]
                           /\ batch[k].due <= batch[i].due
  <2>1. PICK n \in All : s[n] = i
    BY <1>1, OrderFacts
  <2> DEFINE G == First(s, n)
             D == {j \in G : batch[j].prio = batch[i].prio}
  <2>2. FinishTimes(s)[i] = Total(Durations, G) /\ G \in SUBSET All
    BY <1>1, <2>1, FinishIsTotal, FirstGrows
  <2>3. i \in D
    <3>1. n \in 1..n
      <4>1. n \in Nat /\ n >= 1
        BY BatchFacts
      <4> QED BY <4>1
    <3> QED BY <2>1, <3>1 DEF First
  <2>4. \A j \in G : j = i \/ HigherFirst(j, i)
    BY <2>1, PriorityOrderFacts
  <2> HIDE DEF G, s
  <2>5. PICK p \in All :
             /\ o[p] \in D
             /\ \A m \in All : o[m] \in D => m <= p
             /\ (\A m \in All : o[m] \in G => m <= p)
                    => FinishTimes(o)[o[p]] >= Total(Durations, G)
    <3>1. D \in SUBSET All /\ D # {}
      BY <2>2, <2>3
    <3> HIDE DEF D
    <3> QED BY <2>2, <3>1, LastOfSome
  <2>6. ASSUME NEW m \in All, o[m] \in G PROVE m <= p
    <3>1. /\ m \in Nat /\ p \in Nat /\ o[m] \in All
          /\ batch[o[p]].prio = batch[i].prio
          /\ batch[o[m]].prio \in Nat /\ batch[i].prio \in Nat
      <4>1. o[m] \in All /\ batch[o[p]].prio = batch[i].prio
        BY <2>2, <2>5, <2>6
      <4>2. \A j \in All : j \in Nat /\ batch[j].prio \in 1..10
        BY BatchFacts
      <4>3. batch[o[m]].prio \in 1..10 /\ batch[i].prio \in 1..10
        BY <4>1, <4>2
      <4> QED BY <4>1, <4>2, <4>3
    <3>2. CASE batch[o[m]].prio = batch[i].prio
      BY <2>5, <2>6, <3>2
    <3>3. CASE batch[o[m]].prio # batch[i].prio
      <4>1. batch[o[m]].prio > batch[i].prio
        BY <2>4, <2>6, <3>3 DEF HigherFirst
      <4>2. ~(p < m)
        BY <3>1, <4>1
      <4> QED BY <3>1, <4>2
    <3> QED BY <3>2, <3>3
  <2>7. FinishTimes(o)[o[p]] >= FinishTimes(s)[i]
    BY <2>2, <2>5, <2>6
  <2>8. o[p] \in All /\ batch[o[p]].due <= batch[i].due
    <3>1. o[p] = i \/ (HigherFirst(o[p], i) /\ batch[o[p]].prio = batch[i].prio)
      BY <2>4, <2>5
    <3>2. o[p] \in All
      BY <2>2, <2>5
    <3>3. batch[o[p]].due \in Nat /\ batch[i].due \in Nat
      BY <3>2, BatchFacts
    <3>4. batch[i].prio \in 1..10
      BY BatchFacts
    <3>5. o[p] = i \/ DueBefore(o[p], i)
      BY <3>1, <3>4 DEF HigherFirst
    <3> QED BY <3>2, <3>3, <3>5 DEF DueBefore
  <2> QED BY <2>7, <2>8
<1>3. FinishTimes(o) \in [All -> Nat] /\ FinishTimes(s) \in [All -> Nat]
  BY <1>1, FinishTimesTyped
<1> HIDE DEF s
<1>4. Lateness(FinishTimes(s)) <= Lateness(FinishTimes(o))
  BY <1>2, <1>3, NoBetter
<1> QED BY <1>4 DEF s

(* An agent that answers 0 keeps the greatest lateness as small as any order *)
(* can, and the priority strategy as any order that respects the priorities, *)
(* for every batch (train_model.py:46-59, benchmark.py:79-94, 119-131).      *)
THEOREM StrategiesAreAlwaysOptimal == SimulationSpec => []StrategiesAreOptimal
<1>1. Episode => StrategiesAreOptimal
  <2> SUFFICES ASSUME Episode PROVE StrategiesAreOptimal
    OBVIOUS
  <2>1. SimulationTypeOK /\ RunByDeadline /\ batch \in Batches
    BY DEF Episode, SimulationTypeOK
  <2>2. ASSUME waiting = {}, firstOnly, NEW o \in Orders
        PROVE  Lateness(completedAt) <= Lateness(FinishTimes(o))
    BY <2>1, <2>2, DeadlineIsOptimal
  <2>3. ASSUME NEW o \in Orders,
               \A m, n \in All : m < n => batch[o[m]].prio >= batch[o[n]].prio
        PROVE  Lateness(FinishTimes(PriorityOrder)) <= Lateness(FinishTimes(o))
    BY <2>1, <2>3, PriorityIsOptimal
  <2> QED BY <2>2, <2>3 DEF StrategiesAreOptimal
<1> QED BY <1>1, EpisodeAlways, PTL
=============================================================================
