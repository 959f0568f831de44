-------------------------- MODULE IoSemanticsProofs --------------------------
(***************************************************************************)
(* Proofs about the parts of io_semantics.c, and the page-cache            *)
(* demonstration, that each keep their state under a lock of their own:    *)
(*   1. induction, and what the folds and sums of the community modules    *)
(*      compute;                                                           *)
(*   2. DeviceUtil: the busy time and the utilization snapshots take of    *)
(*      it, for any number of readers and any clock;                       *)
(*   3. HotInodes: the table of hot inodes, for any number of callers,     *)
(*      inodes and slots;                                                  *)
(*   4. UidWindows: the kilobytes per uid and window, for any number of    *)
(*      CPUs, uids and handlers and any sizes;                             *)
(*   5. WindowStats: the figures of a window, for any number of CPUs and   *)
(*      histogram buckets and any latencies;                               *)
(*   6. PageBudget: the budgets of reclaim, for any number of shrinkers,   *)
(*      uids, inodes and slots, any sizes and any window.                  *)
(***************************************************************************)
EXTENDS DeviceUtil, HotInodes, UidWindows, WindowStats, PageBudget,
        SequenceTheorems, FiniteSetTheorems, TLAPS

-----------------------------------------------------------------------------
(* 1. Induction, folds and sums.  The library's induction theorems take an *)
(* operator as a parameter; here a predicate is the set of what satisfies  *)
(* it, and a recursive definition is a function of the sets it recurs on.  *)

(* The numbers below all of a non-empty set of naturals are finitely many, *)
(* and as many as its least element.                                       *)
LEMMA LeastOf ==
  ASSUME NEW S \in SUBSET Nat, S # {}
  PROVE  \E x \in S : \A y \in S : x <= y
<1> DEFINE below == {n \in Nat : \A m \in S : n < m}
<1>1. PICK z \in S : TRUE
  OBVIOUS
<1>2. IsFiniteSet(below) /\ Cardinality(below) \in Nat
  <2>1. below \in SUBSET Nat /\ \A n \in below : n <= z
    BY <1>1
  <2>2. z \in Nat
    OBVIOUS
  <2> HIDE DEF below
  <2>3. IsFiniteSet(below)
    BY <2>1, <2>2, FS_BoundedSetOfNaturals
  <2> QED BY <2>3, FS_CardinalityType
<1>0. PICK c \in Nat : c = Cardinality(below)
  BY <1>2
<1>3. \A n \in below : 0 .. n \subseteq below
  OBVIOUS
<1> HIDE DEF below
<1>4. \A n \in below : n < c
  <2> SUFFICES ASSUME NEW n \in below
               PROVE  n < c
    OBVIOUS
  <2>1. n \in Nat
    BY DEF below
  <2>2. 0 .. n \in SUBSET below
    BY <1>3
  <2>3. Cardinality(0 .. n) <= c
    BY <1>0, <1>2, <2>2, FS_Subset
  <2>4. Cardinality(0 .. n) = n + 1
    BY <2>1, FS_Interval
  <2> QED BY <1>2, <2>1, <2>3, <2>4
<1>5. below = 0 .. c - 1
  <2>1. below \in SUBSET (0 .. c - 1)
    BY <1>2, <1>4 DEF below
  <2>2. IsFiniteSet(0 .. c - 1) /\ Cardinality(0 .. c - 1) = c
    <3>1. /\ IsFiniteSet(0 .. c - 1)
          /\ Cardinality(0 .. c - 1) = IF 0 > c - 1 THEN 0 ELSE c - 1 - 0 + 1
      <4>1. 0 \in Int /\ c - 1 \in Int
        OBVIOUS
      <4> QED BY <4>1, FS_Interval
    <3> QED BY <1>2, <3>1
  <2> QED BY <1>0, <2>1, <2>2, FS_Subset
<1>6. c \notin below
  BY <1>2, <1>5
<1>7. PICK m \in S : m <= c
  BY <1>2, <1>6 DEF below
<1>8. \A y \in S : c <= y
  <2> SUFFICES ASSUME NEW y \in S, y < c
               PROVE  FALSE
    BY <1>2
  <2>1. y \in below
    BY <1>2, <1>5
  <2> QED BY <2>1 DEF below
<1> QED BY <1>2, <1>7, <1>8

LEMMA ByInduction ==
  ASSUME NEW holds, 0 \in holds, \A n \in Nat : n \in holds => n + 1 \in holds
  PROVE  \A n \in Nat : n \in holds
<1> SUFFICES ASSUME NEW n \in Nat, n \notin holds
             PROVE  FALSE
  OBVIOUS
<1> DEFINE fails == {m \in Nat : m \notin holds}
<1>1. fails \in SUBSET Nat /\ fails # {}
  OBVIOUS
<1>2. PICK m \in fails : \A k \in fails : m <= k
  <2> HIDE DEF fails
  <2> QED BY <1>1, LeastOf
<1>3. m \in Nat /\ m # 0 /\ m - 1 \in Nat /\ m - 1 \notin fails
  BY <1>2
<1> QED BY <1>2, <1>3

\* f folds the elements of its argument, which pick takes out one at a time.
Recurs(f, S, base, pick, step) ==
  \A s \in SUBSET S :
     f[s] = IF s = {} THEN base ELSE step[pick[s]][f[s \ {pick[s]}]]

(* Such a recursion over the subsets of a finite set has a solution.       *)
LEMMA RecursionExists ==
  ASSUME NEW S, IsFiniteSet(S), NEW V, NEW base \in V,
         NEW pick, \A s \in SUBSET S : s # {} => pick[s] \in s,
         NEW step, \A x \in S : \A v \in V : step[x][v] \in V
  PROVE  \E f \in [SUBSET S -> V] : Recurs(f, S, base, pick, step)
<1> DEFINE Small(n) == {s \in SUBSET S : Cardinality(s) <= n}
           Solves(f, n) == \A s \in Small(n) :
              f[s] = IF s = {} THEN base ELSE step[pick[s]][f[s \ {pick[s]}]]
           holds == {n \in Nat : \E f \in [Small(n) -> V] : Solves(f, n)}
<1>0. \A s \in SUBSET S : IsFiniteSet(s) /\ Cardinality(s) \in Nat /\ (Cardinality(s) = 0 <=> s = {})
  <2> TAKE s \in SUBSET S
  <2>1. IsFiniteSet(s)
    BY FS_Subset
  <2> QED BY <2>1, FS_CardinalityType, FS_EmptySet
<1>1. 0 \in holds
  <2>1. \A s \in Small(0) : s = {}
    BY <1>0
  <2>2. [s \in Small(0) |-> base] \in [Small(0) -> V]
    OBVIOUS
  <2>3. Solves([s \in Small(0) |-> base], 0)
    BY <2>1
  <2> QED BY <2>2, <2>3
<1>2. ASSUME NEW n \in Nat, n \in holds
      PROVE  n + 1 \in holds
  <2>1. PICK g \in [Small(n) -> V] : Solves(g, n)
    BY <1>2
  <2> DEFINE f == [s \in Small(n + 1) |->
                     IF s = {} THEN base ELSE step[pick[s]][g[s \ {pick[s]}]]]
  <2>2. \A s \in Small(n + 1) : s # {} => pick[s] \in S /\ s \ {pick[s]} \in Small(n)
    <3> SUFFICES ASSUME NEW s \in Small(n + 1), s # {}
                 PROVE  pick[s] \in S /\ s \ {pick[s]} \in Small(n)
      OBVIOUS
    <3>1. pick[s] \in s /\ s \ {pick[s]} \in SUBSET S
      OBVIOUS
    <3>2. Cardinality(s \ {pick[s]}) = Cardinality(s) - 1
      BY <1>0, <3>1, FS_RemoveElement
    <3>3. Cardinality(s) \in Nat /\ Cardinality(s) <= n + 1
      BY <1>0
    <3>4. Cardinality(s \ {pick[s]}) <= n
      BY <3>2, <3>3
    <3> QED BY <3>1, <3>4
  <2>3. f \in [Small(n + 1) -> V]
    <3> SUFFICES ASSUME NEW s \in Small(n + 1), s # {}
                 PROVE  step[pick[s]][g[s \ {pick[s]}]] \in V
      OBVIOUS
    <3>1. pick[s] \in S /\ g[s \ {pick[s]}] \in V
      BY <2>2
    <3> QED BY <3>1
  <2>4. \A s \in Small(n) : s \in Small(n + 1) /\ f[s] = g[s]
    <3> TAKE s \in Small(n)
    <3>1. s \in Small(n + 1)
      BY <1>0
    <3>2. g[s] = IF s = {} THEN base ELSE step[pick[s]][g[s \ {pick[s]}]]
      BY <2>1
    <3> QED BY <3>1, <3>2
  <2>5. Solves(f, n + 1)
    <3> TAKE s \in Small(n + 1)
    <3>1. f[s] = IF s = {} THEN base ELSE step[pick[s]][g[s \ {pick[s]}]]
      OBVIOUS
    <3>2. s # {} => f[s \ {pick[s]}] = g[s \ {pick[s]}]
      BY <2>2, <2>4
    <3> HIDE DEF f
    <3> QED BY <3>1, <3>2
  <2> HIDE DEF f
  <2>6. n + 1 \in Nat
    OBVIOUS
  <2> QED BY <2>3, <2>5, <2>6
<1>3. Cardinality(S) \in holds
  <2> HIDE DEF holds
  <2>1. \A n \in Nat : n \in holds
    BY <1>1, <1>2, ByInduction
  <2> QED BY <2>1, FS_CardinalityType
<1>4. Small(Cardinality(S)) = SUBSET S
  BY FS_Subset
<1> QED BY <1>3, <1>4 DEF Recurs

LEMMA MinOf ==
  ASSUME NEW s \in SUBSET Nat, s # {}
  PROVE  Min(s) \in s /\ \A y \in s : Min(s) <= y
<1>1. \E x \in s : \A y \in s : x <= y
  BY LeastOf
<1>2. Min(s) = CHOOSE x \in s : \A y \in s : x <= y
  BY Zenon DEF Min
<1> QED BY <1>1, <1>2

LEMMA MaxOf ==
  ASSUME NEW n \in Nat, NEW s \in SUBSET (0 .. n), s # {}
  PROVE  Max(s) \in s /\ \A y \in s : y <= Max(s)
<1> DEFINE bounds == {k \in Nat : \A y \in s : y <= k}
<1>1. bounds \in SUBSET Nat /\ n \in bounds
  OBVIOUS
<1>2. PICK m \in bounds : \A k \in bounds : m <= k
  <2> HIDE DEF bounds
  <2> QED BY <1>1, LeastOf
<1>3. m \in s
  <2> SUFFICES ASSUME m \notin s
               PROVE  FALSE
    OBVIOUS
  <2>0. PICK z \in s : TRUE
    OBVIOUS
  <2>1. m \in Nat /\ m # 0 /\ \A y \in s : y \in Nat /\ y <= m - 1
    BY <1>2, <2>0
  <2>2. m - 1 \in bounds
    BY <2>1
  <2> QED BY <1>2, <2>1, <2>2
<1>4. \E x \in s : \A y \in s : x >= y
  BY <1>2, <1>3
<1>5. Max(s) = CHOOSE x \in s : \A y \in s : x >= y
  BY Zenon DEF Max
<1>6. Max(s) \in s /\ \A y \in s : Max(s) >= y
  BY <1>4, <1>5
<1> QED BY <1>6

LEMMA MaxOfIndices ==
  ASSUME NEW n \in Nat, NEW s \in SUBSET (1 .. n), s # {}
  PROVE  Max(s) \in s
<1>1. s \in SUBSET (0 .. n)
  OBVIOUS
<1> QED BY <1>1, MaxOf

\* f steps along the numbers up to n.
Steps(f, n, base, step) ==
  /\ f[1 .. 0] = base
  /\ \A i \in 1 .. n : f[1 .. i] = step[i][f[1 .. i - 1]]

(* The recursion of FoldLeft, which takes the last element first, goes     *)
(* along the sequence.                                                     *)
LEMMA FoldSteps ==
  ASSUME NEW n \in Nat, NEW base, NEW step, NEW it,
         Recurs(it, 1 .. n, base, [s \in SUBSET (1 .. n) |-> Max(s)], step)
  PROVE  Steps(it, n, base, step)
<1>0. \A s \in SUBSET (1 .. n) :
         it[s] = IF s = {} THEN base ELSE step[Max(s)][it[s \ {Max(s)}]]
  BY DEF Recurs
<1>1. 1 .. 0 = {}
  OBVIOUS
<1>2. ASSUME NEW i \in 1 .. n
      PROVE  it[1 .. i] = step[i][it[1 .. i - 1]]
  <2>0. i \in Nat /\ 1 <= i /\ i <= n
    OBVIOUS
  <2>1. /\ 1 .. i \in SUBSET (1 .. n) /\ 1 .. i \in SUBSET (0 .. i) /\ 1 .. i # {}
        /\ i \in 1 .. i /\ i \in Nat
    <3>1. i \in 1 .. i
      BY <2>0
    <3>2. \A j \in 1 .. i : j \in 1 .. n /\ j \in 0 .. i
      BY <2>0
    <3> QED BY <2>0, <3>1, <3>2
  <2>2. Max(1 .. i) \in 1 .. i /\ i <= Max(1 .. i)
    BY <2>1, MaxOf
  <2>3. Max(1 .. i) = i
    BY <2>2
  <2>4. (1 .. i) \ {i} = 1 .. i - 1
    OBVIOUS
  <2> QED BY <1>0, <2>1, <2>3, <2>4
<1> QED BY <1>0, <1>1, <1>2 DEF Steps

\* total is the sum of g over S, as MapThenSumSet takes it.
Sums(S, g, total) ==
  \E it \in [SUBSET S -> Nat] :
     /\ \A s \in SUBSET S :
           it[s] = IF s = {} THEN 0
                   ELSE g[CHOOSE c \in s : TRUE] + it[s \ {CHOOSE c \in s : TRUE}]
     /\ total = it[S]

(* Whatever holds of the empty set, and of a set when it holds of the set  *)
(* without the element that is picked, holds of every finite set.          *)
LEMMA ByPicking ==
  ASSUME NEW S, IsFiniteSet(S), NEW holds, {} \in holds,
         \A s \in SUBSET S :
            s # {} /\ s \ {CHOOSE c \in s : TRUE} \in holds => s \in holds
  PROVE  \A s \in SUBSET S : s \in holds
<1> DEFINE sized == {n \in Nat : \A s \in SUBSET S : Cardinality(s) <= n => s \in holds}
<1>0. \A s \in SUBSET S :
         IsFiniteSet(s) /\ Cardinality(s) \in Nat /\ (Cardinality(s) = 0 <=> s = {})
  <2> TAKE s \in SUBSET S
  <2>1. IsFiniteSet(s)
    BY FS_Subset
  <2>2. Cardinality(s) \in Nat /\ (Cardinality(s) = 0 <=> s = {})
    BY <2>1, FS_CardinalityType, FS_EmptySet
  <2> QED BY <2>1, <2>2
<1>1. 0 \in sized
  <2>1. \A s \in SUBSET S : Cardinality(s) <= 0 => s = {}
    <3> SUFFICES ASSUME NEW s \in SUBSET S, Cardinality(s) <= 0
                 PROVE  s = {}
      OBVIOUS
    <3>1. PICK k \in Nat : k = Cardinality(s)
      BY <1>0
    <3> QED BY <1>0, <3>1
  <2> QED BY <2>1
<1>2. ASSUME NEW n \in Nat, n \in sized
      PROVE  n + 1 \in sized
  <2>0. n + 1 \in Nat
    OBVIOUS
  <2> SUFFICES ASSUME NEW s \in SUBSET S, Cardinality(s) <= n + 1, s # {}
               PROVE  s \in holds
    BY <2>0
  <2>1. PICK x \in s : x = CHOOSE c \in s : TRUE
    OBVIOUS
  <2>2. Cardinality(s \ {x}) = Cardinality(s) - 1 /\ s \ {x} \in SUBSET S
    BY <1>0, <2>1, FS_RemoveElement
  <2>3. Cardinality(s \ {x}) <= n
    <3>1. PICK k \in Nat : k = Cardinality(s)
      BY <1>0
    <3>2. k - 1 <= n
      BY <3>1
    <3> QED BY <2>2, <3>1, <3>2
  <2> QED BY <1>2, <2>1, <2>2, <2>3
<1>3. \A n \in Nat : n \in sized
  <2> HIDE DEF sized
  <2> QED BY <1>1, <1>2, ByInduction
<1> SUFFICES ASSUME NEW s \in SUBSET S
             PROVE  s \in holds
  OBVIOUS
<1>4. PICK k \in Nat : k = Cardinality(s)
  BY <1>0
<1>5. k \in sized
  BY <1>3
<1> QED BY <1>4, <1>5

LEMMA RecursionInNat ==
  ASSUME NEW S, IsFiniteSet(S), NEW pick, \A s \in SUBSET S : s # {} => pick[s] \in s,
         NEW step, \A x \in S : \A v \in Nat : step[x][v] \in Nat
  PROVE  \E h \in [SUBSET S -> Nat] : Recurs(h, S, 0, pick, step)
<1>1. 0 \in Nat
  OBVIOUS
<1> QED BY Zenon, <1>1, RecursionExists

\* it is a solution of the recursion that MapThenSumSet chooses one of.
AddsUp(it, S, g) ==
  it = [s \in SUBSET S |->
          IF s = {} THEN 0
          ELSE g[CHOOSE c \in s : TRUE] + it[s \ {CHOOSE c \in s : TRUE}]]

LEMMA SumSteps ==
  ASSUME NEW S, IsFiniteSet(S), NEW g \in [S -> Nat]
  PROVE  \E h \in [SUBSET S -> Nat] : AddsUp(h, S, g)
<1> DEFINE pick == [s \in SUBSET S |-> CHOOSE c \in s : TRUE]
           step == [c \in S |-> [v \in Nat |-> g[c] + v]]
<1>1. \A s \in SUBSET S : s # {} => pick[s] \in s
  OBVIOUS
<1>2. \A x \in S : \A v \in Nat : step[x][v] \in Nat
  OBVIOUS
<1>3. PICK h \in [SUBSET S -> Nat] : Recurs(h, S, 0, pick, step)
  <2> HIDE DEF pick, step
  <2> QED BY Zenon, <1>1, <1>2, RecursionInNat
<1>4. \A s \in SUBSET S :
         h[s] = IF s = {} THEN 0
                ELSE g[CHOOSE c \in s : TRUE] + h[s \ {CHOOSE c \in s : TRUE}]
  <2> TAKE s \in SUBSET S
  <2>1. /\ pick[s] = CHOOSE c \in s : TRUE
        /\ s # {} => pick[s] \in S /\ h[s \ {pick[s]}] \in Nat
    BY <1>1
  <2>2. s # {} => step[pick[s]][h[s \ {pick[s]}]] = g[pick[s]] + h[s \ {pick[s]}]
    BY <2>1
  <2>3. h[s] = IF s = {} THEN 0 ELSE step[pick[s]][h[s \ {pick[s]}]]
    BY <1>3 DEF Recurs
  <2> HIDE DEF pick, step
  <2> QED BY <2>1, <2>2, <2>3
<1> HIDE DEF pick, step
<1>5. AddsUp(h, S, g)
  BY <1>4 DEF AddsUp
<1> QED BY <1>5

(* Whatever solution MapThenSumSet picks, its values are numbers.          *)
LEMMA SumIsNat ==
  ASSUME NEW S, IsFiniteSet(S), NEW g \in [S -> Nat], NEW it, AddsUp(it, S, g)
  PROVE  Sums(S, g, it[S])
<1> DEFINE holds == {s \in SUBSET S : it[s] \in Nat}
<1>0. \A s \in SUBSET S :
         it[s] = IF s = {} THEN 0
                 ELSE g[CHOOSE c \in s : TRUE] + it[s \ {CHOOSE c \in s : TRUE}]
  BY DEF AddsUp
<1>1. {} \in holds
  BY <1>0
<1>2. ASSUME NEW s \in SUBSET S, s # {}, s \ {CHOOSE c \in s : TRUE} \in holds
      PROVE  s \in holds
  <2>1. PICK x \in s : x = CHOOSE c \in s : TRUE
    BY <1>2
  <2>2. it[s \ {x}] \in Nat /\ g[x] \in Nat
    BY <1>2, <2>1
  <2>3. it[s] = g[x] + it[s \ {x}]
    BY <1>0, <1>2, <2>1
  <2> QED BY <2>2, <2>3
<1>3. \A s \in SUBSET S : s \in holds
  <2> HIDE DEF holds
  <2> QED BY <1>1, <1>2, ByPicking
<1>4. \A s \in SUBSET S : it[s] \in Nat
  BY <1>3
<1>5. it \in [SUBSET S -> Nat]
  <2>1. it = [s \in SUBSET S |-> it[s]]
    BY DEF AddsUp
  <2> QED BY <1>4, <2>1
<1> QED BY <1>0, <1>5 DEF Sums

\* The functions g1 and g2 differ at c at most.
DifferAt(S, c, g1, g2) ==
  /\ g1 \in [S -> Nat] /\ g2 \in [S -> Nat] /\ c \in S
  /\ \A d \in S : d # c => g1[d] = g2[d]

(* Sums of functions that differ in one place at most differ by what they  *)
(* differ there.                                                           *)
LEMMA SumsCompare ==
  ASSUME NEW S, IsFiniteSet(S), NEW c, NEW g1, NEW g2, DifferAt(S, c, g1, g2),
         NEW t1, Sums(S, g1, t1), NEW t2, Sums(S, g2, t2)
  PROVE  t1 \in Nat /\ t2 \in Nat /\ t1 + g2[c] = t2 + g1[c]
<1>0. /\ g1 \in [S -> Nat] /\ g2 \in [S -> Nat] /\ c \in S
      /\ \A d \in S : d # c => g1[d] = g2[d]
  BY DEF DifferAt
<1>1. PICK it1 \in [SUBSET S -> Nat] :
     /\ \A s \in SUBSET S :
           it1[s] = IF s = {} THEN 0
                    ELSE g1[CHOOSE d \in s : TRUE] + it1[s \ {CHOOSE d \in s : TRUE}]
     /\ t1 = it1[S]
  BY DEF Sums
<1>2. PICK it2 \in [SUBSET S -> Nat] :
     /\ \A s \in SUBSET S :
           it2[s] = IF s = {} THEN 0
                    ELSE g2[CHOOSE d \in s : TRUE] + it2[s \ {CHOOSE d \in s : TRUE}]
     /\ t2 = it2[S]
  BY DEF Sums
<1> DEFINE Good(s) == /\ c \notin s => it1[s] = it2[s]
                      /\ c \in s => it1[s] + g2[c] = it2[s] + g1[c]
           holds == {s \in SUBSET S : Good(s)}
<1>3. {} \in holds
  BY <1>1, <1>2
<1>4. ASSUME NEW s \in SUBSET S, s # {}, s \ {CHOOSE d \in s : TRUE} \in holds
      PROVE  s \in holds
  <2>1. PICK x \in s : x = CHOOSE d \in s : TRUE
    BY <1>4
  <2>4. Good(s \ {x}) /\ s \ {x} \in SUBSET S
    BY <1>4, <2>1
  <2>5. PICK a1 \in Nat, a2 \in Nat : a1 = it1[s \ {x}] /\ a2 = it2[s \ {x}]
    BY <2>4
  <2>6. it1[s] = g1[x] + a1 /\ it2[s] = g2[x] + a2
    BY <1>1, <1>2, <1>4, <2>1, <2>5
  <2>7. g1[x] \in Nat /\ g2[x] \in Nat /\ g1[c] \in Nat /\ g2[c] \in Nat
    BY <1>0
  <2>8. CASE x = c
    <3>1. a1 = a2
      BY <2>4, <2>5, <2>8
    <3> QED BY <2>6, <2>7, <2>8, <3>1
  <2>9. CASE x # c
    <3>1. g1[x] = g2[x]
      BY <1>0, <2>9
    <3>2. c \in s => a1 + g2[c] = a2 + g1[c]
      BY <2>4, <2>5, <2>9
    <3>3. c \notin s => a1 = a2
      BY <2>4, <2>5
    <3> QED BY <2>5, <2>6, <2>7, <3>1, <3>2, <3>3
  <2> QED BY <2>8, <2>9
<1>5. \A s \in SUBSET S : s \in holds
  <2> HIDE DEF holds
  <2> QED BY <1>3, <1>4, ByPicking
<1>6. Good(S)
  BY <1>5
<1> QED BY <1>0, <1>1, <1>2, <1>6

LEMMA SumsOfNothing ==
  ASSUME NEW S, IsFiniteSet(S), NEW g, \A c \in S : g[c] = 0, NEW t, Sums(S, g, t)
  PROVE  t = 0
<1>1. PICK it \in [SUBSET S -> Nat] :
     /\ \A s \in SUBSET S :
           it[s] = IF s = {} THEN 0
                   ELSE g[CHOOSE c \in s : TRUE] + it[s \ {CHOOSE c \in s : TRUE}]
     /\ t = it[S]
  BY DEF Sums
<1> DEFINE holds == {s \in SUBSET S : it[s] = 0}
<1>2. {} \in holds
  BY <1>1
<1>3. ASSUME NEW s \in SUBSET S, s # {}, s \ {CHOOSE c \in s : TRUE} \in holds
      PROVE  s \in holds
  <2>1. PICK x \in s : x = CHOOSE c \in s : TRUE
    BY <1>3
  <2>2. it[s \ {x}] = 0 /\ g[x] = 0
    BY <1>3, <2>1
  <2> QED BY <1>1, <1>3, <2>1, <2>2
<1>4. \A s \in SUBSET S : s \in holds
  <2> HIDE DEF holds
  <2> QED BY <1>2, <1>3, ByPicking
<1> QED BY <1>1, <1>4

-----------------------------------------------------------------------------
(* 2. Busy time of the device.                                             *)

(* A snapshot between its clock and its lock.                              *)
Snapshots == [at : {"lock"}, now : Nat, busy : Nat, overtaken : BOOLEAN]

UtilTypeOK ==
    /\ util_clock \in Nat /\ util_clock <= MaxUtilClock + 1
    /\ util_in_flight \in Nat /\ ts_busy_start \in Nat /\ busy_ns \in Nat
    /\ util_window_start \in Nat
    /\ 1 <= util_window_start /\ util_window_start <= util_clock
    /\ was_busy \in Nat
    /\ reader \in [Readers -> {Away} \cup Snapshots]
    /\ \A r \in Readers : reader[r] # Away => reader[r].now <= util_clock

(* A busy period is open exactly while a request is in the device.         *)
OpenPeriod ==
    IF util_in_flight > 0 THEN 1 <= ts_busy_start /\ ts_busy_start <= util_clock
                          ELSE ts_busy_start = 0

(* What a snapshot that read the clock at now takes for the busy time.     *)
BusyAt(now) == busy_ns + (IF util_in_flight > 0 THEN now - ts_busy_start ELSE 0)

(* A snapshot nothing overtook has its clock at the very beginning of the  *)
(* window, or within it and not before the open busy period.               *)
Within(s) ==
    \/ s.now = util_window_start
    \/ /\ util_window_start < s.now
       /\ util_in_flight > 0 => ts_busy_start <= s.now
       /\ s.busy <= BusyAt(s.now)

ReadersWithin ==
    \A r \in Readers : reader[r] # Away /\ ~reader[r].overtaken => Within(reader[r])

UtilInv ==
    /\ UtilTypeOK /\ OpenPeriod /\ BusyTimeTrue /\ ReadersWithin /\ SnapshotBetween

-----------------------------------------------------------------------------
LEMMA LesserOf ==
  ASSUME NEW n \in Int
  PROVE  Min({100, n}) = IF n <= 100 THEN n ELSE 100
BY DEF Min

LEMMA QuotientGrows ==
  ASSUME NEW a \in Nat, NEW b \in Nat, NEW e \in Nat, e > 0, a <= b
  PROVE  /\ a \div e \in Nat /\ b \div e \in Nat
         /\ a \div e <= b \div e
<1>1. /\ a \div e \in Int /\ b \div e \in Int
      /\ a = e * (a \div e) + (a % e) /\ b = e * (b \div e) + (b % e)
      /\ a % e \in 0 .. e - 1 /\ b % e \in 0 .. e - 1
  OBVIOUS
<1> QED BY <1>1

LEMMA Unwrapped ==
  ASSUME NEW n \in Nat, n < Width
  PROVE  (n) % Width = n
BY UtilAssumption

-----------------------------------------------------------------------------
LEMMA UtilInvInit == UtilInit => UtilInv
<1> SUFFICES ASSUME UtilInit
             PROVE  UtilInv
  OBVIOUS
<1>1. UtilTypeOK
  BY UtilAssumption DEF UtilInit, UtilTypeOK
<1> QED
  BY <1>1 DEF UtilInit, UtilInv, OpenPeriod, BusyTimeTrue, ReadersWithin, SnapshotBetween

LEMMA TickKeeps ==
  ASSUME UtilInv, UtilTick
  PROVE  UtilInv'
<1>1. UtilTypeOK'
  <2>1. util_clock' \in Nat /\ util_clock' <= MaxUtilClock + 1 /\ util_clock <= util_clock'
    BY UtilAssumption DEF UtilInv, UtilTypeOK, UtilTick
  <2>2. was_busy' \in Nat
    BY DEF UtilInv, UtilTypeOK, UtilTick
  <2>3. \A r \in Readers : reader'[r] # Away => reader'[r].now <= util_clock'
    <3> SUFFICES ASSUME NEW r \in Readers, reader[r] # Away
                 PROVE  reader[r].now <= util_clock'
      BY DEF UtilTick
    <3>1. reader[r].now \in Nat /\ reader[r].now <= util_clock
      BY DEF UtilInv, UtilTypeOK, Snapshots
    <3> QED BY <2>1, <3>1 DEF UtilInv, UtilTypeOK
  <2> QED BY <2>1, <2>2, <2>3 DEF UtilInv, UtilTypeOK, UtilTick, utilDevice
<1>2. OpenPeriod' /\ BusyTimeTrue'
  BY DEF UtilInv, UtilTypeOK, OpenPeriod, BusyTimeTrue, UtilTick, utilDevice
<1>3. ReadersWithin'
  BY DEF UtilInv, ReadersWithin, Within, BusyAt, UtilTick, utilDevice
<1>4. SnapshotBetween'
  BY DEF UtilInv, SnapshotBetween, UtilTick
<1> QED BY <1>1, <1>2, <1>3, <1>4 DEF UtilInv

(* Whoever is overtaken keeps its reading; whoever is not has read the     *)
(* present clock, or was not at the beginning of a period.                 *)
LEMMA Overtaken ==
  ASSUME UtilTypeOK, Overtake
  PROVE  /\ reader' \in [Readers -> {Away} \cup Snapshots]
         /\ \A r \in Readers : reader'[r] # Away =>
               reader[r] # Away /\ reader'[r].now = reader[r].now
         /\ \A r \in Readers : reader'[r] # Away /\ ~reader'[r].overtaken =>
               /\ reader[r] # Away /\ ~reader[r].overtaken
               /\ reader'[r].now = reader[r].now /\ reader'[r].busy = reader[r].busy
               /\ reader[r].now \in Nat /\ reader[r].now >= util_clock
<1>1. ASSUME NEW r \in Readers
      PROVE  /\ reader'[r] \in {Away} \cup Snapshots
             /\ reader'[r] # Away => reader[r] # Away /\ reader'[r].now = reader[r].now
             /\ reader'[r] # Away /\ ~reader'[r].overtaken =>
                  /\ reader[r] # Away /\ ~reader[r].overtaken
                  /\ reader'[r].now = reader[r].now /\ reader'[r].busy = reader[r].busy
                  /\ reader[r].now \in Nat /\ reader[r].now >= util_clock
  <2>1. CASE reader[r] = Away
    BY <2>1 DEF Overtake
  <2>2. CASE reader[r] # Away
    <3> DEFINE late == reader[r].overtaken \/ reader[r].now < util_clock
    <3>1. reader[r] \in Snapshots
      BY <2>2 DEF UtilTypeOK
    <3>2. reader'[r] = [reader[r] EXCEPT !.overtaken = late]
      BY <2>2 DEF Overtake
    <3>3. late \in BOOLEAN
      OBVIOUS
    <3> HIDE DEF late
    <3>4. /\ reader'[r] \in Snapshots /\ reader'[r].overtaken = late
          /\ reader'[r].now = reader[r].now /\ reader'[r].busy = reader[r].busy
          /\ reader[r].now \in Nat /\ reader[r].overtaken \in BOOLEAN
      BY <3>1, <3>2, <3>3 DEF Snapshots
    <3>5. ~late => ~reader[r].overtaken /\ reader[r].now >= util_clock
      BY <3>4 DEF late, UtilTypeOK
    <3> QED BY <2>2, <3>4, <3>5
  <2> QED BY <2>1, <2>2
<1>2. reader' = [r \in Readers |-> reader'[r]]
  BY DEF Overtake
<1> QED BY <1>1, <1>2

LEMMA IssueKeepsUtil ==
  ASSUME UtilInv, UtilIssue
  PROVE  UtilInv'
<1>1. UNCHANGED <<util_clock, busy_ns, util_window_start, was_busy, util>>
  BY DEF UtilIssue
<1>2. util_in_flight' = util_in_flight + 1 /\ util_in_flight' > 0
  BY DEF UtilInv, UtilTypeOK, UtilIssue
<1>3. CASE util_in_flight = 0
  <2>1. ts_busy_start' = util_clock /\ Overtake
    BY <1>3 DEF UtilIssue
  <2>2. UtilTypeOK'
    BY <1>1, <1>2, <2>1, Overtaken DEF UtilInv, UtilTypeOK
  <2>3. OpenPeriod' /\ BusyTimeTrue'
    BY <1>1, <1>2, <1>3, <2>1 DEF UtilInv, UtilTypeOK, OpenPeriod, BusyTimeTrue
  <2>4. ReadersWithin'
    <3> SUFFICES ASSUME NEW r \in Readers, reader'[r] # Away, ~reader'[r].overtaken
                 PROVE  Within(reader[r])'
      BY DEF ReadersWithin
    <3>1. /\ reader[r] # Away /\ ~reader[r].overtaken
          /\ reader'[r].now = reader[r].now /\ reader'[r].busy = reader[r].busy
          /\ reader[r].now \in Nat /\ reader[r].now >= util_clock
      BY <2>1, Overtaken DEF UtilInv
    <3>2. Within(reader[r]) /\ reader[r] \in Snapshots
      BY <3>1 DEF UtilInv, UtilTypeOK, ReadersWithin
    <3>3. reader[r].busy \in Nat
      BY <3>2 DEF Snapshots
    <3> QED
      BY <1>1, <1>2, <1>3, <2>1, <3>1, <3>2, <3>3
         DEF Within, BusyAt, UtilInv, UtilTypeOK
  <2> QED BY <1>1, <2>2, <2>3, <2>4 DEF UtilInv, SnapshotBetween
<1>4. CASE util_in_flight # 0
  <2>1. UNCHANGED <<ts_busy_start, reader>> /\ util_in_flight > 0
    BY <1>4 DEF UtilIssue, UtilInv, UtilTypeOK
  <2>2. UtilTypeOK' /\ OpenPeriod' /\ BusyTimeTrue'
    BY <1>1, <1>2, <2>1 DEF UtilInv, UtilTypeOK, OpenPeriod, BusyTimeTrue
  <2>3. ReadersWithin'
    BY <1>1, <1>2, <2>1 DEF UtilInv, ReadersWithin, Within, BusyAt
  <2> QED BY <1>1, <2>2, <2>3 DEF UtilInv, SnapshotBetween
<1> QED BY <1>3, <1>4

LEMMA CompleteKeepsUtil ==
  ASSUME UtilInv, UtilComplete
  PROVE  UtilInv'
<1>1. UNCHANGED <<util_clock, util_window_start, reader, was_busy, util>>
  BY DEF UtilComplete
<1>2. /\ util_in_flight > 0 /\ util_in_flight' = util_in_flight - 1
      /\ IF util_in_flight = 1
         THEN /\ busy_ns' = busy_ns + (util_clock - ts_busy_start) /\ ts_busy_start' = 0
         ELSE UNCHANGED <<busy_ns, ts_busy_start>>
  BY DEF UtilInv, UtilTypeOK, OpenPeriod, UtilComplete
<1>3. UtilTypeOK' /\ OpenPeriod' /\ BusyTimeTrue'
  BY <1>1, <1>2 DEF UtilInv, UtilTypeOK, OpenPeriod, BusyTimeTrue
<1>4. ReadersWithin'
  <2> SUFFICES ASSUME NEW r \in Readers, reader[r] # Away, ~reader[r].overtaken
               PROVE  Within(reader[r])'
    BY <1>1 DEF ReadersWithin
  <2>1. Within(reader[r]) /\ reader[r] \in Snapshots
    BY DEF UtilInv, UtilTypeOK, ReadersWithin
  <2>2. reader[r].busy \in Nat /\ reader[r].now \in Nat
    BY <2>1 DEF Snapshots
  <2>3. reader[r].now <= util_clock
    BY DEF UtilInv, UtilTypeOK
  <2> QED
    BY <1>1, <1>2, <2>1, <2>2, <2>3 DEF Within, BusyAt, UtilInv, UtilTypeOK, OpenPeriod
<1> QED BY <1>1, <1>3, <1>4 DEF UtilInv, SnapshotBetween

LEMMA RollKeepsUtil ==
  ASSUME UtilInv, RollWindow
  PROVE  UtilInv'
<1>1. /\ UNCHANGED <<util_clock, util_in_flight, util>>
      /\ busy_ns' = 0 /\ util_window_start' = util_clock /\ was_busy' = 0
      /\ ts_busy_start' = IF util_in_flight > 0 THEN util_clock ELSE ts_busy_start
      /\ Overtake
  BY DEF RollWindow
<1>2. UtilTypeOK'
  BY <1>1, Overtaken DEF UtilInv, UtilTypeOK
<1>3. OpenPeriod' /\ BusyTimeTrue'
  BY <1>1 DEF UtilInv, UtilTypeOK, OpenPeriod, BusyTimeTrue
<1>4. ReadersWithin'
  <2> SUFFICES ASSUME NEW r \in Readers, reader'[r] # Away, ~reader'[r].overtaken
               PROVE  Within(reader[r])'
    BY DEF ReadersWithin
  <2>1. /\ reader[r] # Away /\ reader'[r].now = reader[r].now
        /\ reader[r].now \in Nat /\ reader[r].now >= util_clock
    BY <1>1, Overtaken DEF UtilInv
  <2>2. reader[r].now <= util_clock
    BY <2>1 DEF UtilInv, UtilTypeOK
  <2> QED BY <1>1, <2>1, <2>2 DEF Within, UtilInv, UtilTypeOK
<1> QED BY <1>1, <1>2, <1>3, <1>4 DEF UtilInv, SnapshotBetween

LEMMA ReadClockKeeps ==
  ASSUME UtilInv, NEW r \in Readers, SnapshotClock(r)
  PROVE  UtilInv'
<1> DEFINE s == [at |-> "lock", now |-> util_clock, busy |-> was_busy, overtaken |-> FALSE]
<1>1. /\ UNCHANGED <<util_clock, utilDevice, util_rolls, was_busy, util>>
      /\ reader' = [reader EXCEPT ![r] = s]
  BY DEF SnapshotClock
<1>2. s \in Snapshots /\ s.now = util_clock
  BY DEF UtilInv, UtilTypeOK, Snapshots
<1>3. UtilTypeOK'
  <2>1. reader' \in [Readers -> {Away} \cup Snapshots]
    BY <1>1, <1>2 DEF UtilInv, UtilTypeOK
  <2>2. \A x \in Readers : reader'[x] # Away => reader'[x].now <= util_clock'
    BY <1>1, <1>2 DEF UtilInv, UtilTypeOK
  <2> QED BY <1>1, <2>1, <2>2 DEF UtilInv, UtilTypeOK, utilDevice
<1>4. OpenPeriod' /\ BusyTimeTrue'
  BY <1>1 DEF UtilInv, OpenPeriod, BusyTimeTrue, utilDevice
<1>5. Within(s)'
  BY <1>1 DEF UtilInv, UtilTypeOK, OpenPeriod, BusyTimeTrue, Within, BusyAt, utilDevice
<1>6. ReadersWithin'
  <2> SUFFICES ASSUME NEW x \in Readers, reader'[x] # Away, ~reader'[x].overtaken
               PROVE  Within(reader[x])'
    BY DEF ReadersWithin
  <2>1. CASE x = r
    <3>1. reader'[x] = s
      BY <1>1, <2>1 DEF UtilInv, UtilTypeOK
    <3> QED BY <1>1, <1>5, <3>1 DEF Within, BusyAt, utilDevice
  <2>2. CASE x # r
    <3>1. reader'[x] = reader[x]
      BY <1>1, <2>2 DEF UtilInv, UtilTypeOK
    <3> QED BY <1>1, <3>1 DEF UtilInv, ReadersWithin, Within, BusyAt, utilDevice
  <2> QED BY <2>1, <2>2
<1> QED BY <1>1, <1>3, <1>4, <1>6 DEF UtilInv, SnapshotBetween

(* The u64 arithmetic of snapshot_device_util does not wrap, whatever the  *)
(* snapshot did meanwhile.                                                 *)
LEMMA SnapshotExact ==
  ASSUME UtilInv, NEW now \in Nat, util_window_start < now, now <= util_clock,
         util_in_flight > 0 => ts_busy_start <= now
  PROVE  /\ BusyAt(now) \in Nat /\ BusyAt(now) <= was_busy
         /\ SnapshotPct(now) = Min({100, (BusyAt(now) * 100) \div (now - util_window_start)})
<1> DEFINE elapsed == now - util_window_start
<1> DEFINE took == BusyAt(now)
<1>1. elapsed \in Nat /\ elapsed > 0 /\ elapsed < Width /\ (elapsed) % Width = elapsed
  BY UtilAssumption, Unwrapped DEF UtilInv, UtilTypeOK
<1>2. took \in Nat /\ took <= was_busy
  BY DEF UtilInv, UtilTypeOK, OpenPeriod, BusyTimeTrue, BusyAt
<1>3. was_busy \in Nat /\ was_busy <= MaxUtilClock
  BY UtilAssumption DEF UtilInv, UtilTypeOK, BusyTimeTrue
<1>4. took * 100 \in Nat /\ took * 100 < Width /\ took < Width
  BY <1>2, <1>3, UtilAssumption
<1>5. (took) % Width = took /\ (took * 100) % Width = took * 100
  BY <1>2, <1>4, Unwrapped
<1>6. took = busy_ns + (IF util_in_flight > 0 /\ ts_busy_start # 0 THEN now - ts_busy_start ELSE 0)
  BY DEF UtilInv, UtilTypeOK, OpenPeriod, BusyAt
<1> HIDE DEF took, elapsed
<1>7. SnapshotPct(now) = IF (elapsed) % Width = 0 THEN 0
                         ELSE Min({100, ((((took) % Width) * 100) % Width) \div ((elapsed) % Width)})
  BY <1>6 DEF SnapshotPct, elapsed
<1>8. SnapshotPct(now) = Min({100, (took * 100) \div elapsed})
  BY <1>1, <1>5, <1>7
<1> QED BY <1>2, <1>8 DEF took, elapsed

LEMMA SnapshotKeeps ==
  ASSUME UtilInv, NEW r \in Readers, SnapshotLocked(r)
  PROVE  UtilInv'
<1>1. /\ UNCHANGED <<util_clock, utilDevice, util_rolls, was_busy>>
      /\ reader' = [reader EXCEPT ![r] = Away] /\ reader[r] # Away
  BY DEF SnapshotLocked
<1>2. UtilTypeOK'
  <2>1. /\ reader' \in [Readers -> {Away} \cup Snapshots]
        /\ \A x \in Readers : reader'[x] # Away => reader'[x] = reader[x]
    BY <1>1 DEF UtilInv, UtilTypeOK
  <2> QED BY <1>1, <2>1 DEF UtilInv, UtilTypeOK, utilDevice
<1>3. OpenPeriod' /\ BusyTimeTrue'
  BY <1>1 DEF UtilInv, OpenPeriod, BusyTimeTrue, utilDevice
<1>4. ReadersWithin'
  <2>1. \A x \in Readers : reader'[x] # Away => reader'[x] = reader[x]
    BY <1>1 DEF UtilInv, UtilTypeOK
  <2> QED BY <1>1, <2>1 DEF UtilInv, ReadersWithin, Within, BusyAt, utilDevice
<1>5. SnapshotBetween'
  <2> DEFINE now == reader[r].now
  <2> DEFINE took == reader[r].busy
  <2> DEFINE elapsed == now - util_window_start
  <2> DEFINE share(ticks) == IF elapsed <= 0 THEN 0 ELSE Min({100, (ticks * 100) \div elapsed})
  <2>1. /\ util'.pct = SnapshotPct(now) /\ util'.least = share(took)
        /\ util'.most = share(was_busy) /\ util'.overtaken = reader[r].overtaken
    BY DEF SnapshotLocked
  <2>2. reader[r] \in Snapshots
    BY <1>1 DEF UtilInv, UtilTypeOK
  <2>3. now \in Nat /\ took \in Nat /\ now <= util_clock
    BY <1>1, <2>2 DEF Snapshots, UtilInv, UtilTypeOK
  <2> SUFFICES ASSUME ~reader[r].overtaken
               PROVE  share(took) <= SnapshotPct(now) /\ SnapshotPct(now) <= share(was_busy)
    BY <2>1 DEF SnapshotBetween
  <2>4. Within(reader[r])
    BY <1>1 DEF UtilInv, ReadersWithin
  <2>5. CASE now = util_window_start
    <3>1. elapsed = 0 /\ (0) % Width = 0
      BY <2>3, <2>5, UtilAssumption DEF UtilInv, UtilTypeOK
    <3>2. SnapshotPct(now) = 0
      BY <3>1 DEF SnapshotPct
    <3> QED BY <3>1, <3>2
  <2>6. CASE util_window_start < now
    <3>1. /\ util_in_flight > 0 => ts_busy_start <= now
          /\ took <= BusyAt(now)
      BY <2>3, <2>4, <2>6 DEF Within, UtilInv, UtilTypeOK
    <3>2. /\ BusyAt(now) \in Nat /\ BusyAt(now) <= was_busy
          /\ SnapshotPct(now) = Min({100, (BusyAt(now) * 100) \div elapsed})
      BY <2>3, <2>6, <3>1, SnapshotExact
    <3>3. elapsed \in Nat /\ elapsed > 0 /\ was_busy \in Nat
      BY <2>3, <2>6 DEF UtilInv, UtilTypeOK
    <3>4. /\ took * 100 \in Nat /\ BusyAt(now) * 100 \in Nat /\ was_busy * 100 \in Nat
          /\ took * 100 <= BusyAt(now) * 100 /\ BusyAt(now) * 100 <= was_busy * 100
      BY <2>3, <3>1, <3>2, <3>3
    <3> HIDE DEF elapsed, now, took
    <3>5. /\ (took * 100) \div elapsed \in Nat
          /\ (BusyAt(now) * 100) \div elapsed \in Nat
          /\ (was_busy * 100) \div elapsed \in Nat
          /\ (took * 100) \div elapsed <= (BusyAt(now) * 100) \div elapsed
          /\ (BusyAt(now) * 100) \div elapsed <= (was_busy * 100) \div elapsed
      BY <3>3, <3>4, QuotientGrows
    <3>6. /\ share(took) = Min({100, (took * 100) \div elapsed})
          /\ share(was_busy) = Min({100, (was_busy * 100) \div elapsed})
      BY <3>3
    <3> QED BY <3>2, <3>5, <3>6, LesserOf
  <2> QED BY <2>4, <2>5, <2>6 DEF Within
<1> QED BY <1>2, <1>3, <1>4, <1>5 DEF UtilInv

LEMMA UtilInvNext ==
  ASSUME UtilInv, [UtilNext]_utilVars
  PROVE  UtilInv'
<1>1. CASE UNCHANGED utilVars
  BY <1>1 DEF utilVars, UtilInv, UtilTypeOK, OpenPeriod, BusyTimeTrue, ReadersWithin,
     Within, BusyAt, SnapshotBetween
<1> QED
  BY <1>1, TickKeeps, IssueKeepsUtil, CompleteKeepsUtil, RollKeepsUtil, ReadClockKeeps,
     SnapshotKeeps DEF UtilNext

(* The busy time is that of the requests in the device, and what a         *)
(* snapshot takes of it is true of the window it reports on, unless a roll *)
(* of the window overtook it between its clock and its lock                *)
(* (smart_io_dev_util_pct and the hooks that keep ts_busy_start).          *)
THEOREM UtilAlwaysTrue == UtilSpec => []UtilTrue
<1>1. UtilInit => UtilInv
  BY UtilInvInit
<1>2. UtilInv /\ [UtilNext]_utilVars => UtilInv'
  BY UtilInvNext
<1>3. UtilInv => UtilTrue
  BY DEF UtilInv, UtilTrue
<1> QED BY <1>1, <1>2, <1>3, PTL DEF UtilSpec

-----------------------------------------------------------------------------
(* 3. Hot inodes.                                                          *)

Entries == [inode : Inodes \cup {NoInode}, seen : Nat]
Calls == [op : {"idle", "mark", "look"}, inode : Inodes \cup {NoInode}, now : Nat]
Answers == [inode : Inodes \cup {NoInode}, now : Nat]

HotTypeOK ==
    /\ hot_clock \in Nat
    /\ hot_inodes \in [HotSlots -> Entries]
    /\ call \in [Callers -> Calls]
    /\ answer \in [Callers -> Answers]
    /\ marked \in [Inodes -> Int]

(* A call reaches the table with a time that is at most MaxHotLate old.    *)
CallsLate ==
    \A c \in Callers : call[c] # NoCall =>
       /\ call[c].op \in {"mark", "look"} /\ call[c].inode \in Inodes
       /\ call[c].now <= hot_clock /\ hot_clock <= call[c].now + MaxHotLate

(* A slot holds the time of the last mark of its inode, and no other slot  *)
(* has the inode.                                                          *)
SlotsMarked ==
    \A k \in HotSlots : hot_inodes[k].inode # NoInode =>
        hot_inodes[k].seen = marked[hot_inodes[k].inode]
SlotsDiffer ==
    \A k, l \in HotSlots :
        hot_inodes[k].inode # NoInode /\ hot_inodes[k].inode = hot_inodes[l].inode => k = l

MarkedPast == \A i \in Inodes : marked[i] <= hot_clock

(* An inode without a slot before its TTL is over lost it to a full table  *)
(* of inodes marked since, but for the lateness of a mark.  Those stay     *)
(* marked since, whatever becomes of their own slots.                      *)
Since(i) == {j \in Inodes : marked[j] >= marked[i] - MaxHotLate}
Crowded ==
    \A i \in Inodes :
        hot_clock - marked[i] < TTL /\ SlotsOf(i) = {} => Cardinality(Since(i)) > HotMax

HotInv == HotTypeOK /\ CallsLate /\ SlotsMarked /\ SlotsDiffer /\ MarkedPast /\ Crowded

-----------------------------------------------------------------------------
LEMMA LowestIn ==
  ASSUME NEW S \in SUBSET HotSlots, S # {}
  PROVE  Lowest(S) \in S
<1>1. S \in SUBSET Nat
  BY DEF HotSlots
<1>2. \E x \in S : \A y \in S : x <= y
  BY <1>1, LeastOf
<1> QED BY <1>2 DEF Lowest

(* The victim is expired, or no slot is and it was seen first.             *)
LEMMA VictimIs ==
  ASSUME HotTypeOK, NEW now \in Nat
  PROVE  /\ Victim(now) \in HotSlots
         /\ \/ Expired(hot_inodes[Victim(now)], now)
            \/ \A k \in HotSlots : /\ ~Expired(hot_inodes[k], now)
                                   /\ hot_inodes[Victim(now)].seen <= hot_inodes[k].seen
<1>1. CASE ExpiredSlots(now) # {}
  <2>1. Victim(now) \in ExpiredSlots(now)
    BY <1>1, LowestIn DEF Victim, ExpiredSlots
  <2> QED BY <2>1 DEF ExpiredSlots
<1>2. CASE ExpiredSlots(now) = {}
  <2> DEFINE seen == {hot_inodes[k].seen : k \in HotSlots}
  <2> DEFINE first == {k \in HotSlots : \A l \in HotSlots : hot_inodes[k].seen <= hot_inodes[l].seen}
  <2>1. seen \in SUBSET Nat /\ seen # {}
    <3>1. 1 \in HotSlots
      BY HotAssumption DEF HotSlots
    <3>2. \A k \in HotSlots : hot_inodes[k].seen \in Nat
      BY DEF HotTypeOK, Entries
    <3> QED BY <3>1, <3>2
  <2>2. PICK x \in seen : \A y \in seen : x <= y
    BY <2>1, LeastOf
  <2>3. first # {}
    BY <2>2
  <2>4. Victim(now) \in first
    BY <1>2, <2>3, LowestIn DEF Victim
  <2> QED BY <1>2, <2>4 DEF ExpiredSlots
<1> QED BY <1>1, <1>2

LEMMA HotInvInit == HotInit => HotInv
<1> SUFFICES ASSUME HotInit
             PROVE  HotInv
  OBVIOUS
<1>1. HotTypeOK
  BY HotAssumption DEF HotInit, HotTypeOK, FreeSlot, NoCall, NoAnswer, Never, Entries, Calls, Answers
<1>2. CallsLate /\ SlotsMarked /\ SlotsDiffer
  BY DEF HotInit, CallsLate, SlotsMarked, SlotsDiffer, FreeSlot
<1>3. MarkedPast /\ Crowded
  BY HotAssumption DEF HotInit, MarkedPast, Crowded, Never
<1> QED BY <1>1, <1>2, <1>3 DEF HotInv

LEMMA BeginKeeps ==
  ASSUME HotInv, NEW c \in Callers, NEW i \in Inodes, NEW op \in {"mark", "look"}, Begin(c, op, i)
  PROVE  HotInv'
<1>1. HotTypeOK'
  BY DEF HotInv, HotTypeOK, Begin, Calls, Answers, NoAnswer
<1>2. CallsLate'
  BY HotAssumption DEF HotInv, HotTypeOK, CallsLate, Begin
<1>3. SlotsMarked' /\ SlotsDiffer' /\ MarkedPast' /\ Crowded'
  BY DEF HotInv, SlotsMarked, SlotsDiffer, MarkedPast, Crowded, Since, SlotsOf, Begin
<1> QED BY <1>1, <1>2, <1>3 DEF HotInv

(* A call that is done.                                                    *)
LEMMA CallDone ==
  ASSUME HotInv, NEW c \in Callers, call' = [call EXCEPT ![c] = NoCall], UNCHANGED hot_clock
  PROVE  call' \in [Callers -> Calls] /\ CallsLate'
BY DEF HotInv, HotTypeOK, CallsLate, NoCall, Calls

LEMMA TickKeepsHot ==
  ASSUME HotInv, HotTick
  PROVE  HotInv'
<1>1. HotTypeOK'
  BY DEF HotInv, HotTypeOK, HotTick
<1>2. CallsLate'
  <2> SUFFICES ASSUME NEW c \in Callers, call[c] # NoCall
               PROVE  /\ call[c].op \in {"mark", "look"} /\ call[c].inode \in Inodes
                      /\ call[c].now <= hot_clock' /\ hot_clock' <= call[c].now + MaxHotLate
    BY DEF CallsLate, HotTick
  <2>1. call[c].now \in Nat /\ hot_clock \in Nat /\ MaxHotLate \in Nat
    BY HotAssumption DEF HotInv, HotTypeOK, Calls
  <2> QED BY <2>1 DEF HotInv, CallsLate, HotTick
<1>3. SlotsMarked' /\ SlotsDiffer'
  BY DEF HotInv, SlotsMarked, SlotsDiffer, HotTick
<1>4. MarkedPast' /\ Crowded'
  BY HotAssumption
     DEF HotInv, HotTypeOK, MarkedPast, Crowded, Since, SlotsOf, HotTick
<1> QED BY <1>1, <1>2, <1>3, <1>4 DEF HotInv

(* Who is crowded out has more inodes marked since than there are slots:   *)
(* those that fill the table, and the one that takes the slot.             *)
LEMMA CrowdedOut ==
  ASSUME HotTypeOK, SlotsMarked, SlotsDiffer,
         NEW p \in Inodes, NEW i \in Inodes, SlotsOf(i) = {},
         \A k \in HotSlots : /\ hot_inodes[k].inode # NoInode
                             /\ hot_inodes[k].seen >= marked[p],
         NEW T \in SUBSET Inodes, i \in T,
         \A j \in Inodes : j # i /\ marked[j] >= marked[p] => j \in T
  PROVE  Cardinality(T) > HotMax
<1> DEFINE holds == [k \in HotSlots |-> hot_inodes[k].inode]
<1>1. \A k \in HotSlots : hot_inodes[k].inode \in T \ {i}
  <2> TAKE k \in HotSlots
  <2>1. hot_inodes[k].inode \in Inodes
    BY DEF HotTypeOK, Entries
  <2>2. hot_inodes[k].inode # i
    BY DEF SlotsOf
  <2>3. marked[hot_inodes[k].inode] >= marked[p]
    BY DEF SlotsMarked
  <2> QED BY <2>1, <2>2, <2>3
<1>2. IsFiniteSet(T) /\ IsFiniteSet(T \ {i}) /\ Cardinality(T \ {i}) = Cardinality(T) - 1
  <2>1. IsFiniteSet(T)
    BY HotAssumption, FS_Subset
  <2> QED BY <2>1, FS_RemoveElement
<1>3. IsFiniteSet(HotSlots) /\ Cardinality(HotSlots) = HotMax
  <2>1. 1 \in Int /\ HotMax \in Int /\ ~(1 > HotMax)
    BY HotAssumption
  <2>2. /\ IsFiniteSet(1 .. HotMax)
        /\ Cardinality(1 .. HotMax) = IF 1 > HotMax THEN 0 ELSE HotMax - 1 + 1
    BY <2>1, FS_Interval
  <2> QED BY <2>1, <2>2 DEF HotSlots
<1>4. holds \in [HotSlots -> T \ {i}]
  BY <1>1
<1>5. \A k, l \in HotSlots : holds[k] = holds[l] => k = l
  BY DEF SlotsDiffer
<1>6. Cardinality(T) \in Nat /\ Cardinality(T \ {i}) \in Nat /\ HotMax \in Nat
  BY <1>2, HotAssumption, FS_CardinalityType
<1> HIDE DEF holds
<1>7. ~(Cardinality(T \ {i}) < Cardinality(HotSlots))
  BY <1>2, <1>3, <1>4, <1>5, FS_PigeonHole
<1> QED BY <1>2, <1>3, <1>6, <1>7

LEMMA MarkKeeps ==
  ASSUME HotInv, NEW c \in Callers, MarkHot(c)
  PROVE  HotInv'
<1>0. PICK i, now : i = call[c].inode /\ now = call[c].now
  OBVIOUS
<1>1. PICK k0 : k0 = MarkSlot(i, now)
  OBVIOUS
<1>2. /\ i \in Inodes /\ i # NoInode /\ now \in Nat /\ hot_clock \in Nat /\ MaxHotLate \in Nat
      /\ now <= hot_clock /\ hot_clock <= now + MaxHotLate
  BY <1>0, HotAssumption DEF HotInv, HotTypeOK, CallsLate, Calls, MarkHot, NoCall, NoInode
<1>3. /\ hot_inodes' = [hot_inodes EXCEPT ![k0] = [inode |-> i, seen |-> now]]
      /\ marked' = [marked EXCEPT ![i] = now]
      /\ call' = [call EXCEPT ![c] = NoCall]
      /\ UNCHANGED <<hot_clock, answer>>
  BY <1>0, <1>1 DEF MarkHot
<1>4. /\ k0 \in HotSlots
      /\ SlotsOf(i) # {} => k0 \in SlotsOf(i)
      /\ SlotsOf(i) = {} => \/ Expired(hot_inodes[k0], now)
                            \/ \A k \in HotSlots : /\ ~Expired(hot_inodes[k], now)
                                                   /\ hot_inodes[k0].seen <= hot_inodes[k].seen
  <2>1. CASE SlotsOf(i) # {}
    <3>1. SlotsOf(i) \in SUBSET HotSlots
      BY DEF SlotsOf
    <3> QED BY <1>1, <2>1, <3>1, LowestIn DEF MarkSlot
  <2>2. CASE SlotsOf(i) = {}
    BY <1>1, <1>2, <2>2, VictimIs DEF MarkSlot, HotInv
  <2> QED BY <2>1, <2>2
<1>5. \A k \in HotSlots : k # k0 => hot_inodes[k].inode # i
  BY <1>2, <1>4 DEF HotInv, SlotsDiffer, SlotsOf
<1>6. \A k \in HotSlots : hot_inodes'[k] = IF k = k0 THEN [inode |-> i, seen |-> now] ELSE hot_inodes[k]
  BY <1>3 DEF HotInv, HotTypeOK
<1>7. \A j \in Inodes : marked'[j] = IF j = i THEN now ELSE marked[j]
  BY <1>3 DEF HotInv, HotTypeOK
<1>8. HotTypeOK'
  <2>1. call' \in [Callers -> Calls]
    BY <1>3, CallDone
  <2>2. hot_inodes' \in [HotSlots -> Entries]
    <3>1. [inode |-> i, seen |-> now] \in Entries
      BY <1>2 DEF Entries
    <3> QED BY <1>3, <3>1 DEF HotInv, HotTypeOK
  <2>3. marked' \in [Inodes -> Int]
    BY <1>2, <1>3 DEF HotInv, HotTypeOK
  <2> QED BY <1>3, <2>1, <2>2, <2>3 DEF HotInv, HotTypeOK
<1>9. CallsLate'
  BY <1>3, CallDone
<1>10. SlotsMarked'
  <2> SUFFICES ASSUME NEW k \in HotSlots, hot_inodes'[k].inode # NoInode
               PROVE  hot_inodes'[k].seen = marked'[hot_inodes'[k].inode]
    BY DEF SlotsMarked
  <2>1. CASE k = k0
    BY <1>2, <1>6, <1>7, <2>1
  <2>2. CASE k # k0
    <3>1. hot_inodes[k].inode \in Inodes /\ hot_inodes[k].inode # i
      BY <1>5, <1>6, <2>2 DEF HotInv, HotTypeOK, Entries
    <3> QED BY <1>6, <1>7, <2>2, <3>1 DEF HotInv, SlotsMarked
  <2> QED BY <2>1, <2>2
<1>11. SlotsDiffer'
  BY <1>5, <1>6 DEF HotInv, SlotsDiffer
<1>12. MarkedPast'
  BY <1>2, <1>3, <1>7 DEF HotInv, MarkedPast
<1>13. Crowded'
  <2> SUFFICES ASSUME NEW p \in Inodes, hot_clock - marked'[p] < TTL, SlotsOf(p)' = {}
               PROVE  Cardinality(Since(p)') > HotMax
    BY <1>3 DEF Crowded
  <2>1. p # i
    BY <1>4, <1>6 DEF SlotsOf
  <2>2. /\ marked'[p] = marked[p] /\ marked[p] \in Int /\ marked[p] <= hot_clock
        /\ hot_clock - marked[p] < TTL
    BY <1>7, <2>1 DEF HotInv, HotTypeOK, MarkedPast
  <2>3. /\ i \in Since(p)'
        /\ \A j \in Inodes : j # i /\ marked[j] >= marked[p] - MaxHotLate => j \in Since(p)'
    BY <1>2, <1>7, <2>2 DEF Since
  <2>4. Since(p)' \in SUBSET Inodes /\ IsFiniteSet(Since(p)')
    <3>1. Since(p)' \in SUBSET Inodes
      BY DEF Since
    <3> QED BY <3>1, HotAssumption, FS_Subset
  <2>5. CASE SlotsOf(p) = {}
    <3>1. Cardinality(Since(p)) > HotMax
      BY <2>2, <2>5 DEF HotInv, Crowded
    <3>2. Since(p) \in SUBSET Since(p)'
      BY <2>3 DEF Since
    <3>3. Cardinality(Since(p)) <= Cardinality(Since(p)') /\ IsFiniteSet(Since(p))
      BY <2>4, <3>2, FS_Subset
    <3>4. Cardinality(Since(p)) \in Nat /\ Cardinality(Since(p)') \in Nat /\ HotMax \in Nat
      BY <2>4, <3>3, HotAssumption, FS_CardinalityType
    <3> QED BY <3>1, <3>3, <3>4
  <2>6. CASE SlotsOf(p) # {}
    <3>1. hot_inodes[k0].inode = p
      BY <1>6, <2>6 DEF SlotsOf
    <3>2. SlotsOf(i) = {}
      BY <1>4, <2>1, <3>1 DEF SlotsOf
    <3>3. hot_inodes[k0].seen = marked[p] /\ p # NoInode
      BY <1>4, <3>1, HotAssumption DEF HotInv, SlotsMarked, NoInode
    <3>4. ~Expired(hot_inodes[k0], now)
      BY <1>2, <2>2, <3>1, <3>3, HotAssumption DEF Expired
    <3>5. \A k \in HotSlots : ~Expired(hot_inodes[k], now) /\ hot_inodes[k0].seen <= hot_inodes[k].seen
      BY <1>4, <3>2, <3>4
    <3>6. \A k \in HotSlots : hot_inodes[k].inode # NoInode /\ hot_inodes[k].seen >= marked[p]
      <4> TAKE k \in HotSlots
      <4>1. hot_inodes[k].seen \in Nat
        BY DEF HotInv, HotTypeOK, Entries
      <4>2. hot_inodes[k].inode # NoInode
        BY <3>5 DEF Expired
      <4>3. hot_inodes[k].seen >= marked[p]
        BY <2>2, <3>3, <3>5, <4>1
      <4> QED BY <4>2, <4>3
    <3>7. \A j \in Inodes : j # i /\ marked[j] >= marked[p] => j \in Since(p)'
      <4> SUFFICES ASSUME NEW j \in Inodes, j # i, marked[j] >= marked[p]
                   PROVE  j \in Since(p)'
        OBVIOUS
      <4>1. marked[j] \in Int
        BY DEF HotInv, HotTypeOK
      <4>2. marked[j] >= marked[p] - MaxHotLate
        BY <1>2, <2>2, <4>1
      <4> QED BY <2>3, <4>2
    <3>8. PICK T : T = Since(p)'
      OBVIOUS
    <3> QED BY <1>2, <2>3, <2>4, <3>2, <3>6, <3>7, <3>8, CrowdedOut DEF HotInv
  <2> QED BY <2>5, <2>6
<1> QED BY <1>8, <1>9, <1>10, <1>11, <1>12, <1>13 DEF HotInv

(* A lookup clears only an expired slot, and answers from one that is not. *)
LEMMA LookUpKeeps ==
  ASSUME HotInv, NEW c \in Callers, LookUp(c)
  PROVE  HotInv' /\ AnswerBacked
<1>0. PICK i, now : i = call[c].inode /\ now = call[c].now
  OBVIOUS
<1>1. PICK k0 : k0 = Lowest(SlotsOf(i))
  OBVIOUS
<1>2. /\ i \in Inodes /\ i # NoInode /\ now \in Nat /\ hot_clock \in Nat
      /\ now <= hot_clock
  BY <1>0, HotAssumption DEF HotInv, HotTypeOK, CallsLate, Calls, LookUp, NoCall, NoInode
<1>3. PICK expired : expired = (SlotsOf(i) # {} /\ Expired(hot_inodes[k0], now))
  OBVIOUS
<1>4. /\ hot_inodes' = IF expired THEN [hot_inodes EXCEPT ![k0] = FreeSlot] ELSE hot_inodes
      /\ answer' = [answer EXCEPT ![c] =
                      IF SlotsOf(i) # {} /\ ~expired THEN [inode |-> i, now |-> now] ELSE NoAnswer]
      /\ call' = [call EXCEPT ![c] = NoCall]
      /\ UNCHANGED <<hot_clock, marked>>
  BY <1>0, <1>1, <1>3, Zenon DEF LookUp
<1>5. SlotsOf(i) # {} => /\ k0 \in HotSlots /\ hot_inodes[k0].inode = i
                         /\ hot_inodes[k0].seen = marked[i] /\ marked[i] \in Nat
  <2> SUFFICES ASSUME SlotsOf(i) # {}
               PROVE  /\ k0 \in HotSlots /\ hot_inodes[k0].inode = i
                      /\ hot_inodes[k0].seen = marked[i] /\ marked[i] \in Nat
    OBVIOUS
  <2>1. SlotsOf(i) \in SUBSET HotSlots
    BY DEF SlotsOf
  <2>2. k0 \in SlotsOf(i)
    BY <1>1, <2>1, LowestIn
  <2>3. k0 \in HotSlots /\ hot_inodes[k0].inode = i
    BY <2>2 DEF SlotsOf
  <2>4. hot_inodes[k0].seen \in Nat
    BY <2>3 DEF HotInv, HotTypeOK, Entries
  <2> QED BY <1>2, <2>3, <2>4 DEF HotInv, SlotsMarked
<1>6. SlotsOf(i) # {} => (Expired(hot_inodes[k0], now) <=> now - marked[i] >= TTL)
  BY <1>2, <1>5, HotAssumption DEF Expired
<1>7. \A k \in HotSlots : hot_inodes'[k] = IF expired /\ k = k0 THEN FreeSlot ELSE hot_inodes[k]
  BY <1>3, <1>4, <1>5 DEF HotInv, HotTypeOK
<1>8. HotTypeOK'
  <2>1. call' \in [Callers -> Calls]
    BY <1>4, CallDone
  <2>2. hot_inodes' \in [HotSlots -> Entries]
    <3>1. FreeSlot \in Entries
      BY DEF FreeSlot, Entries
    <3> QED BY <1>4, <3>1 DEF HotInv, HotTypeOK
  <2>3. answer' \in [Callers -> Answers]
    <3>1. NoAnswer \in Answers /\ [inode |-> i, now |-> now] \in Answers
      BY <1>2 DEF NoAnswer, Answers
    <3> QED BY <1>4, <3>1 DEF HotInv, HotTypeOK
  <2> QED BY <1>4, <2>1, <2>2, <2>3 DEF HotInv, HotTypeOK
<1>9. CallsLate'
  BY <1>4, CallDone
<1>10. SlotsMarked'
  BY <1>4, <1>7 DEF HotInv, SlotsMarked, FreeSlot
<1>11. SlotsDiffer'
  BY <1>7 DEF HotInv, SlotsDiffer, FreeSlot
<1>12. MarkedPast'
  BY <1>4 DEF HotInv, MarkedPast
<1>13. Crowded'
  <2> SUFFICES ASSUME NEW p \in Inodes, hot_clock - marked[p] < TTL, SlotsOf(p)' = {}
               PROVE  Cardinality(Since(p)) > HotMax
    BY <1>4 DEF Crowded, Since
  <2>1. SlotsOf(p) = {}
    <3> SUFFICES ASSUME SlotsOf(p) # {}
                 PROVE  FALSE
      OBVIOUS
    <3>1. expired /\ p = i
      BY <1>3, <1>5, <1>7 DEF SlotsOf
    <3>2. now - marked[p] >= TTL
      BY <1>3, <1>6, <3>1
    <3> QED BY <1>2, <1>3, <1>5, <3>1, <3>2, HotAssumption
  <2> QED BY <2>1 DEF HotInv, Crowded
<1>14. AnswerBacked
  <2> SUFFICES ASSUME NEW d \in Callers, answer'[d] # answer[d], answer'[d].inode # NoInode
               PROVE  answer'[d].now - marked[answer'[d].inode] < TTL
    BY DEF AnswerBacked
  <2>1. d = c
    BY <1>4 DEF HotInv, HotTypeOK
  <2>2. SlotsOf(i) # {} /\ ~expired /\ answer'[d] = [inode |-> i, now |-> now]
    BY <1>4, <2>1 DEF HotInv, HotTypeOK, NoAnswer
  <2>3. ~(now - marked[i] >= TTL)
    BY <1>3, <1>6, <2>2
  <2> QED BY <1>2, <1>5, <2>2, <2>3, HotAssumption
<1> QED BY <1>8, <1>9, <1>10, <1>11, <1>12, <1>13, <1>14 DEF HotInv

LEMMA HotInvNext == HotInv /\ [HotNext]_hotVars => HotInv'
<1> SUFFICES ASSUME HotInv, [HotNext]_hotVars
             PROVE  HotInv'
  OBVIOUS
<1>1. ASSUME NEW c \in Callers, NEW i \in Inodes, NEW op \in {"mark", "look"}, Begin(c, op, i)
      PROVE  HotInv'
  BY <1>1, BeginKeeps
<1>2. ASSUME NEW c \in Callers, MarkHot(c)
      PROVE  HotInv'
  BY <1>2, MarkKeeps
<1>3. ASSUME NEW c \in Callers, LookUp(c)
      PROVE  HotInv'
  BY <1>3, LookUpKeeps
<1>4. CASE HotTick
  BY <1>4, TickKeepsHot
<1>5. CASE UNCHANGED hotVars
  BY <1>5 DEF HotInv, HotTypeOK, CallsLate, SlotsMarked, SlotsDiffer, MarkedPast, Crowded,
              Since, SlotsOf, hotVars
<1> QED BY <1>1, <1>2, <1>3, <1>4, <1>5 DEF HotNext

(* Only a lookup gives an answer.                                          *)
LEMMA AnswersBacked == HotInv /\ [HotNext]_hotVars => (AnswerBacked \/ UNCHANGED hotVars)
<1> SUFFICES ASSUME HotInv, HotNext
             PROVE  AnswerBacked
  BY DEF HotNext
<1>1. ASSUME NEW c \in Callers, NEW i \in Inodes, NEW op \in {"mark", "look"}, Begin(c, op, i)
      PROVE  AnswerBacked
  BY <1>1 DEF AnswerBacked, Begin, NoAnswer, HotInv, HotTypeOK
<1>2. ASSUME NEW c \in Callers, MarkHot(c)
      PROVE  AnswerBacked
  BY <1>2 DEF AnswerBacked, MarkHot
<1>3. ASSUME NEW c \in Callers, LookUp(c)
      PROVE  AnswerBacked
  BY <1>3, LookUpKeeps
<1>4. CASE HotTick
  BY <1>4 DEF AnswerBacked, HotTick
<1> QED BY <1>1, <1>2, <1>3, <1>4 DEF HotNext

LEMMA SlotsKept == HotInv => OneSlotPerInode /\ KeptWhileRoom
<1> SUFFICES ASSUME HotInv
             PROVE  OneSlotPerInode /\ KeptWhileRoom
  OBVIOUS
<1>1. OneSlotPerInode
  <2> SUFFICES ASSUME NEW i \in Inodes
               PROVE  Cardinality(SlotsOf(i)) <= 1
    BY DEF OneSlotPerInode
  <2>1. CASE SlotsOf(i) = {}
    <3>1. Cardinality(SlotsOf(i)) = 0
      BY <2>1, FS_EmptySet
    <3> QED BY <3>1
  <2>2. CASE SlotsOf(i) # {}
    <3>1. PICK k \in SlotsOf(i) : TRUE
      BY <2>2
    <3>2. i # NoInode
      BY HotAssumption DEF NoInode
    <3>3. \A l \in SlotsOf(i) : l = k
      BY <3>1, <3>2 DEF HotInv, SlotsDiffer, SlotsOf
    <3>4. SlotsOf(i) = {k}
      BY <3>1, <3>3
    <3>5. Cardinality({k}) = 1
      BY FS_Singleton
    <3> QED BY <3>4, <3>5
  <2> QED BY <2>1, <2>2
<1>2. KeptWhileRoom
  <2> DEFINE Lately == {j \in Inodes : hot_clock - marked[j] < TTL + MaxHotLate}
  <2> SUFFICES ASSUME NEW i \in Inodes, hot_clock - marked[i] < TTL, Cardinality(Lately) <= HotMax,
                      SlotsOf(i) = {}
               PROVE  FALSE
    BY DEF KeptWhileRoom
  <2>1. Cardinality(Since(i)) > HotMax
    BY DEF HotInv, Crowded
  <2>2. Since(i) \in SUBSET Lately
    BY HotAssumption DEF Since, HotInv, HotTypeOK
  <2>3. Lately \in SUBSET Inodes
    OBVIOUS
  <2> HIDE DEF Lately
  <2>4. IsFiniteSet(Lately)
    BY <2>3, HotAssumption, FS_Subset
  <2>5. Cardinality(Since(i)) <= Cardinality(Lately) /\ IsFiniteSet(Since(i))
    BY <2>2, <2>4, FS_Subset
  <2>6. Cardinality(Since(i)) \in Nat /\ Cardinality(Lately) \in Nat /\ HotMax \in Nat
    BY <2>4, <2>5, HotAssumption, FS_CardinalityType
  <2> QED BY <2>1, <2>5, <2>6
<1> QED BY <1>1, <1>2

(* No inode ever has two slots or loses its slot while the inodes marked   *)
(* lately fit in the table, and no answer rests on an expired mark         *)
(* (smart_io_mark_hot_inode, smart_io_hot_inode_ext).                      *)
THEOREM HotTableAlwaysTrue == HotSpec => HotTableTrue
<1>1. HotInit => HotInv
  BY HotInvInit
<1>2. HotInv /\ [HotNext]_hotVars => HotInv'
  BY HotInvNext
<1>3. HotInv /\ HotInv' /\ [HotNext]_hotVars
        => [OneSlotPerInode' /\ KeptWhileRoom' /\ AnswerBacked]_hotVars
  <2> SUFFICES ASSUME HotInv, HotInv', [HotNext]_hotVars
               PROVE  [OneSlotPerInode' /\ KeptWhileRoom' /\ AnswerBacked]_hotVars
    OBVIOUS
  <2>1. (OneSlotPerInode /\ KeptWhileRoom)'
    BY SlotsKept, PTL
  <2> QED BY <2>1, AnswersBacked
<1> QED BY <1>1, <1>2, <1>3, PTL DEF HotSpec, HotTableTrue

-----------------------------------------------------------------------------
(* 4. Kilobytes per uid and window: the lists of entries.                  *)

Entry == [uid : Uids, kb : Nat]
Unique(list) == \A i, j \in DOMAIN list : list[i].uid = list[j].uid => i = j
Lists == {list \in Seq(Entry) : Unique(list)}

\* What a uid has in a list, as a relation: its one entry, or nothing.
IsKb(list, n, u, kb) ==
  \/ \E i \in 1 .. n : list[i].uid = u /\ kb = list[i].kb
  \/ (\A i \in 1 .. n : list[i].uid # u) /\ kb = 0

LEMMA KbSums ==
  ASSUME NEW list \in Seq(Entry), NEW u
  PROVE  \E sum \in [0 .. Len(list) -> Nat] :
            /\ sum[0] = 0
            /\ \A i \in 1 .. Len(list) :
                  sum[i] = IF list[i].uid = u THEN sum[i - 1] + list[i].kb ELSE sum[i - 1]
            /\ KbOf(list, u) = sum[Len(list)]
<1>0. PICK n \in Nat : n = Len(list) /\ DOMAIN list = 1 .. n
  OBVIOUS
<1>1. \A i \in 1 .. n : list[i] \in Entry /\ list[i].kb \in Nat
  <2>1. \A i \in 1 .. n : list[i] \in Entry
    BY <1>0
  <2> QED BY <2>1 DEF Entry
<1> DEFINE dom == DOMAIN list
           pick == [s \in SUBSET dom |-> Max(s)]
           step == [i \in dom |-> [v \in Nat |-> IF list[i].uid = u THEN v + list[i].kb ELSE v]]
<1>2. \A s \in SUBSET dom : s # {} => pick[s] \in s
  BY <1>0, MaxOfIndices
<1>3. \A x \in dom : \A v \in Nat : step[x][v] \in Nat
  BY <1>0, <1>1
<1>4. IsFiniteSet(dom)
  BY <1>0, FS_Interval
<1>5. PICK h \in [SUBSET dom -> Nat] : Recurs(h, dom, 0, pick, step)
  <2> HIDE DEF dom, pick, step
  <2>1. 0 \in Nat
    OBVIOUS
  <2> QED BY Zenon, <1>2, <1>3, <1>4, <2>1, RecursionExists
<1>6. h = [s \in SUBSET DOMAIN list |->
             IF s = {} THEN 0
             ELSE IF list[Max(s)].uid = u THEN h[s \ {Max(s)}] + list[Max(s)].kb
                                          ELSE h[s \ {Max(s)}]]
  <2>1. \A s \in SUBSET dom :
          h[s] = IF s = {} THEN 0
                 ELSE IF list[Max(s)].uid = u THEN h[s \ {Max(s)}] + list[Max(s)].kb
                                              ELSE h[s \ {Max(s)}]
    <3> TAKE s \in SUBSET dom
    <3>1. s # {} => Max(s) \in dom /\ h[s \ {Max(s)}] \in Nat /\ pick[s] = Max(s)
      BY <1>2
    <3>2. s # {} => step[Max(s)][h[s \ {Max(s)}]] =
              IF list[Max(s)].uid = u THEN h[s \ {Max(s)}] + list[Max(s)].kb
                                      ELSE h[s \ {Max(s)}]
      BY <3>1
    <3> HIDE DEF pick, step, dom
    <3> QED BY <1>5, <3>1, <3>2 DEF Recurs
  <2> HIDE DEF pick, step
  <2> QED BY <2>1
<1> DEFINE Solution(it) ==
          it = [s \in SUBSET DOMAIN list |->
             IF s = {} THEN 0
             ELSE IF list[Max(s)].uid = u THEN it[s \ {Max(s)}] + list[Max(s)].kb
                                          ELSE it[s \ {Max(s)}]]
<1>7. PICK it : Solution(it) /\ KbOf(list, u) = it[DOMAIN list]
  <2>1. KbOf(list, u) = (CHOOSE it : Solution(it))[DOMAIN list]
    BY Zenon DEF KbOf, FoldLeft, MapThenFoldSet
  <2>2. Solution(h)
    BY <1>6
  <2> HIDE DEF Solution
  <2>3. Solution(CHOOSE it : Solution(it))
    BY Zenon, <2>2
  <2> QED BY Zenon, <2>1, <2>3
<1> DEFINE move == [i \in 1 .. n |-> [v \in {it[s] : s \in SUBSET (1 .. n)} |->
                      IF list[i].uid = u THEN v + list[i].kb ELSE v]]
<1>8. Recurs(it, 1 .. n, 0, [s \in SUBSET (1 .. n) |-> Max(s)], move)
  <2> SUFFICES ASSUME NEW s \in SUBSET (1 .. n)
               PROVE  it[s] = IF s = {} THEN 0 ELSE move[Max(s)][it[s \ {Max(s)}]]
    BY DEF Recurs
  <2>1. s # {} => Max(s) \in 1 .. n /\ s \ {Max(s)} \in SUBSET (1 .. n)
    BY MaxOfIndices
  <2>2. it[s] = IF s = {} THEN 0
             ELSE IF list[Max(s)].uid = u THEN it[s \ {Max(s)}] + list[Max(s)].kb
                                          ELSE it[s \ {Max(s)}]
    BY <1>0, <1>7
  <2> QED BY <2>1, <2>2
<1>9. Steps(it, n, 0, move)
  <2> HIDE DEF move
  <2> QED BY Zenon, <1>0, <1>8, FoldSteps
<1>10. \A i \in 1 .. n :
          it[1 .. i] = IF list[i].uid = u THEN it[1 .. i - 1] + list[i].kb ELSE it[1 .. i - 1]
  <2> TAKE i \in 1 .. n
  <2>1. 1 .. i - 1 \in SUBSET (1 .. n)
    OBVIOUS
  <2> QED BY <1>9, <2>1 DEF Steps
<1> DEFINE sum == [i \in 0 .. n |-> it[1 .. i]]
           nat == {i \in Nat : i <= n => it[1 .. i] \in Nat}
<1>11. \A i \in Nat : i \in nat
  <2>1. 0 \in nat
    BY <1>9 DEF Steps
  <2>2. ASSUME NEW i \in Nat, i \in nat
        PROVE  i + 1 \in nat
    <3>1. CASE i + 1 <= n
      <4>1. i + 1 \in 1 .. n /\ it[1 .. i] \in Nat
        BY <2>2, <3>1
      <4>2. it[1 .. i + 1] = IF list[i + 1].uid = u THEN it[1 .. i] + list[i + 1].kb
                                                    ELSE it[1 .. i]
        BY <1>10, <4>1
      <4> QED BY <1>1, <4>1, <4>2
    <3>2. CASE ~(i + 1 <= n)
      BY <3>2
    <3> QED BY <3>1, <3>2
  <2> HIDE DEF nat
  <2> QED BY <2>1, <2>2, ByInduction
<1>12. sum \in [0 .. n -> Nat]
  BY <1>11
<1>13. sum[0] = 0
  BY <1>9 DEF Steps
<1>14. \A i \in 1 .. n :
          sum[i] = IF list[i].uid = u THEN sum[i - 1] + list[i].kb ELSE sum[i - 1]
  <2> TAKE i \in 1 .. n
  <2>1. i \in 0 .. n /\ i - 1 \in 0 .. n
    BY <1>0
  <2>2. sum[i] = it[1 .. i] /\ sum[i - 1] = it[1 .. i - 1]
    BY <2>1
  <2> HIDE DEF sum
  <2> QED BY <1>10, <2>2
<1>15. KbOf(list, u) = sum[n]
  BY <1>0, <1>7
<1> HIDE DEF sum
<1> QED BY <1>0, <1>12, <1>13, <1>14, <1>15

(* In a list that has one entry per uid, a uid has the kilobytes of that   *)
(* entry.                                                                  *)
LEMMA KbIs ==
  ASSUME NEW list \in Lists, NEW u
  PROVE  /\ KbOf(list, u) \in Nat
         /\ IsKb(list, Len(list), u, KbOf(list, u))
<1>0. list \in Seq(Entry) /\ Unique(list)
  BY DEF Lists
<1>1. PICK n \in Nat : n = Len(list) /\ DOMAIN list = 1 .. n
  BY <1>0
<1>2. \A i \in 1 .. n : list[i] \in Entry /\ list[i].kb \in Nat
  <2>1. \A i \in 1 .. n : list[i] \in Entry
    BY <1>0, <1>1
  <2> QED BY <2>1 DEF Entry
<1>3. PICK sum \in [0 .. n -> Nat] :
            /\ sum[0] = 0
            /\ \A i \in 1 .. n :
                  sum[i] = IF list[i].uid = u THEN sum[i - 1] + list[i].kb ELSE sum[i - 1]
            /\ KbOf(list, u) = sum[n]
  BY <1>0, <1>1, KbSums
<1> DEFINE holds == {k \in Nat : k <= n => IsKb(list, k, u, sum[k])}
<1>4. 0 \in holds
  BY <1>3 DEF IsKb
<1>5. ASSUME NEW k \in Nat, k \in holds
      PROVE  k + 1 \in holds
  <2> SUFFICES ASSUME k + 1 <= n
               PROVE  IsKb(list, k + 1, u, sum[k + 1])
    OBVIOUS
  <2>1. IsKb(list, k, u, sum[k]) /\ k + 1 \in 1 .. n /\ (k + 1) - 1 = k
    BY <1>5
  <2>2. sum[k + 1] = IF list[k + 1].uid = u THEN sum[k] + list[k + 1].kb ELSE sum[k]
    BY <1>3, <2>1
  <2>3. CASE list[k + 1].uid = u
    <3>1. \A i \in 1 .. k : list[i].uid # u
      <4> SUFFICES ASSUME NEW i \in 1 .. k, list[i].uid = u
                   PROVE  FALSE
        OBVIOUS
      <4>1. i \in 1 .. n /\ i # k + 1
        BY <2>1
      <4> QED BY <1>0, <1>1, <2>1, <2>3, <4>1 DEF Unique
    <3>2. sum[k] = 0
      BY <2>1, <3>1 DEF IsKb
    <3>3. sum[k + 1] = list[k + 1].kb
      BY <1>2, <2>1, <2>2, <2>3, <3>2
    <3> QED BY <2>1, <2>3, <3>3 DEF IsKb
  <2>4. CASE list[k + 1].uid # u
    <3>1. sum[k + 1] = sum[k]
      BY <2>2, <2>4
    <3>2. 1 .. k + 1 = (1 .. k) \cup {k + 1}
      OBVIOUS
    <3> QED BY <2>1, <2>4, <3>1, <3>2 DEF IsKb
  <2> QED BY <2>3, <2>4
<1>6. n \in holds
  <2> HIDE DEF holds
  <2>1. \A k \in Nat : k \in holds
    BY <1>4, <1>5, ByInduction
  <2> QED BY <2>1
<1> QED BY <1>1, <1>3, <1>6

LEMMA KbIsOnly ==
  ASSUME NEW list \in Lists, NEW u, NEW kb, IsKb(list, Len(list), u, kb)
  PROVE  KbOf(list, u) = kb
<1>0. list \in Seq(Entry) /\ Unique(list)
  BY DEF Lists
<1>1. DOMAIN list = 1 .. Len(list)
  BY <1>0
<1>2. IsKb(list, Len(list), u, KbOf(list, u))
  BY KbIs
<1> QED BY <1>0, <1>1, <1>2 DEF IsKb, Unique

LEMMA KbOfNone ==
  ASSUME NEW u
  PROVE  << >> \in Lists /\ KbOf(<< >>, u) = 0
<1>1. << >> \in Lists
  BY DEF Lists, Unique
<1>2. IsKb(<< >>, Len(<< >>), u, 0)
  BY DEF IsKb
<1> QED BY <1>1, <1>2, KbIsOnly

(* A new entry at the head, for a uid that has none, adds its kilobytes.   *)
LEMMA KbOfNew ==
  ASSUME NEW list \in Lists, NEW e \in Entry, ~Has(list, e.uid)
  PROVE  /\ <<e>> \o list \in Lists
         /\ \A u : KbOf(<<e>> \o list, u) = KbOf(list, u) + (IF u = e.uid THEN e.kb ELSE 0)
<1>0. list \in Seq(Entry) /\ Unique(list)
  BY DEF Lists
<1>1. PICK n \in Nat : n = Len(list) /\ DOMAIN list = 1 .. n
  BY <1>0
<1>2. PICK more : more = <<e>> \o list
  OBVIOUS
<1>3. /\ more \in Seq(Entry) /\ Len(more) = n + 1 /\ DOMAIN more = 1 .. n + 1
      /\ more[1] = e /\ \A i \in 1 .. n : more[i + 1] = list[i]
  BY <1>0, <1>1, <1>2
<1>4. \A i \in 1 .. n + 1 : i # 1 => i - 1 \in 1 .. n /\ more[i] = list[i - 1]
  <2> SUFFICES ASSUME NEW i \in 1 .. n + 1, i # 1
               PROVE  i - 1 \in 1 .. n /\ more[i] = list[i - 1]
    OBVIOUS
  <2>1. i - 1 \in 1 .. n /\ (i - 1) + 1 = i
    BY <1>1
  <2> QED BY <1>3, <2>1
<1>5. \A i \in 1 .. n : list[i].uid # e.uid
  BY <1>1 DEF Has
<1>6. Unique(more)
  <2>1. \A i, j \in 1 .. n : list[i].uid = list[j].uid => i = j
    BY <1>0, <1>1 DEF Unique
  <2>2. ASSUME NEW i \in 1 .. n + 1, NEW j \in 1 .. n + 1, more[i].uid = more[j].uid
        PROVE  i = j
    <3>1. CASE i = 1 \/ j = 1
      BY <1>3, <1>4, <1>5, <2>2, <3>1
    <3>2. CASE i # 1 /\ j # 1
      <4>1. /\ i - 1 \in 1 .. n /\ more[i] = list[i - 1]
            /\ j - 1 \in 1 .. n /\ more[j] = list[j - 1]
        BY <1>4, <3>2
      <4>2. i - 1 = j - 1
        BY <2>1, <2>2, <4>1
      <4> QED BY <4>2
    <3> QED BY <3>1, <3>2
  <2> QED BY <1>3, <2>2 DEF Unique
<1>7. more \in Lists
  BY <1>3, <1>6 DEF Lists
<1>8. ASSUME NEW u
      PROVE  KbOf(more, u) = KbOf(list, u) + (IF u = e.uid THEN e.kb ELSE 0)
  <2>0. e.kb \in Nat /\ KbOf(list, u) \in Nat /\ IsKb(list, n, u, KbOf(list, u))
    BY <1>1, KbIs DEF Entry
  <2>1. CASE u = e.uid
    <3>1. KbOf(list, u) = 0
      BY <1>5, <2>0, <2>1 DEF IsKb
    <3>2. IsKb(more, n + 1, u, e.kb)
      BY <1>1, <1>3, <2>1 DEF IsKb
    <3> QED BY <1>3, <1>7, <2>0, <2>1, <3>1, <3>2, KbIsOnly
  <2>2. CASE u # e.uid
    <3>1. IsKb(more, n + 1, u, KbOf(list, u))
      <4>1. CASE \E i \in 1 .. n : list[i].uid = u /\ KbOf(list, u) = list[i].kb
        <5>1. PICK i \in 1 .. n : list[i].uid = u /\ KbOf(list, u) = list[i].kb
          BY <4>1
        <5>2. i + 1 \in 1 .. n + 1 /\ more[i + 1] = list[i]
          BY <1>1, <1>3
        <5> QED BY <5>1, <5>2 DEF IsKb
      <4>2. CASE (\A i \in 1 .. n : list[i].uid # u) /\ KbOf(list, u) = 0
        <5>1. \A i \in 1 .. n + 1 : more[i].uid # u
          BY <1>3, <1>4, <2>2, <4>2
        <5> QED BY <4>2, <5>1 DEF IsKb
      <4> QED BY <2>0, <4>1, <4>2 DEF IsKb
    <3> QED BY <1>3, <1>7, <2>0, <2>2, <3>1, KbIsOnly
  <2> QED BY <2>1, <2>2
<1> QED BY <1>2, <1>7, <1>8

(* Adding to the entry of a uid adds to that uid alone.                    *)
LEMMA KbOfAdded ==
  ASSUME NEW list \in Lists, NEW v, NEW kb \in Nat, Has(list, v)
  PROVE  /\ AddTo(list, v, kb) \in Lists
         /\ \A u : KbOf(AddTo(list, v, kb), u) = KbOf(list, u) + (IF u = v THEN kb ELSE 0)
<1>0. list \in Seq(Entry) /\ Unique(list)
  BY DEF Lists
<1>1. PICK n \in Nat : n = Len(list) /\ DOMAIN list = 1 .. n
  BY <1>0
<1>2. \A i \in 1 .. n : list[i] \in Entry
  BY <1>0, <1>1
<1>3. PICK more : more = AddTo(list, v, kb)
  OBVIOUS
<1>4. /\ DOMAIN more = 1 .. n
      /\ \A i \in 1 .. n : more[i] = IF list[i].uid = v
                                     THEN [list[i] EXCEPT !.kb = @ + kb] ELSE list[i]
  BY <1>1, <1>3 DEF AddTo
<1>5. \A i \in 1 .. n : /\ more[i] \in Entry /\ more[i].uid = list[i].uid
                        /\ list[i].kb \in Nat
                        /\ more[i].kb = list[i].kb + (IF list[i].uid = v THEN kb ELSE 0)
  <2> TAKE i \in 1 .. n
  <2>1. PICK e \in Entry : e = list[i]
    BY <1>2
  <2>2. [e EXCEPT !.kb = @ + kb] = [uid |-> e.uid, kb |-> e.kb + kb] /\ e.kb \in Nat /\ e.uid \in Uids
    BY DEF Entry
  <2>3. more[i] = IF e.uid = v THEN [uid |-> e.uid, kb |-> e.kb + kb] ELSE e
    BY <1>4, <2>1, <2>2
  <2>4. [uid |-> e.uid, kb |-> e.kb + kb] \in Entry
    BY <2>2 DEF Entry
  <2> QED BY <2>1, <2>2, <2>3, <2>4
<1>6. more \in Seq(Entry) /\ Len(more) = n
  <2>1. more = [i \in 1 .. n |-> more[i]]
    BY <1>1, <1>3 DEF AddTo
  <2>2. more \in [1 .. n -> Entry]
    BY <1>5, <2>1
  <2> QED BY <2>2
<1>7. Unique(more)
  <2>1. \A i, j \in 1 .. n : list[i].uid = list[j].uid => i = j
    BY <1>0, <1>1 DEF Unique
  <2>2. \A i, j \in 1 .. n : more[i].uid = more[j].uid => i = j
    BY <1>5, <2>1
  <2> QED BY <1>4, <2>2 DEF Unique
<1>8. more \in Lists
  BY <1>6, <1>7 DEF Lists
<1>9. ASSUME NEW u
      PROVE  KbOf(more, u) = KbOf(list, u) + (IF u = v THEN kb ELSE 0)
  <2>0. KbOf(list, u) \in Nat /\ IsKb(list, n, u, KbOf(list, u))
    BY <1>1, KbIs
  <2>1. IsKb(more, n, u, KbOf(list, u) + (IF u = v THEN kb ELSE 0))
    <3>1. CASE \E i \in 1 .. n : list[i].uid = u /\ KbOf(list, u) = list[i].kb
      <4>1. PICK i \in 1 .. n : list[i].uid = u /\ KbOf(list, u) = list[i].kb
        BY <3>1
      <4> QED BY <1>5, <4>1 DEF IsKb
    <3>2. CASE (\A i \in 1 .. n : list[i].uid # u) /\ KbOf(list, u) = 0
      <4>1. u # v
        BY <1>1, <3>2 DEF Has
      <4> QED BY <1>5, <3>2, <4>1 DEF IsKb
    <3> QED BY <2>0, <3>1, <3>2 DEF IsKb
  <2> QED BY <1>6, <1>8, <2>1, KbIsOnly
<1> QED BY <1>3, <1>8, <1>9

LEMMA KbOfMerged ==
  ASSUME NEW list \in Lists, NEW e \in Entry
  PROVE  /\ Merged(list, e) \in Lists
         /\ \A u : KbOf(Merged(list, e), u) = KbOf(list, u) + (IF u = e.uid THEN e.kb ELSE 0)
<1>1. e.kb \in Nat
  BY DEF Entry
<1>2. CASE Has(list, e.uid)
  <2>1. Merged(list, e) = AddTo(list, e.uid, e.kb)
    BY <1>2 DEF Merged
  <2> QED BY <1>1, <1>2, <2>1, KbOfAdded
<1>3. CASE ~Has(list, e.uid)
  <2>1. Merged(list, e) = <<e>> \o list
    BY <1>3 DEF Merged
  <2> QED BY <1>3, <2>1, KbOfNew
<1> QED BY <1>2, <1>3

(* The fold of the swap: whatever the bucket held moves into the list.     *)
LEMMA MergeSteps ==
  ASSUME NEW base \in Lists, NEW list \in Seq(Entry)
  PROVE  \E m : /\ m[0] = base
                /\ \A i \in 1 .. Len(list) : m[i] = Merged(m[i - 1], list[i])
                /\ FoldLeft(Merged, base, list) = m[Len(list)]
<1>0. PICK n \in Nat : n = Len(list) /\ DOMAIN list = 1 .. n
  OBVIOUS
<1>1. \A i \in 1 .. n : list[i] \in Entry
  BY <1>0
<1> DEFINE dom == DOMAIN list
           pick == [s \in SUBSET dom |-> Max(s)]
           step == [i \in dom |-> [v \in Lists |-> Merged(v, list[i])]]
<1>2. \A s \in SUBSET dom : s # {} => pick[s] \in s
  BY <1>0, MaxOfIndices
<1>3. \A x \in dom : \A v \in Lists : step[x][v] \in Lists
  BY <1>0, <1>1, KbOfMerged
<1>4. IsFiniteSet(dom)
  BY <1>0, FS_Interval
<1>5. PICK h \in [SUBSET dom -> Lists] : Recurs(h, dom, base, pick, step)
  <2> HIDE DEF dom, pick, step
  <2> QED BY Zenon, <1>2, <1>3, <1>4, RecursionExists
<1>6. h = [s \in SUBSET DOMAIN list |->
             IF s = {} THEN base ELSE Merged(h[s \ {Max(s)}], list[Max(s)])]
  <2>1. \A s \in SUBSET dom :
          h[s] = IF s = {} THEN base ELSE Merged(h[s \ {Max(s)}], list[Max(s)])
    <3> TAKE s \in SUBSET dom
    <3>1. s # {} => Max(s) \in dom /\ h[s \ {Max(s)}] \in Lists /\ pick[s] = Max(s)
      BY <1>2
    <3>2. s # {} => step[Max(s)][h[s \ {Max(s)}]] = Merged(h[s \ {Max(s)}], list[Max(s)])
      BY <3>1
    <3> HIDE DEF pick, step, dom
    <3> QED BY <1>5, <3>1, <3>2 DEF Recurs
  <2> HIDE DEF pick, step
  <2> QED BY <2>1
<1> DEFINE Solution(it) ==
          it = [s \in SUBSET DOMAIN list |->
             IF s = {} THEN base ELSE Merged(it[s \ {Max(s)}], list[Max(s)])]
<1>7. PICK it : Solution(it) /\ FoldLeft(Merged, base, list) = it[DOMAIN list]
  <2>1. FoldLeft(Merged, base, list) = (CHOOSE it : Solution(it))[DOMAIN list]
    BY Zenon DEF FoldLeft, MapThenFoldSet
  <2>2. Solution(h)
    BY <1>6
  <2> HIDE DEF Solution
  <2>3. Solution(CHOOSE it : Solution(it))
    BY Zenon, <2>2
  <2> QED BY Zenon, <2>1, <2>3
<1> DEFINE move == [i \in 1 .. n |-> [v \in {it[s] : s \in SUBSET (1 .. n)} |->
                      Merged(v, list[i])]]
<1>8. Recurs(it, 1 .. n, base, [s \in SUBSET (1 .. n) |-> Max(s)], move)
  <2> SUFFICES ASSUME NEW s \in SUBSET (1 .. n)
               PROVE  it[s] = IF s = {} THEN base ELSE move[Max(s)][it[s \ {Max(s)}]]
    BY DEF Recurs
  <2>1. s # {} => Max(s) \in 1 .. n /\ s \ {Max(s)} \in SUBSET (1 .. n)
    BY MaxOfIndices
  <2>2. it[s] = IF s = {} THEN base ELSE Merged(it[s \ {Max(s)}], list[Max(s)])
    BY <1>0, <1>7
  <2> QED BY <2>1, <2>2
<1>9. Steps(it, n, base, move)
  <2> HIDE DEF move
  <2> QED BY Zenon, <1>0, <1>8, FoldSteps
<1>10. \A i \in 1 .. n : it[1 .. i] = Merged(it[1 .. i - 1], list[i])
  <2> TAKE i \in 1 .. n
  <2>1. 1 .. i - 1 \in SUBSET (1 .. n)
    OBVIOUS
  <2> QED BY <1>9, <2>1 DEF Steps
<1> DEFINE m == [i \in 0 .. n |-> it[1 .. i]]
<1>11. m[0] = base
  BY <1>9 DEF Steps
<1>12. \A i \in 1 .. n : m[i] = Merged(m[i - 1], list[i])
  BY <1>10
<1>13. FoldLeft(Merged, base, list) = m[n]
  BY <1>0, <1>7
<1> HIDE DEF m
<1> QED BY <1>0, <1>11, <1>12, <1>13

LEMMA KbOfMergedAll ==
  ASSUME NEW base \in Lists, NEW list \in Lists
  PROVE  /\ FoldLeft(Merged, base, list) \in Lists
         /\ \A u : KbOf(FoldLeft(Merged, base, list), u) = KbOf(base, u) + KbOf(list, u)
<1>0. list \in Seq(Entry) /\ Unique(list)
  BY DEF Lists
<1>1. PICK n \in Nat : n = Len(list) /\ DOMAIN list = 1 .. n
  BY <1>0
<1>2. \A i \in 1 .. n : list[i] \in Entry
  BY <1>0, <1>1
<1>3. PICK m : /\ m[0] = base
               /\ \A i \in 1 .. n : m[i] = Merged(m[i - 1], list[i])
               /\ FoldLeft(Merged, base, list) = m[n]
  <2>1. \E m : /\ m[0] = base
               /\ \A i \in 1 .. Len(list) : m[i] = Merged(m[i - 1], list[i])
               /\ FoldLeft(Merged, base, list) = m[Len(list)]
    BY Zenon, <1>0, MergeSteps
  <2> QED BY Zenon, <1>1, <2>1
<1> DEFINE Good(k) == /\ m[k] \in Lists
                      /\ \A u : \E kb \in Nat : /\ IsKb(list, k, u, kb)
                                                /\ KbOf(m[k], u) = KbOf(base, u) + kb
           holds == {k \in Nat : k <= n => Good(k)}
<1>4. \A u : KbOf(base, u) \in Nat
  BY KbIs
<1>5. 0 \in holds
  <2>1. \A u : IsKb(list, 0, u, 0) /\ KbOf(base, u) = KbOf(base, u) + 0
    BY <1>4 DEF IsKb
  <2> QED BY <1>3, <2>1
<1>6. ASSUME NEW k \in Nat, k \in holds
      PROVE  k + 1 \in holds
  <2> SUFFICES ASSUME k + 1 <= n
               PROVE  Good(k + 1)
    OBVIOUS
  <2>1. Good(k) /\ k + 1 \in 1 .. n /\ (k + 1) - 1 = k
    BY <1>6
  <2>2. PICK e \in Entry : e = list[k + 1]
    BY <1>2, <2>1
  <2>3. m[k + 1] = Merged(m[k], e)
    BY <1>3, <2>1, <2>2
  <2>4. /\ m[k + 1] \in Lists
        /\ \A u : KbOf(m[k + 1], u) = KbOf(m[k], u) + (IF u = e.uid THEN e.kb ELSE 0)
    BY <2>1, <2>3, KbOfMerged
  <2>5. ASSUME NEW u
        PROVE  \E kb \in Nat : IsKb(list, k + 1, u, kb) /\ KbOf(m[k + 1], u) = KbOf(base, u) + kb
    <3>1. PICK kb \in Nat : IsKb(list, k, u, kb) /\ KbOf(m[k], u) = KbOf(base, u) + kb
      BY <2>1
    <3>2. e.kb \in Nat /\ KbOf(base, u) \in Nat
      BY <1>4 DEF Entry
    <3>3. 1 .. k + 1 = (1 .. k) \cup {k + 1} /\ k + 1 \in 1 .. k + 1
      OBVIOUS
    <3>4. CASE u = e.uid
      <4>1. \A i \in 1 .. k : list[i].uid # u
        <5> SUFFICES ASSUME NEW i \in 1 .. k, list[i].uid = u
                     PROVE  FALSE
          OBVIOUS
        <5>1. i \in 1 .. n /\ i # k + 1
          BY <2>1
        <5> QED BY <1>0, <1>1, <2>1, <2>2, <3>4, <5>1 DEF Unique
      <4>2. kb = 0
        BY <3>1, <4>1 DEF IsKb
      <4>3. IsKb(list, k + 1, u, e.kb)
        BY <2>2, <3>3, <3>4 DEF IsKb
      <4>4. KbOf(m[k + 1], u) = KbOf(base, u) + e.kb
        BY <2>4, <3>1, <3>2, <3>4, <4>2
      <4> QED BY <3>2, <4>3, <4>4
    <3>5. CASE u # e.uid
      <4>1. IsKb(list, k + 1, u, kb)
        BY <2>2, <3>1, <3>3, <3>5 DEF IsKb
      <4>2. KbOf(m[k + 1], u) = KbOf(base, u) + kb
        BY <2>4, <3>1, <3>2, <3>5
      <4> QED BY <4>1, <4>2
    <3> QED BY <3>4, <3>5
  <2> QED BY <2>4, <2>5
<1>7. n \in holds
  <2> HIDE DEF holds
  <2>1. \A k \in Nat : k \in holds
    BY <1>5, <1>6, ByInduction
  <2> QED BY <2>1
<1>8. ASSUME NEW u
      PROVE  KbOf(m[n], u) = KbOf(base, u) + KbOf(list, u)
  <2>1. PICK kb \in Nat : IsKb(list, n, u, kb) /\ KbOf(m[n], u) = KbOf(base, u) + kb
    BY <1>7
  <2>2. KbOf(list, u) = kb
    BY <1>1, <2>1, KbIsOnly
  <2> QED BY <2>1, <2>2
<1> QED BY <1>3, <1>7, <1>8

-----------------------------------------------------------------------------
(* Sums over the buckets.                                                  *)

InBuckets(f, u) == MapThenSumSet(LAMBDA c : KbOf(f[c], u), UidCPUs)
StillThere(f, p, u) ==
  MapThenSumSet(LAMBDA c : IF c \in p THEN KbOf(f[c], u) ELSE 0, UidCPUs)

LEMMA InBucketsSums ==
  ASSUME NEW f, \A c \in UidCPUs : f[c] \in Lists, NEW u
  PROVE  Sums(UidCPUs, [c \in UidCPUs |-> KbOf(f[c], u)], InBuckets(f, u))
<1> DEFINE g == [c \in UidCPUs |-> KbOf(f[c], u)]
<1>0. IsFiniteSet(UidCPUs)
  BY UidWindowsAssumption
<1>1. g \in [UidCPUs -> Nat]
  BY KbIs
<1>2. PICK h \in [SUBSET UidCPUs -> Nat] : AddsUp(h, UidCPUs, g)
  <2> HIDE DEF g
  <2> QED BY Zenon, <1>0, <1>1, SumSteps
<1> DEFINE Solution(it) ==
          it = [s \in SUBSET UidCPUs |->
             IF s = {} THEN 0
             ELSE KbOf(f[CHOOSE c \in s : TRUE], u) + it[s \ {CHOOSE c \in s : TRUE}]]
<1>3. Solution(h)
  BY <1>2 DEF AddsUp
<1>4. PICK it : Solution(it) /\ InBuckets(f, u) = it[UidCPUs]
  <2>1. InBuckets(f, u) = (CHOOSE it : Solution(it))[UidCPUs]
    BY Zenon DEF InBuckets, MapThenSumSet, MapThenFoldSet
  <2> HIDE DEF Solution
  <2>2. Solution(CHOOSE it : Solution(it))
    BY Zenon, <1>3
  <2> QED BY Zenon, <2>1, <2>2
<1>5. AddsUp(it, UidCPUs, g)
  BY <1>4 DEF AddsUp
<1> HIDE DEF g
<1>6. Sums(UidCPUs, g, it[UidCPUs])
  BY Zenon, <1>0, <1>1, <1>5, SumIsNat
<1> QED BY <1>4, <1>6 DEF g

LEMMA StillThereSums ==
  ASSUME NEW f, \A c \in UidCPUs : f[c] \in Lists, NEW p, NEW u
  PROVE  Sums(UidCPUs, [c \in UidCPUs |-> IF c \in p THEN KbOf(f[c], u) ELSE 0], StillThere(f, p, u))
<1> DEFINE g == [c \in UidCPUs |-> IF c \in p THEN KbOf(f[c], u) ELSE 0]
<1>0. IsFiniteSet(UidCPUs)
  BY UidWindowsAssumption
<1>1. g \in [UidCPUs -> Nat]
  BY KbIs
<1>2. PICK h \in [SUBSET UidCPUs -> Nat] : AddsUp(h, UidCPUs, g)
  <2> HIDE DEF g
  <2> QED BY Zenon, <1>0, <1>1, SumSteps
<1> DEFINE Solution(it) ==
          it = [s \in SUBSET UidCPUs |->
             IF s = {} THEN 0
             ELSE (IF (CHOOSE c \in s : TRUE) \in p THEN KbOf(f[CHOOSE c \in s : TRUE], u) ELSE 0)
                  + it[s \ {CHOOSE c \in s : TRUE}]]
<1>3. Solution(h)
  BY <1>2 DEF AddsUp
<1>4. PICK it : Solution(it) /\ StillThere(f, p, u) = it[UidCPUs]
  <2>1. StillThere(f, p, u) = (CHOOSE it : Solution(it))[UidCPUs]
    BY Zenon DEF StillThere, MapThenSumSet, MapThenFoldSet
  <2> HIDE DEF Solution
  <2>2. Solution(CHOOSE it : Solution(it))
    BY Zenon, <1>3
  <2> QED BY Zenon, <2>1, <2>2
<1>5. AddsUp(it, UidCPUs, g)
  BY <1>4 DEF AddsUp
<1> HIDE DEF g
<1>6. Sums(UidCPUs, g, it[UidCPUs])
  BY Zenon, <1>0, <1>1, <1>5, SumIsNat
<1> QED BY <1>4, <1>6 DEF g

-----------------------------------------------------------------------------
(* The invariant of the windows.                                           *)

Call == [at : {"retry"}, cpu : UidCPUs, uid : Uids, kb : Nat]

UidTypeOK ==
  /\ curr \in [UidCPUs -> Lists] /\ prev \in Lists
  /\ adder \in [Handlers -> {UidIdle} \cup Call]
  /\ uid_pending \in SUBSET UidCPUs /\ swapping \in BOOLEAN
  /\ added \in [Uids -> Nat] /\ retired \in [Uids -> Nat]
  /\ marks \in [begun : [Uids -> Nat], ended : [Uids -> Nat],
                begun0 : [Uids -> Nat], ended0 : [Uids -> Nat]]

\* What the freed windows and the last one hold lies between what had been
\* added when the swap that filled it began and when it ended; during a swap,
\* the buckets it has still to visit hold the rest of the lower bound.
WindowBounds(u) ==
  /\ marks.begun0[u] <= retired[u] /\ retired[u] <= marks.ended0[u]
  /\ swapping =>
       marks.begun[u] <= retired[u] + KbOf(prev, u) + StillThere(curr, uid_pending, u)
  /\ ~swapping => /\ marks.begun[u] <= retired[u] + KbOf(prev, u)
                  /\ retired[u] + KbOf(prev, u) <= marks.ended[u]

Balanced(u) == added[u] = retired[u] + KbOf(prev, u) + InBuckets(curr, u)

UidInv ==
  /\ UidTypeOK
  /\ \A u \in Uids : Balanced(u) /\ WindowBounds(u)

LEMMA SumsAreNat ==
  ASSUME NEW f, \A c \in UidCPUs : f[c] \in Lists, NEW p, NEW u
  PROVE  InBuckets(f, u) \in Nat /\ StillThere(f, p, u) \in Nat
<1>1. \A g, t : Sums(UidCPUs, g, t) => t \in Nat
  BY DEF Sums
<1> QED BY <1>1, InBucketsSums, StillThereSums

(* More kilobytes in one bucket are as many more in all of them.           *)
LEMMA OneBucketGrows ==
  ASSUME NEW f \in [UidCPUs -> Lists], NEW c \in UidCPUs, NEW list \in Lists, NEW p,
         NEW u, NEW more \in Nat, KbOf(list, u) = KbOf(f[c], u) + more
  PROVE  /\ InBuckets([f EXCEPT ![c] = list], u) = InBuckets(f, u) + more
         /\ StillThere([f EXCEPT ![c] = list], p, u) >= StillThere(f, p, u)
<1> DEFINE e == [f EXCEPT ![c] = list]
           g1 == [d \in UidCPUs |-> KbOf(f[d], u)]
           g2 == [d \in UidCPUs |-> KbOf(e[d], u)]
           k1 == [d \in UidCPUs |-> IF d \in p THEN KbOf(f[d], u) ELSE 0]
           k2 == [d \in UidCPUs |-> IF d \in p THEN KbOf(e[d], u) ELSE 0]
<1>1. /\ \A d \in UidCPUs : f[d] \in Lists /\ e[d] \in Lists
      /\ \A d \in UidCPUs : d # c => e[d] = f[d]
      /\ e[c] = list
  OBVIOUS
<1>2. KbOf(f[c], u) \in Nat
  BY <1>1, KbIs
<1>3. /\ g1 \in [UidCPUs -> Nat] /\ g2 \in [UidCPUs -> Nat]
      /\ k1 \in [UidCPUs -> Nat] /\ k2 \in [UidCPUs -> Nat]
  <2>1. \A d \in UidCPUs : KbOf(f[d], u) \in Nat /\ KbOf(e[d], u) \in Nat
    BY <1>1, KbIs
  <2> HIDE DEF e
  <2> QED BY <2>1
<1>4. /\ g2[c] = g1[c] + more /\ g1[c] \in Nat
      /\ k1[c] \in Nat /\ k2[c] \in Nat /\ k2[c] >= k1[c]
  <2> HIDE DEF e
  <2> QED BY <1>1, <1>2
<1>5. DifferAt(UidCPUs, c, g1, g2) /\ DifferAt(UidCPUs, c, k1, k2)
  <2>1. \A d \in UidCPUs : d # c => g1[d] = g2[d] /\ k1[d] = k2[d]
    <3> HIDE DEF e
    <3> QED BY <1>1
  <2> HIDE DEF g1, g2, k1, k2
  <2> QED BY <1>1, <1>3, <2>1 DEF DifferAt
<1>6. Sums(UidCPUs, g1, InBuckets(f, u)) /\ Sums(UidCPUs, g2, InBuckets(e, u))
  <2> HIDE DEF e
  <2> QED BY <1>1, InBucketsSums
<1>7. Sums(UidCPUs, k1, StillThere(f, p, u)) /\ Sums(UidCPUs, k2, StillThere(e, p, u))
  <2> HIDE DEF e
  <2> QED BY <1>1, StillThereSums
<1> HIDE DEF e, g1, g2, k1, k2
<1>8. /\ InBuckets(f, u) \in Nat /\ InBuckets(e, u) \in Nat
      /\ InBuckets(f, u) + g2[c] = InBuckets(e, u) + g1[c]
  BY <1>5, <1>6, UidWindowsAssumption, SumsCompare
<1>9. /\ StillThere(f, p, u) \in Nat /\ StillThere(e, p, u) \in Nat
      /\ StillThere(f, p, u) + k2[c] = StillThere(e, p, u) + k1[c]
  BY <1>5, <1>7, UidWindowsAssumption, SumsCompare
<1>10. InBuckets(e, u) = InBuckets(f, u) + more
  BY <1>4, <1>8
<1>11. StillThere(e, p, u) >= StillThere(f, p, u)
  BY <1>4, <1>9
<1> QED BY <1>10, <1>11 DEF e

(* An emptied bucket takes what it held out of the sums.                   *)
LEMMA OneBucketEmptied ==
  ASSUME NEW f \in [UidCPUs -> Lists], NEW p \in SUBSET UidCPUs, NEW c \in p, NEW u
  PROVE  /\ InBuckets(f, u) = InBuckets([f EXCEPT ![c] = << >>], u) + KbOf(f[c], u)
         /\ StillThere(f, p, u) =
              StillThere([f EXCEPT ![c] = << >>], p \ {c}, u) + KbOf(f[c], u)
<1> DEFINE e == [f EXCEPT ![c] = << >>]
           g1 == [d \in UidCPUs |-> KbOf(f[d], u)]
           g2 == [d \in UidCPUs |-> KbOf(e[d], u)]
           k1 == [d \in UidCPUs |-> IF d \in p THEN KbOf(f[d], u) ELSE 0]
           k2 == [d \in UidCPUs |-> IF d \in p \ {c} THEN KbOf(e[d], u) ELSE 0]
<1>1. /\ c \in UidCPUs
      /\ \A d \in UidCPUs : f[d] \in Lists /\ e[d] \in Lists
      /\ \A d \in UidCPUs : d # c => e[d] = f[d]
      /\ KbOf(e[c], u) = 0
  BY KbOfNone
<1>3. /\ g1 \in [UidCPUs -> Nat] /\ g2 \in [UidCPUs -> Nat]
      /\ k1 \in [UidCPUs -> Nat] /\ k2 \in [UidCPUs -> Nat]
  <2>1. \A d \in UidCPUs : KbOf(f[d], u) \in Nat /\ KbOf(e[d], u) \in Nat
    BY <1>1, KbIs
  <2> HIDE DEF e
  <2> QED BY <2>1
<1>4. g1[c] = KbOf(f[c], u) /\ g2[c] = 0 /\ k1[c] = KbOf(f[c], u) /\ k2[c] = 0
  <2> HIDE DEF e
  <2> QED BY <1>1
<1>5. DifferAt(UidCPUs, c, g1, g2) /\ DifferAt(UidCPUs, c, k1, k2)
  <2>1. \A d \in UidCPUs : d # c => g1[d] = g2[d] /\ k1[d] = k2[d]
    <3> HIDE DEF e
    <3> QED BY <1>1
  <2> HIDE DEF g1, g2, k1, k2
  <2> QED BY <1>1, <1>3, <2>1 DEF DifferAt
<1>6. Sums(UidCPUs, g1, InBuckets(f, u)) /\ Sums(UidCPUs, g2, InBuckets(e, u))
  <2> HIDE DEF e
  <2> QED BY <1>1, InBucketsSums
<1>7. Sums(UidCPUs, k1, StillThere(f, p, u)) /\ Sums(UidCPUs, k2, StillThere(e, p \ {c}, u))
  <2> HIDE DEF e
  <2> QED BY <1>1, StillThereSums
<1> HIDE DEF e, g1, g2, k1, k2
<1>8. /\ InBuckets(f, u) \in Nat /\ InBuckets(e, u) \in Nat
      /\ InBuckets(f, u) + g2[c] = InBuckets(e, u) + g1[c]
  BY <1>5, <1>6, UidWindowsAssumption, SumsCompare
<1>9. /\ StillThere(f, p, u) \in Nat /\ StillThere(e, p \ {c}, u) \in Nat
      /\ StillThere(f, p, u) + k2[c] = StillThere(e, p \ {c}, u) + k1[c]
  BY <1>5, <1>7, UidWindowsAssumption, SumsCompare
<1>10. KbOf(f[c], u) \in Nat
  BY <1>1, KbIs
<1> QED BY <1>4, <1>8, <1>9, <1>10 DEF e

(* A swap that has begun has all the buckets to visit; one that ends, none. *)
LEMMA AllOrNoneThere ==
  ASSUME NEW f \in [UidCPUs -> Lists], NEW u
  PROVE  /\ StillThere(f, UidCPUs, u) = InBuckets(f, u)
         /\ StillThere(f, {}, u) = 0
<1>1. \A c \in UidCPUs : f[c] \in Lists
  OBVIOUS
<1>2. StillThere(f, {}, u) = 0
  <2> DEFINE k == [c \in UidCPUs |-> IF c \in {} THEN KbOf(f[c], u) ELSE 0]
  <2>1. Sums(UidCPUs, k, StillThere(f, {}, u))
    BY <1>1, StillThereSums
  <2>2. \A c \in UidCPUs : k[c] = 0
    OBVIOUS
  <2> HIDE DEF k
  <2> QED BY <2>1, <2>2, UidWindowsAssumption, SumsOfNothing
<1>3. StillThere(f, UidCPUs, u) = InBuckets(f, u)
  <2> DEFINE g == [c \in UidCPUs |-> KbOf(f[c], u)]
             k == [c \in UidCPUs |-> IF c \in UidCPUs THEN KbOf(f[c], u) ELSE 0]
  <2>1. Sums(UidCPUs, k, StillThere(f, UidCPUs, u)) /\ Sums(UidCPUs, g, InBuckets(f, u))
    BY <1>1, StillThereSums, InBucketsSums
  <2>2. k = g /\ g \in [UidCPUs -> Nat]
    BY <1>1, KbIs
  <2> HIDE DEF k, g
  <2>3. CASE UidCPUs = {}
    <3>1. \A c \in UidCPUs : g[c] = 0
      BY <2>3
    <3> QED BY <2>1, <2>2, <3>1, UidWindowsAssumption, SumsOfNothing
  <2>4. CASE UidCPUs # {}
    <3>1. PICK c \in UidCPUs : TRUE
      BY <2>4
    <3>2. /\ StillThere(f, UidCPUs, u) \in Nat /\ InBuckets(f, u) \in Nat
          /\ StillThere(f, UidCPUs, u) + g[c] = InBuckets(f, u) + g[c]
      <4>1. DifferAt(UidCPUs, c, g, g)
        BY <2>2, <3>1 DEF DifferAt
      <4>2. Sums(UidCPUs, g, StillThere(f, UidCPUs, u)) /\ Sums(UidCPUs, g, InBuckets(f, u))
        BY <2>1, <2>2
      <4> QED BY <4>1, <4>2, UidWindowsAssumption, SumsCompare
    <3>3. g[c] \in Nat
      BY <2>2, <3>1
    <3> QED BY <3>2, <3>3
  <2> QED BY <2>3, <2>4
<1> QED BY <1>2, <1>3

LEMMA UidInitially == UidInit => UidInv
<1> SUFFICES ASSUME UidInit
             PROVE  UidInv
  OBVIOUS
<1> USE DEF UidInit
<1>1. << >> \in Lists /\ \A u : KbOf(<< >>, u) = 0
  BY KbOfNone
<1>2. curr \in [UidCPUs -> Lists] /\ Zero \in [Uids -> Nat]
  BY <1>1 DEF Zero
<1>3. UidTypeOK
  BY <1>1, <1>2 DEF UidTypeOK
<1>4. ASSUME NEW u \in Uids
      PROVE  Balanced(u) /\ WindowBounds(u)
  <2>1. InBuckets(curr, u) = 0
    <3> DEFINE g == [c \in UidCPUs |-> KbOf(curr[c], u)]
    <3>1. Sums(UidCPUs, g, InBuckets(curr, u))
      BY <1>2, InBucketsSums
    <3>2. \A c \in UidCPUs : g[c] = 0
      BY <1>1
    <3> HIDE DEF g, UidInit
    <3> QED BY <3>1, <3>2, UidWindowsAssumption, SumsOfNothing
  <2>2. Zero[u] = 0
    BY DEF Zero
  <2>3. added[u] = 0 /\ retired[u] = 0 /\ KbOf(prev, u) = 0
    BY <1>1, <2>2
  <2>4. marks.begun[u] = 0 /\ marks.ended[u] = 0 /\ marks.begun0[u] = 0 /\ marks.ended0[u] = 0
    BY <2>2
  <2>5. ~swapping
    OBVIOUS
  <2> HIDE DEF UidInit
  <2>6. Balanced(u)
    BY <2>1, <2>3 DEF Balanced
  <2> QED BY <2>3, <2>4, <2>5, <2>6 DEF WindowBounds
<1> QED BY <1>3, <1>4 DEF UidInv

(* A call that adds to a bucket.                                           *)
LEMMA UidCredited ==
  ASSUME UidInv, NEW c \in UidCPUs, NEW v \in Uids, NEW kb \in Nat, NEW list \in Lists,
         \A u : KbOf(list, u) = KbOf(curr[c], u) + (IF u = v THEN kb ELSE 0),
         curr' = [curr EXCEPT ![c] = list], Credit(v, kb),
         adder' \in [Handlers -> {UidIdle} \cup Call],
         UNCHANGED <<prev, uid_pending, swapping, retired, marks>>
  PROVE  UidInv'
<1>0. UidTypeOK
  BY DEF UidInv
<1>1. UidTypeOK'
  BY <1>0 DEF UidTypeOK, Credit
<1>2. ASSUME NEW u \in Uids
      PROVE  Balanced(u)' /\ WindowBounds(u)'
  <2>1. PICK more \in Nat : /\ more = IF u = v THEN kb ELSE 0
                            /\ added'[u] = added[u] + more
    BY <1>0 DEF UidTypeOK, Credit
  <2>2. KbOf(list, u) = KbOf(curr[c], u) + more
    BY <2>1
  <2>3. /\ InBuckets(curr', u) = InBuckets(curr, u) + more
        /\ StillThere(curr', uid_pending, u) >= StillThere(curr, uid_pending, u)
    <3>1. curr \in [UidCPUs -> Lists]
      BY <1>0 DEF UidTypeOK
    <3> QED BY <2>2, <3>1, OneBucketGrows
  <2>4. /\ InBuckets(curr, u) \in Nat /\ StillThere(curr, uid_pending, u) \in Nat
        /\ StillThere(curr', uid_pending, u) \in Nat
    <3>1. \A d \in UidCPUs : curr[d] \in Lists /\ curr'[d] \in Lists
      BY <1>0, <1>1 DEF UidTypeOK
    <3> QED BY <3>1, SumsAreNat
  <2>5. /\ KbOf(prev, u) \in Nat /\ retired[u] \in Nat /\ added[u] \in Nat
        /\ marks.begun[u] \in Nat
    BY <1>0, KbIs DEF UidTypeOK
  <2>6. Balanced(u) /\ WindowBounds(u)
    BY DEF UidInv
  <2>7. Balanced(u)'
    BY <2>1, <2>3, <2>4, <2>5, <2>6 DEF Balanced
  <2>8. WindowBounds(u)'
    BY <2>3, <2>4, <2>5, <2>6 DEF WindowBounds
  <2> QED BY <2>7, <2>8
<1> QED BY <1>1, <1>2 DEF UidInv

LEMMA CurrAddKeeps ==
  ASSUME UidInv, NEW h \in Handlers, NEW c \in UidCPUs, NEW u \in Uids, NEW kb \in AddSizes,
         CurrAdd(h, c, u, kb)
  PROVE  UidInv'
<1>0. UidTypeOK /\ kb \in Nat /\ curr[c] \in Lists
  BY UidWindowsAssumption DEF UidInv, UidTypeOK
<1>1. CASE /\ Has(curr[c], u)
           /\ curr' = [curr EXCEPT ![c] = AddTo(@, u, kb)]
           /\ Credit(u, kb) /\ UNCHANGED adder
  <2>1. PICK list : list = AddTo(curr[c], u, kb)
    OBVIOUS
  <2>2. /\ list \in Lists
        /\ \A w : KbOf(list, w) = KbOf(curr[c], w) + (IF w = u THEN kb ELSE 0)
    BY <1>0, <1>1, <2>1, KbOfAdded
  <2>3. curr' = [curr EXCEPT ![c] = list]
    BY <1>1, <2>1
  <2>4. adder' \in [Handlers -> {UidIdle} \cup Call]
    BY <1>0, <1>1 DEF UidTypeOK
  <2>5. UNCHANGED <<prev, uid_pending, swapping, retired, marks>>
    BY DEF CurrAdd
  <2> QED BY <1>0, <1>1, <2>2, <2>3, <2>4, <2>5, UidCredited
<1>2. CASE UNCHANGED <<curr, added>> /\ (adder' = [adder EXCEPT ![h] =
                            [at |-> "retry", cpu |-> c, uid |-> u, kb |-> kb]]
                                         \/ UNCHANGED adder)
  <2>1. [at |-> "retry", cpu |-> c, uid |-> u, kb |-> kb] \in Call
    BY <1>0 DEF Call
  <2>2. UNCHANGED <<curr, added, prev, uid_pending, swapping, retired, marks>>
    BY <1>2 DEF CurrAdd
  <2>3. UidTypeOK'
    BY <1>0, <1>2, <2>1, <2>2 DEF UidTypeOK
  <2>4. \A w \in Uids : Balanced(w)' /\ WindowBounds(w)'
    BY <2>2 DEF UidInv, Balanced, WindowBounds
  <2> QED BY <2>3, <2>4 DEF UidInv
<1> QED BY <1>1, <1>2 DEF CurrAdd

LEMMA CurrAddRetryKeeps ==
  ASSUME UidInv, NEW h \in Handlers, CurrAddRetry(h)
  PROVE  UidInv'
<1>0. UidTypeOK
  BY DEF UidInv
<1>1. PICK a \in Call : a = adder[h]
  BY <1>0 DEF UidTypeOK, CurrAddRetry
<1>2. a.cpu \in UidCPUs /\ a.uid \in Uids /\ a.kb \in Nat /\ curr[a.cpu] \in Lists
  BY <1>0, <1>1 DEF UidTypeOK, Call
<1>3. PICK list : list = IF Has(curr[a.cpu], a.uid) THEN AddTo(curr[a.cpu], a.uid, a.kb)
                         ELSE <<[uid |-> a.uid, kb |-> a.kb]>> \o curr[a.cpu]
  OBVIOUS
<1>4. /\ list \in Lists
      /\ \A w : KbOf(list, w) = KbOf(curr[a.cpu], w) + (IF w = a.uid THEN a.kb ELSE 0)
  <2>1. CASE Has(curr[a.cpu], a.uid)
    BY <1>2, <1>3, <2>1, KbOfAdded
  <2>2. CASE ~Has(curr[a.cpu], a.uid)
    <3>0. [uid |-> a.uid, kb |-> a.kb] \in Entry
      BY <1>2 DEF Entry
    <3>1. PICK e \in Entry : e = [uid |-> a.uid, kb |-> a.kb] /\ e.uid = a.uid /\ e.kb = a.kb
      BY <3>0
    <3>2. list = <<e>> \o curr[a.cpu]
      BY <1>3, <2>2, <3>1
    <3> QED BY <1>2, <2>2, <3>1, <3>2, KbOfNew
  <2> QED BY <2>1, <2>2
<1>5. curr' = [curr EXCEPT ![a.cpu] = list]
  BY <1>1, <1>3 DEF CurrAddRetry
<1>6. Credit(a.uid, a.kb)
  BY <1>1 DEF CurrAddRetry
<1>7. adder' \in [Handlers -> {UidIdle} \cup Call]
  BY <1>0 DEF UidTypeOK, CurrAddRetry
<1>8. UNCHANGED <<prev, uid_pending, swapping, retired, marks>>
  BY DEF CurrAddRetry
<1> QED BY <1>2, <1>4, <1>5, <1>6, <1>7, <1>8, UidCredited

LEMMA SwapBeginKeeps ==
  ASSUME UidInv, SwapBegin
  PROVE  UidInv'
<1>0. UidTypeOK
  BY DEF UidInv
<1>1. \A u : KbOf(prev, u) \in Nat
  BY <1>0, KbIs DEF UidTypeOK
<1>2. << >> \in Lists /\ \A u : KbOf(<< >>, u) = 0
  BY KbOfNone
<1>3. PICK m : /\ m = marks /\ m.begun \in [Uids -> Nat] /\ m.ended \in [Uids -> Nat]
               /\ m.begun0 \in [Uids -> Nat] /\ m.ended0 \in [Uids -> Nat]
               /\ marks' = [begun |-> added, ended |-> m.ended,
                            begun0 |-> m.begun, ended0 |-> m.ended]
  BY <1>0 DEF UidTypeOK, SwapBegin
<1>4. added \in [Uids -> Nat] /\ retired \in [Uids -> Nat] /\ curr \in [UidCPUs -> Lists]
  BY <1>0 DEF UidTypeOK
<1>5. retired' \in [Uids -> Nat]
  BY <1>1, <1>4 DEF SwapBegin
<1>6. UidTypeOK'
  <2>1. marks' \in [begun : [Uids -> Nat], ended : [Uids -> Nat],
                    begun0 : [Uids -> Nat], ended0 : [Uids -> Nat]]
    BY <1>3, <1>4
  <2> QED BY <1>0, <1>2, <1>5, <2>1 DEF UidTypeOK, SwapBegin
<1>7. ASSUME NEW u \in Uids
      PROVE  Balanced(u)' /\ WindowBounds(u)'
  <2>1. retired'[u] = retired[u] + KbOf(prev, u) /\ KbOf(prev', u) = 0
    BY <1>2 DEF SwapBegin
  <2>2. /\ marks'.begun[u] = added[u]
        /\ marks'.begun0[u] = m.begun[u] /\ marks'.ended0[u] = m.ended[u]
    BY <1>3
  <2>3. /\ InBuckets(curr', u) = InBuckets(curr, u)
        /\ StillThere(curr', uid_pending', u) = InBuckets(curr, u)
        /\ InBuckets(curr, u) \in Nat
    <3>1. StillThere(curr, UidCPUs, u) = InBuckets(curr, u)
      BY <1>4, AllOrNoneThere
    <3>2. InBuckets(curr, u) \in Nat
      BY <1>4, SumsAreNat
    <3> QED BY <3>1, <3>2 DEF SwapBegin
  <2>4. /\ added[u] = retired[u] + KbOf(prev, u) + InBuckets(curr, u)
        /\ m.begun[u] <= retired[u] + KbOf(prev, u)
        /\ retired[u] + KbOf(prev, u) <= m.ended[u]
    BY <1>3 DEF UidInv, Balanced, WindowBounds, SwapBegin
  <2>5. added'[u] = added[u] /\ swapping'
    BY DEF SwapBegin
  <2>6. /\ retired[u] \in Nat /\ added[u] \in Nat /\ m.begun[u] \in Nat /\ m.ended[u] \in Nat
        /\ KbOf(prev, u) \in Nat
    BY <1>1, <1>3, <1>4
  <2>7. Balanced(u)'
    BY <2>1, <2>3, <2>4, <2>5, <2>6 DEF Balanced
  <2>8. WindowBounds(u)'
    BY <2>1, <2>2, <2>3, <2>4, <2>5, <2>6 DEF WindowBounds
  <2> QED BY <2>7, <2>8
<1> QED BY <1>6, <1>7 DEF UidInv

LEMMA SwapCpuKeeps ==
  ASSUME UidInv, NEW c \in UidCPUs, SwapCpu(c)
  PROVE  UidInv'
<1>0. UidTypeOK /\ c \in uid_pending
  BY DEF UidInv, SwapCpu
<1>1. /\ prev \in Lists /\ curr \in [UidCPUs -> Lists] /\ curr[c] \in Lists
      /\ uid_pending \in SUBSET UidCPUs
  BY <1>0 DEF UidTypeOK
<1>2. /\ prev' \in Lists
      /\ \A u : KbOf(prev', u) = KbOf(prev, u) + KbOf(curr[c], u)
  <2>1. prev' = FoldLeft(Merged, prev, curr[c])
    BY DEF SwapCpu
  <2> QED BY <1>1, <2>1, KbOfMergedAll
<1>3. << >> \in Lists
  BY KbOfNone
<1>4. UidTypeOK'
  BY <1>0, <1>2, <1>3 DEF UidTypeOK, SwapCpu
<1>5. ASSUME NEW u \in Uids
      PROVE  Balanced(u)' /\ WindowBounds(u)'
  <2>1. /\ InBuckets(curr, u) = InBuckets(curr', u) + KbOf(curr[c], u)
        /\ StillThere(curr, uid_pending, u) = StillThere(curr', uid_pending', u) + KbOf(curr[c], u)
    <3>1. curr' = [curr EXCEPT ![c] = << >>] /\ uid_pending' = uid_pending \ {c}
      BY DEF SwapCpu
    <3> QED BY <1>0, <1>1, <3>1, OneBucketEmptied
  <2>2. /\ InBuckets(curr', u) \in Nat /\ StillThere(curr', uid_pending', u) \in Nat
        /\ KbOf(prev, u) \in Nat /\ KbOf(curr[c], u) \in Nat
    <3>1. \A d \in UidCPUs : curr'[d] \in Lists
      BY <1>4 DEF UidTypeOK
    <3> QED BY <1>1, <3>1, SumsAreNat, KbIs
  <2>3. KbOf(prev', u) = KbOf(prev, u) + KbOf(curr[c], u)
    BY <1>2
  <2>4. retired[u] \in Nat /\ added[u] \in Nat /\ marks.begun[u] \in Nat
    BY <1>0 DEF UidTypeOK
  <2>5. /\ swapping /\ swapping' = swapping /\ added' = added /\ retired' = retired
        /\ marks' = marks
    BY DEF SwapCpu
  <2>6. Balanced(u) /\ WindowBounds(u)
    BY DEF UidInv
  <2>7. Balanced(u)'
    BY <2>1, <2>2, <2>3, <2>4, <2>5, <2>6 DEF Balanced
  <2>8. WindowBounds(u)'
    BY <2>1, <2>2, <2>3, <2>4, <2>5, <2>6 DEF WindowBounds
  <2> QED BY <2>7, <2>8
<1> QED BY <1>4, <1>5 DEF UidInv

LEMMA SwapEndKeeps ==
  ASSUME UidInv, SwapEnd
  PROVE  UidInv'
<1>0. UidTypeOK
  BY DEF UidInv
<1>1. PICK m : /\ m = marks /\ m.begun \in [Uids -> Nat] /\ m.ended \in [Uids -> Nat]
               /\ m.begun0 \in [Uids -> Nat] /\ m.ended0 \in [Uids -> Nat]
               /\ marks' = [begun |-> m.begun, ended |-> added,
                            begun0 |-> m.begun0, ended0 |-> m.ended0]
  BY <1>0 DEF UidTypeOK, SwapEnd
<1>2. UidTypeOK'
  <2>1. marks' \in [begun : [Uids -> Nat], ended : [Uids -> Nat],
                    begun0 : [Uids -> Nat], ended0 : [Uids -> Nat]]
    BY <1>0, <1>1 DEF UidTypeOK
  <2> QED BY <1>0, <2>1 DEF UidTypeOK, SwapEnd
<1>3. ASSUME NEW u \in Uids
      PROVE  Balanced(u)' /\ WindowBounds(u)'
  <2>1. StillThere(curr, uid_pending, u) = 0 /\ InBuckets(curr, u) \in Nat
    <3>1. curr \in [UidCPUs -> Lists] /\ uid_pending = {}
      BY <1>0 DEF UidTypeOK, SwapEnd
    <3>2. \A d \in UidCPUs : curr[d] \in Lists
      BY <3>1
    <3>3. StillThere(curr, {}, u) = 0
      BY <3>1, AllOrNoneThere
    <3> QED BY <3>1, <3>2, <3>3, SumsAreNat
  <2>2. /\ retired[u] \in Nat /\ added[u] \in Nat /\ m.begun[u] \in Nat
        /\ KbOf(prev, u) \in Nat
    BY <1>0, <1>1, KbIs DEF UidTypeOK
  <2>3. /\ added[u] = retired[u] + KbOf(prev, u) + InBuckets(curr, u)
        /\ m.begun0[u] <= retired[u] /\ retired[u] <= m.ended0[u]
        /\ m.begun[u] <= retired[u] + KbOf(prev, u) + StillThere(curr, uid_pending, u)
    BY <1>1 DEF UidInv, Balanced, WindowBounds, SwapEnd
  <2>4. /\ marks'.begun[u] = m.begun[u] /\ marks'.ended[u] = added[u]
        /\ marks'.begun0[u] = m.begun0[u] /\ marks'.ended0[u] = m.ended0[u]
    BY <1>1
  <2>5. /\ ~swapping' /\ added' = added /\ retired' = retired /\ prev' = prev /\ curr' = curr
    BY DEF SwapEnd
  <2>6. Balanced(u)'
    BY <2>3, <2>5 DEF Balanced
  <2>7. WindowBounds(u)'
    BY <2>1, <2>2, <2>3, <2>4, <2>5 DEF WindowBounds
  <2> QED BY <2>6, <2>7
<1> QED BY <1>2, <1>3 DEF UidInv

LEMMA UidStep == UidInv /\ [UidNext]_uidVars => UidInv'
<1> SUFFICES ASSUME UidInv, [UidNext]_uidVars
             PROVE  UidInv'
  OBVIOUS
<1>1. ASSUME NEW h \in Handlers, NEW c \in UidCPUs, NEW u \in Uids, NEW kb \in AddSizes,
             CurrAdd(h, c, u, kb)
      PROVE  UidInv'
  BY <1>1, CurrAddKeeps
<1>2. ASSUME NEW h \in Handlers, CurrAddRetry(h)
      PROVE  UidInv'
  BY <1>2, CurrAddRetryKeeps
<1>3. CASE SwapBegin
  BY <1>3, SwapBeginKeeps
<1>4. ASSUME NEW c \in UidCPUs, SwapCpu(c)
      PROVE  UidInv'
  BY <1>4, SwapCpuKeeps
<1>5. CASE SwapEnd
  BY <1>5, SwapEndKeeps
<1>6. CASE UNCHANGED uidVars
  BY <1>6 DEF uidVars, UidInv, UidTypeOK, Balanced, WindowBounds
<1> QED BY <1>1, <1>2, <1>3, <1>4, <1>5, <1>6 DEF UidNext

LEMMA UidInvGives == UidInv => WindowsTrue
<1> SUFFICES ASSUME UidInv
             PROVE  WindowsTrue
  OBVIOUS
<1>0. UidTypeOK
  BY DEF UidInv
<1>1. Conserved
  BY DEF UidInv, Balanced, Conserved, InBuckets
<1>2. OneEntryPerUid
  <2>1. \A list \in {prev} \cup {curr[c] : c \in UidCPUs} : Unique(list)
    BY <1>0 DEF UidTypeOK, Lists
  <2> QED BY <2>1 DEF OneEntryPerUid, Unique
<1>3. ReadIsOneWindow
  <2> SUFFICES ASSUME ~swapping, NEW u \in Uids
               PROVE  /\ KbOf(prev, u) + marks.ended0[u] >= marks.begun[u]
                      /\ KbOf(prev, u) + marks.begun0[u] <= marks.ended[u]
    BY DEF ReadIsOneWindow
  <2>1. /\ KbOf(prev, u) \in Nat /\ retired[u] \in Nat
        /\ marks.begun[u] \in Nat /\ marks.ended[u] \in Nat
        /\ marks.begun0[u] \in Nat /\ marks.ended0[u] \in Nat
    BY <1>0, KbIs DEF UidTypeOK
  <2> QED BY <2>1 DEF UidInv, WindowBounds
<1> QED BY <1>1, <1>2, <1>3 DEF WindowsTrue

(* The windows of bytes per uid (uid_io_curr_add, uid_io_swap_buckets,     *)
(* uid_io_prev_bandwidth_kbps) are true for any CPUs, uids, handlers and   *)
(* sizes: a swap that visits the buckets one after the other while         *)
(* handlers go on adding neither loses a kilobyte nor counts one twice,    *)
(* no list gets two entries for a uid, and what is read between two swaps  *)
(* is one window.                                                          *)
THEOREM WindowsAlwaysTrue == UidSpec => []WindowsTrue
<1>1. UidInit => UidInv
  BY UidInitially
<1>2. UidInv /\ [UidNext]_uidVars => UidInv'
  BY UidStep
<1>3. UidInv => WindowsTrue
  BY UidInvGives
<1> QED BY <1>1, <1>2, <1>3, PTL DEF UidSpec

-----------------------------------------------------------------------------
(* 5. The figures of a window.                                             *)

(* Powers of two: the cardinalities of the sets of subsets, which grow.    *)
LEMMA TwoTo ==
  ASSUME NEW b \in Nat
  PROVE  /\ 2 ^ b \in Nat /\ 2 ^ b > 0
         /\ \A c \in Nat : b <= c => 2 ^ b <= 2 ^ c
<1>1. ASSUME NEW n \in Nat
      PROVE  /\ IsFiniteSet(SUBSET (1 .. n)) /\ Cardinality(SUBSET (1 .. n)) = 2 ^ n
             /\ Cardinality(SUBSET (1 .. n)) \in Nat
  <2>1. IsFiniteSet(1 .. n) /\ Cardinality(1 .. n) = n
    <3>1. 1 \in Int /\ n \in Int
      OBVIOUS
    <3>2. IsFiniteSet(1 .. n) /\ Cardinality(1 .. n) = IF 1 > n THEN 0 ELSE n - 1 + 1
      BY <3>1, FS_Interval
    <3> QED BY <3>2
  <2>2. IsFiniteSet(SUBSET (1 .. n)) /\ Cardinality(SUBSET (1 .. n)) = 2 ^ Cardinality(1 .. n)
    BY <2>1, FS_SUBSET
  <2> QED BY <2>1, <2>2, FS_CardinalityType
<1>2. 2 ^ b \in Nat /\ 2 ^ b > 0
  <2>1. PICK s : s = SUBSET (1 .. b)
    OBVIOUS
  <2>2. IsFiniteSet(s) /\ Cardinality(s) = 2 ^ b /\ Cardinality(s) \in Nat
    BY Zenon, <1>1, <2>1
  <2>3. s # {}
    BY <2>1
  <2>4. Cardinality(s) # 0
    BY <2>2, <2>3, FS_EmptySet
  <2>5. PICK k \in Nat : k = Cardinality(s) /\ k # 0
    BY <2>2, <2>4
  <2>6. k > 0
    BY <2>5
  <2> QED BY Zenon, <2>2, <2>5, <2>6
<1>3. ASSUME NEW c \in Nat, b <= c
      PROVE  2 ^ b <= 2 ^ c
  <2>1. 1 .. b \in SUBSET (1 .. c)
    BY <1>3
  <2>2. SUBSET (1 .. b) \in SUBSET SUBSET (1 .. c)
    BY <2>1
  <2>3. Cardinality(SUBSET (1 .. b)) <= Cardinality(SUBSET (1 .. c))
    BY <1>1, <2>2, FS_Subset
  <2> QED BY <1>1, <2>3
<1> QED BY <1>2, <1>3

(* The bucket of a latency: one of the buckets, and longer latencies are   *)
(* in later ones.                                                          *)
LEMMA BucketOf ==
  ASSUME NEW l \in Nat
  PROVE  lat_bucket_idx(l) \in Buckets
<1>0. HistBuckets - 1 \in Nat
  BY WindowAssumption
<1> DEFINE s == {0} \cup {b \in Buckets : b > 0 /\ 2 ^ b <= l}
<1>1. s \in SUBSET (0 .. HistBuckets - 1) /\ s # {}
  BY <1>0 DEF Buckets
<1>2. Max(s) \in s
  <2> HIDE DEF s
  <2> QED BY <1>0, <1>1, MaxOf
<1> QED BY <1>1, <1>2 DEF lat_bucket_idx, Buckets

LEMMA BucketsGrow ==
  ASSUME NEW l \in Nat, NEW k \in Nat, l <= k
  PROVE  lat_bucket_idx(l) <= lat_bucket_idx(k)
<1>0. HistBuckets - 1 \in Nat
  BY WindowAssumption
<1> DEFINE sl == {0} \cup {b \in Buckets : b > 0 /\ 2 ^ b <= l}
           sk == {0} \cup {b \in Buckets : b > 0 /\ 2 ^ b <= k}
<1>1. /\ sl \in SUBSET (0 .. HistBuckets - 1) /\ sl # {}
      /\ sk \in SUBSET (0 .. HistBuckets - 1) /\ sk # {}
  BY <1>0 DEF Buckets
<1>2. \A b \in Buckets : 2 ^ b \in Nat
  BY TwoTo DEF Buckets
<1>3. sl \subseteq sk
  BY <1>2
<1>4. Max(sl) \in sl /\ \A y \in sk : y <= Max(sk)
  <2> HIDE DEF sl, sk
  <2> QED BY <1>0, <1>1, MaxOf
<1> QED BY <1>3, <1>4 DEF lat_bucket_idx

(* Latencies of a sequence.                                                *)
Below(s, l) == {i \in DOMAIN s : s[i] < l}
UpTo(s, l) == {i \in DOMAIN s : s[i] <= l}
InBucket(s, bs) == {i \in DOMAIN s : lat_bucket_idx(s[i]) \in bs}

\* hist is the histogram of the latencies s; of the sum, between which
\* multiples of the count it lies.
Describes(hist, s) ==
  /\ hist.total = Len(s)
  /\ hist.count \in [Buckets -> Nat]
  /\ \A b \in Buckets : hist.count[b] = Cardinality(InBucket(s, {b}))
  /\ hist.sum_us \in Nat
  /\ \A l \in Nat : (\A i \in DOMAIN s : s[i] <= l) => hist.sum_us <= l * Len(s)
  /\ \A l \in Nat : (\A i \in DOMAIN s : l <= s[i]) => l * Len(s) <= hist.sum_us

LEMMA Finite ==
  ASSUME NEW s \in Seq(Nat), NEW x \in SUBSET DOMAIN s
  PROVE  /\ IsFiniteSet(x) /\ Cardinality(x) \in Nat
         /\ Cardinality(x) <= Len(s) /\ Cardinality(DOMAIN s) = Len(s)
         /\ \A y \in SUBSET x : Cardinality(y) <= Cardinality(x)
<1>1. PICK n \in Nat : n = Len(s) /\ DOMAIN s = 1 .. n
  OBVIOUS
<1>2. IsFiniteSet(1 .. n) /\ Cardinality(1 .. n) = n
  <2>1. 1 \in Int /\ n \in Int
    OBVIOUS
  <2>2. IsFiniteSet(1 .. n) /\ Cardinality(1 .. n) = IF 1 > n THEN 0 ELSE n - 1 + 1
    BY <2>1, FS_Interval
  <2> QED BY <2>2
<1>3. IsFiniteSet(x) /\ Cardinality(x) <= Cardinality(1 .. n)
  BY <1>1, <1>2, FS_Subset
<1>4. Cardinality(x) \in Nat
  BY <1>3, FS_CardinalityType
<1>5. \A y \in SUBSET x : Cardinality(y) <= Cardinality(x)
  BY <1>3, FS_Subset
<1> QED BY <1>1, <1>2, <1>3, <1>4, <1>5

Seen(hist, b) == MapThenSumSet(LAMBDA i : hist.count[i], 0 .. b)

(* The counts up to a bucket add up to the latencies in these buckets.     *)
LEMMA SeenIs ==
  ASSUME NEW s \in Seq(Nat), NEW hist, Describes(hist, s), NEW b \in Buckets
  PROVE  Seen(hist, b) = Cardinality(InBucket(s, 0 .. b))
<1>0. IsFiniteSet(0 .. b) /\ \A i \in 0 .. b : i \in Buckets
  <2>1. b \in Nat /\ b <= HistBuckets - 1 /\ HistBuckets \in Nat
    BY WindowAssumption DEF Buckets
  <2>2. 0 \in Int /\ b \in Int
    BY <2>1
  <2>3. IsFiniteSet(0 .. b)
    BY <2>2, FS_Interval
  <2> QED BY <2>1, <2>3 DEF Buckets
<1>8. PICK S : S = 0 .. b
  OBVIOUS
<1>9. IsFiniteSet(S) /\ \A i \in S : i \in Buckets
  BY <1>0, <1>8
<1> DEFINE g == [i \in S |-> hist.count[i]]
<1>1. g \in [S -> Nat]
  BY <1>9 DEF Describes
<1>2. PICK h \in [SUBSET S -> Nat] : AddsUp(h, S, g)
  <2> HIDE DEF g
  <2> QED BY Zenon, <1>9, <1>1, SumSteps
<1> DEFINE Solution(it) ==
       it = [x \in SUBSET S |->
               IF x = {} THEN 0
               ELSE hist.count[CHOOSE c \in x : TRUE] + it[x \ {CHOOSE c \in x : TRUE}]]
<1>3. Solution(h)
  BY <1>2 DEF AddsUp
<1>4. PICK it : Solution(it) /\ Seen(hist, b) = it[S]
  <2>1. Seen(hist, b) = (CHOOSE it : Solution(it))[S]
    BY Zenon, <1>8 DEF Seen, MapThenSumSet, MapThenFoldSet
  <2> HIDE DEF Solution
  <2>2. Solution(CHOOSE it : Solution(it))
    BY Zenon, <1>3
  <2> QED BY Zenon, <2>1, <2>2
<1> DEFINE holds == {x \in SUBSET S : it[x] = Cardinality(InBucket(s, x))}
<1>5. {} \in holds
  <2>1. InBucket(s, {}) = {}
    BY DEF InBucket
  <2>2. Cardinality(InBucket(s, {})) = 0
    BY <2>1, FS_EmptySet
  <2> QED BY <1>4, <2>2
<1>6. ASSUME NEW x \in SUBSET S, x # {}, x \ {CHOOSE c \in x : TRUE} \in holds
      PROVE  x \in holds
  <2>1. PICK y \in x : y = CHOOSE c \in x : TRUE
    BY <1>6
  <2>2. it[x] = hist.count[y] + it[x \ {y}]
    BY <1>4, <1>6, <2>1
  <2>3. it[x \ {y}] = Cardinality(InBucket(s, x \ {y}))
    BY <1>6, <2>1
  <2>4. hist.count[y] = Cardinality(InBucket(s, {y}))
    BY <1>9 DEF Describes
  <2>5. InBucket(s, x) = InBucket(s, {y}) \cup InBucket(s, x \ {y})
    BY DEF InBucket
  <2>6. InBucket(s, {y}) \cap InBucket(s, x \ {y}) = {}
    BY DEF InBucket
  <2>7. /\ IsFiniteSet(InBucket(s, {y})) /\ IsFiniteSet(InBucket(s, x \ {y}))
        /\ Cardinality(InBucket(s, {y})) \in Nat /\ Cardinality(InBucket(s, x \ {y})) \in Nat
    <3>1. InBucket(s, {y}) \in SUBSET DOMAIN s /\ InBucket(s, x \ {y}) \in SUBSET DOMAIN s
      BY DEF InBucket
    <3> QED BY <3>1, Finite
  <2>8. Cardinality(InBucket(s, x)) = Cardinality(InBucket(s, {y})) + Cardinality(InBucket(s, x \ {y}))
    <3>1. Cardinality({}) = 0
      BY FS_EmptySet
    <3>2. Cardinality(InBucket(s, x)) = Cardinality(InBucket(s, {y}))
             + Cardinality(InBucket(s, x \ {y})) - Cardinality({})
      BY <2>5, <2>6, <2>7, FS_Union
    <3> QED BY <2>7, <3>1, <3>2
  <2> QED BY <2>2, <2>3, <2>4, <2>8
<1>7. \A x \in SUBSET S : x \in holds
  <2> HIDE DEF holds
  <2> QED BY <1>9, <1>5, <1>6, ByPicking
<1> QED BY <1>4, <1>7, <1>8

LEMMA QuotientOfMultiple ==
  ASSUME NEW l \in Nat, NEW e \in Nat, e > 0
  PROVE  (l * e) \div e = l
<1>1. PICK q \in Int, r \in 0 .. e - 1 : q = (l * e) \div e /\ l * e = e * q + r
  <2>1. /\ (l * e) \div e \in Int /\ (l * e) % e \in 0 .. e - 1
        /\ l * e = e * ((l * e) \div e) + ((l * e) % e)
    OBVIOUS
  <2> QED BY <2>1
<1>2. r = e * (l - q)
  BY <1>1
<1>3. l - q = 0
  BY <1>1, <1>2
<1> QED BY <1>1, <1>3

LEMMA TargetReached ==
  ASSUME NEW n \in Nat, NEW pct \in Nat, NEW t \in Nat
  PROVE  t >= Target(n, pct) <=> 100 * t >= pct * n
<1>1. PICK k \in Nat : k = n * pct /\ k = pct * n
  OBVIOUS
<1>2. t >= (k + 99) \div 100 <=> 100 * t >= k
  OBVIOUS
<1> QED BY <1>1, <1>2 DEF Target

-----------------------------------------------------------------------------
(* The true percentile.                                                    *)
LEMMA Bounded ==
  ASSUME NEW s \in Seq(Nat)
  PROVE  \E m \in Nat : \A i \in DOMAIN s : s[i] <= m
<1>1. PICK n \in Nat : n = Len(s) /\ DOMAIN s = 1 .. n
  OBVIOUS
<1>2. \A i \in 1 .. n : s[i] \in Nat
  BY <1>1
<1> DEFINE holds == {k \in Nat : k <= n => \E m \in Nat : \A i \in 1 .. k : s[i] <= m}
<1>3. 0 \in holds
  OBVIOUS
<1>4. ASSUME NEW k \in Nat, k \in holds
      PROVE  k + 1 \in holds
  <2>0. k + 1 \in Nat
    OBVIOUS
  <2> SUFFICES ASSUME k + 1 <= n
               PROVE  \E m \in Nat : \A i \in 1 .. k + 1 : s[i] <= m
    BY <2>0
  <2>1. PICK m \in Nat : \A i \in 1 .. k : s[i] <= m
    BY <1>4
  <2>2. s[k + 1] \in Nat
    BY <1>2
  <2>3. PICK b \in Nat : b >= m /\ b >= s[k + 1]
    <3>1. m + s[k + 1] \in Nat /\ m + s[k + 1] >= m /\ m + s[k + 1] >= s[k + 1]
      BY <2>2
    <3> QED BY <3>1
  <2>4. \A i \in 1 .. k + 1 : s[i] <= b
    <3> SUFFICES ASSUME NEW i \in 1 .. k + 1
                 PROVE  s[i] <= b
      OBVIOUS
    <3>1. CASE i = k + 1
      BY <2>3, <3>1
    <3>2. CASE i # k + 1
      <4>1. i \in 1 .. k /\ s[i] \in Nat
        BY <1>2, <3>2
      <4> QED BY <2>1, <2>3, <4>1
    <3> QED BY <3>1, <3>2
  <2> QED BY <2>4
<1>5. n \in holds
  <2> HIDE DEF holds
  <2>1. \A k \in Nat : k \in holds
    BY <1>3, <1>4, ByInduction
  <2> QED BY <2>1
<1> QED BY <1>1, <1>5

\* l is the pct-th percentile of s.
IsPercentile(s, pct, l) ==
  /\ l \in ToSet(s)
  /\ 100 * Cardinality(UpTo(s, l)) >= pct * Len(s)
  /\ 100 * Cardinality(Below(s, l)) < pct * Len(s)

LEMMA PercentileIs ==
  ASSUME NEW s \in Seq(Nat), s # << >>, NEW pct \in 1 .. 100
  PROVE  IsPercentile(s, pct, Percentile(s, pct)) /\ Percentile(s, pct) \in Nat
<1>1. PICK n \in Nat \ {0} : n = Len(s) /\ DOMAIN s = 1 .. n
  OBVIOUS
<1>2. \A i \in 1 .. n : s[i] \in Nat
  BY <1>1
<1>3. PICK k \in Nat \ {0} : k = pct * n /\ k <= 100 * n
  <2>1. pct * n \in Nat \ {0} /\ pct * n <= 100 * n
    OBVIOUS
  <2> QED BY <2>1
<1>4. ToSet(s) = {s[i] : i \in 1 .. n} /\ ToSet(s) \in SUBSET Nat
  BY <1>1, <1>2 DEF ToSet
<1>5. \A l : /\ Cardinality(UpTo(s, l)) \in Nat /\ Cardinality(Below(s, l)) \in Nat
             /\ IsFiniteSet(UpTo(s, l)) /\ IsFiniteSet(Below(s, l))
  <2> TAKE l
  <2>1. UpTo(s, l) \in SUBSET DOMAIN s /\ Below(s, l) \in SUBSET DOMAIN s
    BY DEF UpTo, Below
  <2> QED BY <2>1, Finite
<1> DEFINE enough == {l \in ToSet(s) : 100 * Cardinality(UpTo(s, l)) >= k}
<1>6. enough # {}
  <2>1. PICK m \in Nat : \A i \in DOMAIN s : s[i] <= m
    BY Bounded
  <2>2. ToSet(s) \in SUBSET (0 .. m) /\ ToSet(s) # {}
    BY <1>1, <1>4, <2>1
  <2>3. PICK top \in ToSet(s) : \A y \in ToSet(s) : y <= top
    BY <2>2, MaxOf
  <2>4. UpTo(s, top) = DOMAIN s
    BY <1>1, <1>4, <2>3 DEF UpTo
  <2>5. Cardinality(UpTo(s, top)) = n
    <3>1. DOMAIN s \in SUBSET DOMAIN s
      OBVIOUS
    <3> QED BY <1>1, <2>4, <3>1, Finite
  <2> QED BY <1>3, <2>3, <2>5
<1>7. PICK l \in enough : \A y \in enough : l <= y
  <2>1. enough \in SUBSET Nat
    BY <1>4
  <2> HIDE DEF enough
  <2> QED BY <1>6, <2>1, LeastOf
<1>8. 100 * Cardinality(Below(s, l)) < k
  <2> SUFFICES ASSUME ~(100 * Cardinality(Below(s, l)) < k)
               PROVE  FALSE
    OBVIOUS
  <2>1. PICK c \in Nat : c = Cardinality(Below(s, l))
    BY <1>5
  <2>2. 100 * c >= k /\ c # 0
    BY <1>3, <2>1
  <2>3. Below(s, l) # {}
    BY <1>5, <2>1, <2>2, FS_EmptySet
  <2> DEFINE less == {y \in ToSet(s) : y < l}
  <2>4. less \in SUBSET (0 .. l) /\ less # {} /\ l \in Nat
    BY <1>1, <1>4, <2>3 DEF Below
  <2>5. PICK y \in less : \A z \in less : z <= y
    <3> HIDE DEF less
    <3> QED BY <2>4, MaxOf
  <2>6. y \in ToSet(s) /\ y \in Nat /\ y < l /\ l \in Nat
    BY <1>4, <2>4
  <2>7. Below(s, l) = UpTo(s, y)
    <3>1. ASSUME NEW i \in 1 .. n
          PROVE  s[i] < l <=> s[i] <= y
      <4>1. s[i] \in ToSet(s) /\ s[i] \in Nat
        BY <1>2, <1>4
      <4>2. s[i] < l => s[i] <= y
        BY <2>5, <4>1
      <4>3. s[i] <= y => s[i] < l
        BY <2>6, <4>1
      <4> QED BY <4>2, <4>3
    <3> QED BY <1>1, <3>1 DEF Below, UpTo
  <2>8. y \in enough
    BY <2>1, <2>2, <2>6, <2>7
  <2> QED BY <1>7, <2>6, <2>8
<1>9. IsPercentile(s, pct, l)
  BY <1>1, <1>3, <1>7, <1>8 DEF IsPercentile
<1>10. Percentile(s, pct) = CHOOSE x \in ToSet(s) :
          100 * Cardinality(UpTo(s, x)) >= pct * Len(s) /\ 100 * Cardinality(Below(s, x)) < pct * Len(s)
  BY Zenon DEF Percentile, UpTo, Below
<1>11. IsPercentile(s, pct, Percentile(s, pct))
  BY <1>9, <1>10, Zenon DEF IsPercentile
<1> QED BY <1>4, <1>11 DEF IsPercentile

(* The histogram finds the bucket of the true percentile.                  *)
LEMMA HistPercentile ==
  ASSUME NEW s \in Seq(Nat), s # << >>, NEW pct \in 1 .. 100, NEW hist, Describes(hist, s)
  PROVE  hist_percentile(hist, pct) = lat_bucket_value(lat_bucket_idx(Percentile(s, pct)))
<1>1. PICK n \in Nat \ {0} : n = Len(s) /\ DOMAIN s = 1 .. n
  OBVIOUS
<1>2. \A i \in 1 .. n : s[i] \in Nat /\ lat_bucket_idx(s[i]) \in Buckets
  <2>1. \A i \in 1 .. n : s[i] \in Nat
    BY <1>1
  <2> QED BY <2>1, BucketOf
<1>3. PICK l \in Nat : l = Percentile(s, pct) /\ IsPercentile(s, pct, l)
  BY PercentileIs
<1>4. PICK bl \in Buckets : bl = lat_bucket_idx(l)
  BY BucketOf
<1>5. HistBuckets - 1 \in Nat /\ Buckets = 0 .. HistBuckets - 1
  BY WindowAssumption DEF Buckets
<1>6. PICK k \in Nat : k = pct * n
  <2>1. pct * n \in Nat
    OBVIOUS
  <2> QED BY <2>1
<1> DEFINE reached == {b \in Buckets : Seen(hist, b) >= Target(hist.total, pct)}
<1>7. hist_percentile(hist, pct) = lat_bucket_value(Min(reached \cup {HistBuckets - 1}))
  <2>1. hist.total # 0
    BY <1>1 DEF Describes
  <2> QED BY <2>1, Zenon DEF hist_percentile, Seen
<1>8. ASSUME NEW b \in Buckets
      PROVE  b \in reached <=> 100 * Cardinality(InBucket(s, 0 .. b)) >= k
  <2>1. Seen(hist, b) = Cardinality(InBucket(s, 0 .. b))
    BY SeenIs
  <2>2. Cardinality(InBucket(s, 0 .. b)) \in Nat
    <3>1. InBucket(s, 0 .. b) \in SUBSET DOMAIN s
      BY DEF InBucket
    <3> QED BY <3>1, Finite
  <2>3. hist.total = n
    BY <1>1 DEF Describes
  <2>4. Seen(hist, b) >= Target(n, pct) <=> 100 * Cardinality(InBucket(s, 0 .. b)) >= pct * n
    BY <2>1, <2>2, TargetReached
  <2> QED BY <1>6, <2>3, <2>4
<1>9. bl \in reached
  <2>1. UpTo(s, l) \in SUBSET InBucket(s, 0 .. bl)
    <3> SUFFICES ASSUME NEW i \in 1 .. n, s[i] <= l
                 PROVE  lat_bucket_idx(s[i]) \in 0 .. bl
      BY <1>1 DEF UpTo, InBucket
    <3>1. lat_bucket_idx(s[i]) <= bl /\ lat_bucket_idx(s[i]) \in Buckets
      BY <1>2, <1>4, BucketsGrow
    <3> QED BY <1>5, <3>1
  <2>2. /\ Cardinality(UpTo(s, l)) <= Cardinality(InBucket(s, 0 .. bl))
        /\ Cardinality(UpTo(s, l)) \in Nat /\ Cardinality(InBucket(s, 0 .. bl)) \in Nat
    <3>1. InBucket(s, 0 .. bl) \in SUBSET DOMAIN s /\ UpTo(s, l) \in SUBSET DOMAIN s
      BY DEF InBucket, UpTo
    <3> QED BY <2>1, <3>1, Finite
  <2>3. 100 * Cardinality(UpTo(s, l)) >= k
    BY <1>1, <1>3, <1>6 DEF IsPercentile
  <2>4. 100 * Cardinality(InBucket(s, 0 .. bl)) >= k
    BY <2>2, <2>3
  <2> QED BY <1>8, <2>4
<1>10. ASSUME NEW b \in reached
       PROVE  bl <= b
  <2> SUFFICES ASSUME ~(bl <= b)
               PROVE  FALSE
    OBVIOUS
  <2>0. b \in Buckets /\ b < bl
    BY <1>5
  <2>1. InBucket(s, 0 .. b) \in SUBSET Below(s, l)
    <3> SUFFICES ASSUME NEW i \in 1 .. n, lat_bucket_idx(s[i]) \in 0 .. b
                 PROVE  s[i] < l
      BY <1>1 DEF Below, InBucket
    <3>1. lat_bucket_idx(s[i]) \in Nat /\ lat_bucket_idx(s[i]) < bl
      BY <1>5, <2>0
    <3>2. l <= s[i] => bl <= lat_bucket_idx(s[i])
      BY <1>2, <1>4, BucketsGrow
    <3> QED BY <1>2, <1>5, <3>1, <3>2
  <2>2. /\ Cardinality(InBucket(s, 0 .. b)) <= Cardinality(Below(s, l))
        /\ Cardinality(Below(s, l)) \in Nat /\ Cardinality(InBucket(s, 0 .. b)) \in Nat
    <3>1. InBucket(s, 0 .. b) \in SUBSET DOMAIN s /\ Below(s, l) \in SUBSET DOMAIN s
      BY DEF InBucket, Below
    <3> QED BY <2>1, <3>1, Finite
  <2>3. 100 * Cardinality(Below(s, l)) < k
    BY <1>1, <1>3, <1>6 DEF IsPercentile
  <2>4. 100 * Cardinality(InBucket(s, 0 .. b)) >= k
    BY <1>8, <2>0
  <2> QED BY <2>2, <2>3, <2>4
<1>11. Min(reached \cup {HistBuckets - 1}) = bl
  <2>1. reached \cup {HistBuckets - 1} \in SUBSET Nat
    BY <1>5
  <2>2. bl \in reached /\ \A b \in reached \cup {HistBuckets - 1} : bl <= b
    BY <1>5, <1>9, <1>10
  <2> HIDE DEF reached
  <2>3. PICK m \in reached \cup {HistBuckets - 1} :
           m = Min(reached \cup {HistBuckets - 1}) /\ \A b \in reached \cup {HistBuckets - 1} : m <= b
    <3>1. PICK all : all = reached \cup {HistBuckets - 1}
      OBVIOUS
    <3>2. all \in SUBSET Nat /\ all # {}
      BY <2>1, <3>1
    <3>3. Min(all) \in all /\ \A b \in all : Min(all) <= b
      BY <3>2, MinOf
    <3> QED BY <3>1, <3>3
  <2>4. m <= bl /\ bl <= m /\ m \in Nat /\ bl \in Nat
    BY <2>1, <2>2, <2>3
  <2> QED BY <2>3, <2>4
<1> QED BY <1>3, <1>4, <1>7, <1>11

-----------------------------------------------------------------------------
(* Histograms as they are emptied, added to and summed up.                 *)
Hists == [count : [Buckets -> Nat], sum_us : Nat, total : Nat]

LEMMA DescribesEmpty == Empty \in Hists /\ Describes(Empty, << >>)
<1>1. \A b \in Buckets : InBucket(<< >>, {b}) = {}
  BY DEF InBucket
<1>2. \A b \in Buckets : Cardinality(InBucket(<< >>, {b})) = 0
  BY <1>1, FS_EmptySet
<1>3. \A l \in Nat : l * 0 = 0
  OBVIOUS
<1>4. Len(<< >>) = 0
  OBVIOUS
<1> QED BY <1>2, <1>3, <1>4 DEF Describes, Empty, Hists

LEMMA DescribesAdd ==
  ASSUME NEW hist \in Hists, NEW s \in Seq(Nat), Describes(hist, s), NEW l \in Nat
  PROVE  hist_add(hist, l) \in Hists /\ Describes(hist_add(hist, l), Append(s, l))
<1>1. PICK n \in Nat : n = Len(s) /\ DOMAIN s = 1 .. n
  OBVIOUS
<1>2. PICK t \in Seq(Nat) : t = Append(s, l)
  <2>1. Append(s, l) \in Seq(Nat)
    OBVIOUS
  <2> QED BY <2>1
<1>3. /\ Len(t) = n + 1 /\ DOMAIN t = 1 .. n + 1 /\ t[n + 1] = l
      /\ \A i \in 1 .. n : t[i] = s[i]
  BY <1>1, <1>2
<1>4. PICK bl \in Buckets : bl = lat_bucket_idx(l)
  BY BucketOf
<1>5. PICK h : h = hist_add(hist, l)
  OBVIOUS
<1>6. /\ h.count = [hist.count EXCEPT ![bl] = @ + 1]
      /\ h.sum_us = hist.sum_us + l /\ h.total = hist.total + 1 /\ h \in Hists
  BY <1>4, <1>5 DEF hist_add, Hists
<1>7. ASSUME NEW b \in Buckets
      PROVE  h.count[b] = Cardinality(InBucket(t, {b}))
  <2>1. IsFiniteSet(InBucket(s, {b})) /\ Cardinality(InBucket(s, {b})) \in Nat
    <3>1. InBucket(s, {b}) \in SUBSET DOMAIN s
      BY DEF InBucket
    <3> QED BY <3>1, Finite
  <2>2. hist.count[b] = Cardinality(InBucket(s, {b}))
    BY DEF Describes
  <2>3. n + 1 \notin InBucket(s, {b})
    BY <1>1 DEF InBucket
  <2>4. CASE b = bl
    <3>1. InBucket(t, {b}) = InBucket(s, {b}) \cup {n + 1}
      BY <1>1, <1>3, <1>4, <2>4 DEF InBucket
    <3>2. Cardinality(InBucket(t, {b})) = Cardinality(InBucket(s, {b})) + 1
      BY <2>1, <2>3, <3>1, FS_AddElement
    <3> QED BY <1>6, <2>2, <2>4, <3>2 DEF Hists
  <2>5. CASE b # bl
    <3>1. InBucket(t, {b}) = InBucket(s, {b})
      BY <1>1, <1>3, <1>4, <2>5 DEF InBucket
    <3> QED BY <1>6, <2>2, <2>5, <3>1 DEF Hists
  <2> QED BY <2>4, <2>5
<1>8. ASSUME NEW m \in Nat, \A i \in DOMAIN t : t[i] <= m
      PROVE  h.sum_us <= m * (n + 1)
  <2>1. l <= m /\ \A i \in DOMAIN s : s[i] <= m
    BY <1>1, <1>3, <1>8
  <2>2. hist.sum_us <= m * n
    BY <1>1, <2>1 DEF Describes
  <2>3. m * (n + 1) = m * n + m /\ m * n \in Nat
    OBVIOUS
  <2>4. hist.sum_us \in Nat
    BY DEF Describes
  <2> QED BY <1>6, <2>1, <2>2, <2>3, <2>4
<1>9. ASSUME NEW m \in Nat, \A i \in DOMAIN t : m <= t[i]
      PROVE  m * (n + 1) <= h.sum_us
  <2>1. m <= l /\ \A i \in DOMAIN s : m <= s[i]
    BY <1>1, <1>3, <1>9
  <2>2. m * n <= hist.sum_us
    BY <1>1, <2>1 DEF Describes
  <2>3. m * (n + 1) = m * n + m /\ m * n \in Nat
    OBVIOUS
  <2>4. hist.sum_us \in Nat
    BY DEF Describes
  <2> QED BY <1>6, <2>1, <2>2, <2>3, <2>4
<1>10. h.total = Len(t)
  BY <1>1, <1>3, <1>6 DEF Describes
<1>11. Describes(h, t)
  BY <1>3, <1>6, <1>7, <1>8, <1>9, <1>10 DEF Describes, Hists
<1> QED BY <1>2, <1>5, <1>6, <1>11

LEMMA Shifted ==
  ASSUME NEW m \in Nat, NEW x \in SUBSET (1 .. m), NEW n \in Nat
  PROVE  /\ IsFiniteSet({n + i : i \in x})
         /\ Cardinality({n + i : i \in x}) = Cardinality(x)
<1>1. IsFiniteSet(x)
  <2>1. 1 \in Int /\ m \in Int
    OBVIOUS
  <2>2. IsFiniteSet(1 .. m)
    BY <2>1, FS_Interval
  <2> QED BY <2>2, FS_Subset
<1> DEFINE y == {n + i : i \in x}
           f == [i \in x |-> n + i]
<1>2. f \in [x -> y]
  OBVIOUS
<1>3. f \in Injection(x, y)
  BY <1>2 DEF Injection, IsInjective
<1>4. f \in Surjection(x, y)
  BY <1>2 DEF Surjection
<1>5. ExistsBijection(x, y)
  BY <1>3, <1>4 DEF ExistsBijection, Bijection
<1> QED BY <1>1, <1>5, FS_Bijection

LEMMA DescribesSum ==
  ASSUME NEW a \in Hists, NEW s \in Seq(Nat), Describes(a, s),
         NEW b \in Hists, NEW t \in Seq(Nat), Describes(b, t)
  PROVE  HistSum(a, b) \in Hists /\ Describes(HistSum(a, b), s \o t)
<1>1. PICK n \in Nat, m \in Nat : /\ n = Len(s) /\ DOMAIN s = 1 .. n
                                  /\ m = Len(t) /\ DOMAIN t = 1 .. m
  <2>1. Len(s) \in Nat /\ DOMAIN s = 1 .. Len(s) /\ Len(t) \in Nat /\ DOMAIN t = 1 .. Len(t)
    OBVIOUS
  <2> QED BY <2>1
<1>2. PICK u \in Seq(Nat) : u = s \o t
  <2>1. s \o t \in Seq(Nat)
    OBVIOUS
  <2> QED BY <2>1
<1>3. /\ Len(u) = n + m /\ DOMAIN u = 1 .. n + m
      /\ \A i \in 1 .. n : u[i] = s[i]
      /\ \A i \in 1 .. m : u[n + i] = t[i]
  BY <1>1, <1>2
<1>4. \A i \in 1 .. n + m : i \in 1 .. n \/ (i - n \in 1 .. m /\ n + (i - n) = i)
  OBVIOUS
<1>5. PICK h : h = HistSum(a, b)
  OBVIOUS
<1>6. /\ \A i \in Buckets : h.count[i] = a.count[i] + b.count[i]
      /\ h.sum_us = a.sum_us + b.sum_us /\ h.total = a.total + b.total /\ h \in Hists
  BY <1>5 DEF HistSum, Hists
<1>7. ASSUME NEW c \in Buckets
      PROVE  h.count[c] = Cardinality(InBucket(u, {c}))
  <2> DEFINE y == {n + i : i \in InBucket(t, {c})}
  <2>1. /\ IsFiniteSet(InBucket(s, {c})) /\ Cardinality(InBucket(s, {c})) \in Nat
        /\ Cardinality(InBucket(t, {c})) \in Nat
    <3>1. InBucket(s, {c}) \in SUBSET DOMAIN s /\ InBucket(t, {c}) \in SUBSET DOMAIN t
      BY DEF InBucket
    <3> QED BY <3>1, Finite
  <2>2. a.count[c] = Cardinality(InBucket(s, {c})) /\ b.count[c] = Cardinality(InBucket(t, {c}))
    BY DEF Describes
  <2>3. IsFiniteSet(y) /\ Cardinality(y) = Cardinality(InBucket(t, {c}))
    <3>1. InBucket(t, {c}) \in SUBSET (1 .. m)
      BY <1>1 DEF InBucket
    <3> QED BY <3>1, Shifted
  <2>4. InBucket(u, {c}) = InBucket(s, {c}) \cup y
    <3>1. ASSUME NEW i \in InBucket(u, {c})
          PROVE  i \in InBucket(s, {c}) \cup y
      <4>1. i \in 1 .. n + m /\ lat_bucket_idx(u[i]) \in {c}
        BY <1>3 DEF InBucket
      <4>2. CASE i \in 1 .. n
        BY <1>1, <1>3, <4>1, <4>2 DEF InBucket
      <4>3. CASE i - n \in 1 .. m /\ n + (i - n) = i
        <5>1. i - n \in InBucket(t, {c})
          BY <1>1, <1>3, <4>1, <4>3 DEF InBucket
        <5> QED BY <4>3, <5>1
      <4> QED BY <1>4, <4>1, <4>2, <4>3
    <3>2. ASSUME NEW i \in InBucket(s, {c})
          PROVE  i \in InBucket(u, {c})
      BY <1>1, <1>3 DEF InBucket
    <3>3. ASSUME NEW i \in InBucket(t, {c})
          PROVE  n + i \in InBucket(u, {c})
      <4>1. i \in 1 .. m /\ n + i \in 1 .. n + m /\ lat_bucket_idx(t[i]) \in {c}
        BY <1>1 DEF InBucket
      <4> QED BY <1>3, <4>1 DEF InBucket
    <3> QED BY <3>1, <3>2, <3>3
  <2>5. InBucket(s, {c}) \cap y = {}
    BY <1>1 DEF InBucket
  <2> HIDE DEF y
  <2>6. Cardinality(InBucket(u, {c})) = Cardinality(InBucket(s, {c})) + Cardinality(y)
    <3>1. Cardinality({}) = 0
      BY FS_EmptySet
    <3>2. PICK x : x = InBucket(s, {c})
      OBVIOUS
    <3>3. IsFiniteSet(x) /\ IsFiniteSet(y) /\ x \cap y = {}
      BY <2>1, <2>3, <2>5, <3>2
    <3>4. Cardinality(x \cup y) = Cardinality(x) + Cardinality(y) - Cardinality(x \cap y)
      BY <3>3, FS_Union
    <3>5. PICK kx \in Nat, ky \in Nat : kx = Cardinality(x) /\ ky = Cardinality(y)
      BY <2>1, <2>3, <3>2
    <3>6. x \cap y = {}
      BY <3>3
    <3>7. Cardinality(x \cup y) = kx + ky - 0
      BY Zenon, <3>1, <3>4, <3>5, <3>6
    <3>8. Cardinality(x \cup y) = kx + ky
      BY <3>7
    <3>9. InBucket(u, {c}) = x \cup y
      BY Zenon, <2>4, <3>2
    <3> QED BY Zenon, <3>2, <3>5, <3>8, <3>9
  <2> QED BY <1>6, <2>2, <2>3, <2>6
<1>8. ASSUME NEW k \in Nat, \A i \in DOMAIN u : u[i] <= k
      PROVE  h.sum_us <= k * (n + m)
  <2>1. (\A i \in DOMAIN s : s[i] <= k) /\ (\A i \in DOMAIN t : t[i] <= k)
    <3>1. \A i \in 1 .. n : i \in 1 .. n + m
      OBVIOUS
    <3>2. \A i \in 1 .. m : n + i \in 1 .. n + m
      OBVIOUS
    <3> QED BY <1>1, <1>3, <1>8, <3>1, <3>2
  <2>2. a.sum_us <= k * n /\ b.sum_us <= k * m
    BY <1>1, <2>1 DEF Describes
  <2>3. k * (n + m) = k * n + k * m /\ k * n \in Nat /\ k * m \in Nat
    OBVIOUS
  <2>4. a.sum_us \in Nat /\ b.sum_us \in Nat
    BY DEF Describes
  <2> QED BY <1>6, <2>2, <2>3, <2>4
<1>9. ASSUME NEW k \in Nat, \A i \in DOMAIN u : k <= u[i]
      PROVE  k * (n + m) <= h.sum_us
  <2>1. (\A i \in DOMAIN s : k <= s[i]) /\ (\A i \in DOMAIN t : k <= t[i])
    <3>1. \A i \in 1 .. n : i \in 1 .. n + m
      OBVIOUS
    <3>2. \A i \in 1 .. m : n + i \in 1 .. n + m
      OBVIOUS
    <3> QED BY <1>1, <1>3, <1>9, <3>1, <3>2
  <2>2. k * n <= a.sum_us /\ k * m <= b.sum_us
    BY <1>1, <2>1 DEF Describes
  <2>3. k * (n + m) = k * n + k * m /\ k * n \in Nat /\ k * m \in Nat
    OBVIOUS
  <2>4. a.sum_us \in Nat /\ b.sum_us \in Nat
    BY DEF Describes
  <2> QED BY <1>6, <2>2, <2>3, <2>4
<1>10. h.total = Len(u)
  BY <1>1, <1>3, <1>6 DEF Describes
<1>11. Describes(h, u)
  BY <1>3, <1>6, <1>7, <1>8, <1>9, <1>10 DEF Describes, Hists
<1> QED BY <1>2, <1>5, <1>6, <1>11

-----------------------------------------------------------------------------
(* What is shown.                                                          *)
LEMMA PercentilesOrdered ==
  ASSUME NEW s \in Seq(Nat), s # << >>
  PROVE  Percentile(s, 50) <= Percentile(s, 99)
<1>1. PICK n \in Nat \ {0} : n = Len(s) /\ DOMAIN s = 1 .. n
  OBVIOUS
<1>2. /\ IsPercentile(s, 50, Percentile(s, 50)) /\ Percentile(s, 50) \in Nat
      /\ IsPercentile(s, 99, Percentile(s, 99)) /\ Percentile(s, 99) \in Nat
  BY PercentileIs
<1>3. PICK p \in Nat, q \in Nat : p = Percentile(s, 50) /\ q = Percentile(s, 99)
  BY <1>2
<1> SUFFICES ASSUME q < p
             PROVE  FALSE
  BY <1>3
<1>4. UpTo(s, q) \in SUBSET Below(s, p) /\ Below(s, p) \in SUBSET DOMAIN s
  <2>1. \A i \in 1 .. n : s[i] \in Nat
    BY <1>1
  <2>2. \A i \in 1 .. n : s[i] <= q => s[i] < p
    BY <2>1
  <2> QED BY <1>1, <2>2 DEF UpTo, Below
<1>5. /\ Cardinality(UpTo(s, q)) <= Cardinality(Below(s, p))
      /\ Cardinality(UpTo(s, q)) \in Nat /\ Cardinality(Below(s, p)) \in Nat
  <2>1. UpTo(s, q) \in SUBSET DOMAIN s
    BY <1>4
  <2> QED BY <1>4, <2>1, Finite
<1>6. 100 * Cardinality(UpTo(s, q)) >= 99 * n /\ 100 * Cardinality(Below(s, p)) < 50 * n
  BY <1>1, <1>2, <1>3 DEF IsPercentile
<1> QED BY <1>5, <1>6

LEMMA FiguresOf ==
  ASSUME NEW s \in Seq(Nat), NEW hist, Describes(hist, s)
  PROVE  IF s = << >> THEN Figures(hist) = NoFigures
         ELSE /\ Figures(hist).p50 = lat_bucket_value(lat_bucket_idx(Percentile(s, 50)))
              /\ Figures(hist).p99 = lat_bucket_value(lat_bucket_idx(Percentile(s, 99)))
              /\ Figures(hist).ratio <= 100
              /\ Min(ToSet(s)) <= Figures(hist).avg
              /\ Figures(hist).avg <= Max(ToSet(s))
<1>1. PICK n \in Nat : n = Len(s) /\ DOMAIN s = 1 .. n
  OBVIOUS
<1>2. hist.total = n /\ hist.sum_us \in Nat
  BY <1>1 DEF Describes
<1>3. CASE s = << >>
  BY <1>1, <1>2, <1>3 DEF Figures
<1>4. CASE s # << >>
  <2>0. n > 0
    BY <1>1, <1>4
  <2>1. PICK p50, p99 : p50 = hist_percentile(hist, 50) /\ p99 = hist_percentile(hist, 99)
    OBVIOUS
  <2>2. Figures(hist) = [p50 |-> p50, p99 |-> p99, avg |-> hist.sum_us \div n,
                         ratio |-> IF p99 = 0 THEN 0 ELSE (p50 * 100) \div p99]
    BY <1>2, <2>0, <2>1 DEF Figures
  <2>3. /\ p50 = lat_bucket_value(lat_bucket_idx(Percentile(s, 50)))
        /\ p99 = lat_bucket_value(lat_bucket_idx(Percentile(s, 99)))
    BY <1>4, <2>1, HistPercentile
  <2>4. p50 \in Nat /\ p99 \in Nat /\ p50 <= p99
    <3>1. Percentile(s, 50) \in Nat /\ Percentile(s, 99) \in Nat
      BY <1>4, PercentileIs
    <3>2. PICK i \in Nat, j \in Nat : /\ i = lat_bucket_idx(Percentile(s, 50))
                                      /\ j = lat_bucket_idx(Percentile(s, 99)) /\ i <= j
      <4>1. /\ lat_bucket_idx(Percentile(s, 50)) \in Nat
            /\ lat_bucket_idx(Percentile(s, 99)) \in Nat
        BY <3>1, BucketOf DEF Buckets
      <4>2. lat_bucket_idx(Percentile(s, 50)) <= lat_bucket_idx(Percentile(s, 99))
        BY <1>4, <3>1, PercentilesOrdered, BucketsGrow
      <4> QED BY <4>1, <4>2
    <3>3. 2 ^ i \in Nat /\ 2 ^ j \in Nat /\ 2 ^ i <= 2 ^ j
      BY <3>2, TwoTo
    <3> QED BY <2>3, <3>2, <3>3 DEF lat_bucket_value
  <2>5. Figures(hist).ratio <= 100
    <3>1. CASE p99 = 0
      BY <2>2, <3>1
    <3>2. CASE p99 # 0
      <4>1. p99 > 0 /\ p50 * 100 \in Nat /\ 100 * p99 \in Nat /\ p50 * 100 <= 100 * p99
        BY <2>4, <3>2
      <4>2. (p50 * 100) \div p99 <= (100 * p99) \div p99
        BY <2>4, <4>1, QuotientGrows
      <4>3. (100 * p99) \div p99 = 100
        BY <2>4, <4>1, QuotientOfMultiple
      <4> QED BY <2>2, <3>2, <4>2, <4>3
    <3> QED BY <3>1, <3>2
  <2>6. ToSet(s) = {s[i] : i \in 1 .. n} /\ ToSet(s) \in SUBSET Nat /\ ToSet(s) # {}
    <3>1. \A i \in 1 .. n : s[i] \in Nat
      BY <1>1
    <3> QED BY <1>1, <2>0, <3>1 DEF ToSet
  <2>7. PICK least \in Nat : least = Min(ToSet(s)) /\ \A y \in ToSet(s) : least <= y
    BY <2>6, MinOf
  <2>8. PICK most \in Nat : most = Max(ToSet(s)) /\ \A y \in ToSet(s) : y <= most
    <3>1. PICK m \in Nat : \A i \in DOMAIN s : s[i] <= m
      BY Bounded
    <3>2. ToSet(s) \in SUBSET (0 .. m)
      BY <1>1, <2>6, <3>1
    <3> QED BY <2>6, <3>2, MaxOf
  <2>9. least * n <= hist.sum_us /\ hist.sum_us <= most * n
    <3>1. \A i \in DOMAIN s : least <= s[i] /\ s[i] <= most
      BY <1>1, <2>6, <2>7, <2>8
    <3> QED BY <1>1, <3>1 DEF Describes
  <2>10. least * n \in Nat /\ most * n \in Nat
    OBVIOUS
  <2>11. (least * n) \div n <= hist.sum_us \div n /\ hist.sum_us \div n <= (most * n) \div n
    BY <1>2, <2>0, <2>9, <2>10, QuotientGrows
  <2>12. (least * n) \div n = least /\ (most * n) \div n = most
    BY <2>0, QuotientOfMultiple
  <2> QED BY <1>4, <2>2, <2>3, <2>5, <2>7, <2>8, <2>11, <2>12
<1> QED BY <1>3, <1>4

-----------------------------------------------------------------------------
(* The invariant: every histogram describes the latencies that the ghost   *)
(* next to it keeps, and what is shown are the figures of one.             *)
StatsInv ==
  /\ cur_bucket \in [CPUs -> [Ops -> Hists]]
  /\ fresh \in [CPUs -> [Ops -> Seq(Nat)]]
  /\ \A c \in CPUs : \A o \in Ops : Describes(cur_bucket[c][o], fresh[c][o])
  /\ rolled \in [Ops -> Hists] /\ taken \in [Ops -> Seq(Nat)]
  /\ \A o \in Ops : Describes(rolled[o], taken[o])
  /\ shown \in [Ops -> Seq(Nat)]
  /\ \A o \in Ops : \E hist : Describes(hist, shown[o]) /\ last_bucket[o] = Figures(hist)

LEMMA StatsInitially == StatsInit => StatsInv
<1> SUFFICES ASSUME StatsInit
             PROVE  StatsInv
  OBVIOUS
<1>1. Empty \in Hists /\ Describes(Empty, << >>) /\ << >> \in Seq(Nat)
  BY DescribesEmpty
<1>2. Figures(Empty) = NoFigures
  BY DEF Figures, Empty
<1>3. \A o \in Ops : Describes(Empty, shown[o]) /\ last_bucket[o] = Figures(Empty)
  BY <1>1, <1>2 DEF StatsInit
<1> QED BY <1>1, <1>3 DEF StatsInit, StatsInv

LEMMA AddKeeps ==
  ASSUME StatsInv, NEW c \in CPUs, NEW o \in Ops, NEW l \in Latencies, CurBucketAdd(c, o, l)
  PROVE  StatsInv'
<1>1. PICK hist \in Hists, s \in Seq(Nat) :
         hist = cur_bucket[c][o] /\ s = fresh[c][o] /\ Describes(hist, s)
  BY DEF StatsInv
<1>2. PICK h \in Hists, t \in Seq(Nat) :
         h = hist_add(hist, l) /\ t = Append(s, l) /\ Describes(h, t)
  <2>1. l \in Nat
    BY WindowAssumption
  <2>2. hist_add(hist, l) \in Hists /\ Describes(hist_add(hist, l), Append(s, l))
    BY <1>1, <2>1, DescribesAdd
  <2>3. Append(s, l) \in Seq(Nat)
    BY <2>1
  <2> QED BY <2>2, <2>3
<1>3. /\ cur_bucket' = [cur_bucket EXCEPT ![c][o] = h]
      /\ fresh' = [fresh EXCEPT ![c][o] = t]
  BY <1>1, <1>2 DEF CurBucketAdd
<1>4. /\ cur_bucket' \in [CPUs -> [Ops -> Hists]]
      /\ fresh' \in [CPUs -> [Ops -> Seq(Nat)]]
  BY <1>3 DEF StatsInv
<1>5. ASSUME NEW d \in CPUs, NEW p \in Ops
      PROVE  Describes(cur_bucket'[d][p], fresh'[d][p])
  <2>1. CASE d = c /\ p = o
    <3>1. cur_bucket'[d][p] = h /\ fresh'[d][p] = t
      BY <1>3, <2>1 DEF StatsInv
    <3> QED BY <1>2, <3>1
  <2>2. CASE ~(d = c /\ p = o)
    <3>1. cur_bucket'[d][p] = cur_bucket[d][p] /\ fresh'[d][p] = fresh[d][p]
      BY <1>3, <2>2 DEF StatsInv
    <3>2. Describes(cur_bucket[d][p], fresh[d][p])
      BY DEF StatsInv
    <3> QED BY <3>1, <3>2
  <2> QED BY <2>1, <2>2
<1>6. UNCHANGED <<rolled, taken, shown, last_bucket>>
  BY DEF CurBucketAdd
<1> QED BY <1>4, <1>5, <1>6 DEF StatsInv

LEMMA RollBeginKeeps ==
  ASSUME StatsInv, RollBegin
  PROVE  StatsInv'
<1>1. Empty \in Hists /\ Describes(Empty, << >>) /\ << >> \in Seq(Nat)
  BY DescribesEmpty
<1>2. /\ rolled' = [o \in Ops |-> Empty] /\ taken' = [o \in Ops |-> << >>]
      /\ UNCHANGED <<cur_bucket, last_bucket, fresh, shown>>
  BY DEF RollBegin
<1> QED BY <1>1, <1>2 DEF StatsInv

LEMMA RollCpuKeeps ==
  ASSUME StatsInv, NEW c \in CPUs, RollCpu(c)
  PROVE  StatsInv'
<1>1. Empty \in Hists /\ Describes(Empty, << >>) /\ << >> \in Seq(Nat)
  BY DescribesEmpty
<1>2. /\ rolled' = [o \in Ops |-> HistSum(rolled[o], cur_bucket[c][o])]
      /\ taken' = [o \in Ops |-> taken[o] \o fresh[c][o]]
      /\ cur_bucket' = [cur_bucket EXCEPT ![c] = [o \in Ops |-> Empty]]
      /\ fresh' = [fresh EXCEPT ![c] = [o \in Ops |-> << >>]]
      /\ UNCHANGED <<last_bucket, shown>>
  BY DEF RollCpu, Reset
<1>3. ASSUME NEW o \in Ops
      PROVE  /\ rolled'[o] \in Hists /\ taken'[o] \in Seq(Nat)
             /\ Describes(rolled'[o], taken'[o])
  <2>1. /\ rolled[o] \in Hists /\ taken[o] \in Seq(Nat) /\ Describes(rolled[o], taken[o])
        /\ cur_bucket[c][o] \in Hists /\ fresh[c][o] \in Seq(Nat)
        /\ Describes(cur_bucket[c][o], fresh[c][o])
    BY DEF StatsInv
  <2>2. /\ HistSum(rolled[o], cur_bucket[c][o]) \in Hists
        /\ Describes(HistSum(rolled[o], cur_bucket[c][o]), taken[o] \o fresh[c][o])
    BY <2>1, DescribesSum
  <2>3. taken[o] \o fresh[c][o] \in Seq(Nat)
    BY <2>1
  <2> QED BY <1>2, <2>2, <2>3
<1>4. rolled' \in [Ops -> Hists] /\ taken' \in [Ops -> Seq(Nat)]
  BY <1>2, <1>3
<1>5. /\ cur_bucket' \in [CPUs -> [Ops -> Hists]]
      /\ fresh' \in [CPUs -> [Ops -> Seq(Nat)]]
  BY <1>1, <1>2 DEF StatsInv
<1>6. ASSUME NEW d \in CPUs, NEW o \in Ops
      PROVE  Describes(cur_bucket'[d][o], fresh'[d][o])
  <2>1. CASE d = c
    <3>1. cur_bucket'[d][o] = Empty /\ fresh'[d][o] = << >>
      BY <1>2, <2>1 DEF StatsInv
    <3> QED BY <1>1, <3>1
  <2>2. CASE d # c
    <3>1. cur_bucket'[d][o] = cur_bucket[d][o] /\ fresh'[d][o] = fresh[d][o]
      BY <1>2, <2>2 DEF StatsInv
    <3>2. Describes(cur_bucket[d][o], fresh[d][o])
      BY DEF StatsInv
    <3> QED BY <3>1, <3>2
  <2> QED BY <2>1, <2>2
<1> QED BY <1>2, <1>3, <1>4, <1>5, <1>6 DEF StatsInv

(* The window has requests in the histograms when it has them at all.      *)
LEMMA RollEndKeeps ==
  ASSUME StatsInv, RollEnd
  PROVE  StatsInv'
<1>1. \A o \in Ops : rolled[o].total > 0 <=> taken[o] # << >>
  <2> SUFFICES ASSUME NEW o \in Ops
               PROVE  rolled[o].total > 0 <=> taken[o] # << >>
    OBVIOUS
  <2>1. taken[o] \in Seq(Nat) /\ rolled[o].total = Len(taken[o])
    BY DEF StatsInv, Describes
  <2> QED BY <2>1
<1>2. /\ last_bucket' = Published
      /\ shown' = IF \E o \in Ops : taken[o] # << >> THEN taken ELSE shown
      /\ UNCHANGED <<cur_bucket, rolled, fresh, taken>>
  BY DEF RollEnd
<1>3. CASE \E o \in Ops : taken[o] # << >>
  <2>1. last_bucket' = [o \in Ops |-> Figures(rolled[o])] /\ shown' = taken
    BY <1>1, <1>2, <1>3 DEF Published
  <2>2. \A o \in Ops : Describes(rolled[o], shown'[o]) /\ last_bucket'[o] = Figures(rolled[o])
    BY <2>1 DEF StatsInv
  <2>3. \A o \in Ops : \E hist : Describes(hist, shown'[o]) /\ last_bucket'[o] = Figures(hist)
    BY <2>2
  <2> QED BY <1>2, <2>1, <2>3 DEF StatsInv
<1>4. CASE ~\E o \in Ops : taken[o] # << >>
  <2>1. last_bucket' = last_bucket /\ shown' = shown
    BY <1>1, <1>2, <1>4 DEF Published
  <2> QED BY <1>2, <2>1 DEF StatsInv
<1> QED BY <1>3, <1>4

LEMMA StatsStep == StatsInv /\ [StatsNext]_statsVars => StatsInv'
<1> SUFFICES ASSUME StatsInv, [StatsNext]_statsVars
             PROVE  StatsInv'
  OBVIOUS
<1>1. ASSUME NEW c \in CPUs, NEW o \in Ops, NEW l \in Latencies, CurBucketAdd(c, o, l)
      PROVE  StatsInv'
  BY <1>1, AddKeeps
<1>2. ASSUME NEW on \in BOOLEAN, SetRaw(on)
      PROVE  StatsInv'
  BY <1>2 DEF SetRaw, StatsInv
<1>3. CASE RollBegin
  BY <1>3, RollBeginKeeps
<1>4. ASSUME NEW c \in CPUs, RollCpu(c)
      PROVE  StatsInv'
  BY <1>4, RollCpuKeeps
<1>5. CASE RollEnd
  BY <1>5, RollEndKeeps
<1>6. CASE UNCHANGED statsVars
  BY <1>6 DEF statsVars, StatsInv
<1> QED BY <1>1, <1>2, <1>3, <1>4, <1>5, <1>6 DEF StatsNext

LEMMA StatsInvGives == StatsInv => FiguresTrue
<1> SUFFICES ASSUME StatsInv
             PROVE  FiguresTrue
  OBVIOUS
<1>1. ASSUME NEW o \in Ops
      PROVE  IF shown[o] = << >> THEN last_bucket[o] = NoFigures
             ELSE /\ last_bucket[o].p50 = lat_bucket_value(lat_bucket_idx(Percentile(shown[o], 50)))
                  /\ last_bucket[o].p99 = lat_bucket_value(lat_bucket_idx(Percentile(shown[o], 99)))
                  /\ last_bucket[o].ratio <= 100
                  /\ Min(ToSet(shown[o])) <= last_bucket[o].avg
                  /\ last_bucket[o].avg <= Max(ToSet(shown[o]))
  <2>1. PICK hist : Describes(hist, shown[o]) /\ last_bucket[o] = Figures(hist)
    BY DEF StatsInv
  <2>2. shown[o] \in Seq(Nat)
    BY DEF StatsInv
  <2>3. PICK s \in Seq(Nat) : s = shown[o] /\ Describes(hist, s)
    BY <2>1, <2>2
  <2> QED BY <2>1, <2>3, FiguresOf
<1>2. PercentilesTrue
  BY <1>1 DEF PercentilesTrue
<1>3. AnyPercentileTrue
  <2>1. ASSUME NEW o \in Ops, taken[o] # << >>, NEW pct \in 1 .. 100
        PROVE  hist_percentile(rolled[o], pct) =
                 lat_bucket_value(lat_bucket_idx(Percentile(taken[o], pct)))
    <3>1. PICK s \in Seq(Nat), hist \in Hists : s = taken[o] /\ hist = rolled[o] /\ Describes(hist, s)
      BY DEF StatsInv
    <3>2. s # << >>
      BY <2>1, <3>1
    <3>3. hist_percentile(hist, pct) = lat_bucket_value(lat_bucket_idx(Percentile(s, pct)))
      BY <3>1, <3>2, HistPercentile
    <3> QED BY <3>1, <3>3
  <2>2. PICK pcts : pcts = {1, 20, 25, 34, 50, 51, 67, 75, 99, 100}
    OBVIOUS
  <2>3. \A pct \in pcts : pct \in 1 .. 100
    BY <2>2
  <2>4. \A o \in Ops : taken[o] # << >> =>
          \A pct \in pcts :
             hist_percentile(rolled[o], pct) =
               lat_bucket_value(lat_bucket_idx(Percentile(taken[o], pct)))
    BY <2>1, <2>3
  <2> QED BY Zenon, <2>2, <2>4 DEF AnyPercentileTrue
<1>4. AverageWithin
  BY <1>1 DEF AverageWithin
<1> QED BY <1>2, <1>3, <1>4 DEF FiguresTrue

(* The figures of a window (cur_bucket_add, roll_completed_bucket,         *)
(* hist_percentile) are true for any CPUs, any latencies and any number of *)
(* buckets: the histograms, rolled CPU by CPU while requests complete,     *)
(* find the bucket of the true percentile of what one window saw, and its  *)
(* average lies within it.                                                 *)
THEOREM FiguresAlwaysTrue == StatsSpec => []FiguresTrue
<1>1. StatsInit => StatsInv
  BY StatsInitially
<1>2. StatsInv /\ [StatsNext]_statsVars => StatsInv'
  BY StatsStep
<1>3. StatsInv => FiguresTrue
  BY StatsInvGives
<1> QED BY <1>1, <1>2, <1>3, PTL DEF StatsSpec

-----------------------------------------------------------------------------
(* 6. Budgets of the page-cache demonstration: multiples of the budget.    *)

LEMMA BudgetConstants ==
  /\ Budget \in Nat /\ Budget >= 1 /\ Window \in Nat /\ Window >= 1
  /\ BudgetInodes \in Nat /\ BudgetInodes >= 1
  /\ MaxBudgetLate \in Nat /\ 2 * MaxBudgetLate <= Window
  /\ CounterWrap \in Nat /\ CounterWrap > Budget
BY BudgetAssumption

LEMMA Multiples ==
  ASSUME NEW b \in Nat, NEW j \in Nat, NEW k \in Nat
  PROVE  /\ j * b \in Nat /\ (j + k) * b = j * b + k * b
         /\ j <= k => j * b <= k * b
         /\ j + 1 <= k => j * b + b <= k * b
<1>1. j * b \in Nat /\ (j + k) * b = j * b + k * b
  OBVIOUS
<1>2. ASSUME j <= k
      PROVE  j * b <= k * b
  <2>1. PICK d \in Nat : k = j + d
    <3>1. k - j \in Nat /\ k = j + (k - j)
      BY <1>2
    <3> QED BY <3>1
  <2>2. k * b = j * b + d * b /\ d * b \in Nat
    BY <2>1
  <2> QED BY <1>1, <2>2
<1>3. ASSUME j + 1 <= k
      PROVE  j * b + b <= k * b
  <2>1. PICK d \in Nat : k = j + 1 + d
    <3>1. k - (j + 1) \in Nat /\ k = j + 1 + (k - (j + 1))
      BY <1>3
    <3> QED BY <3>1
  <2>2. k * b = j * b + b + d * b /\ d * b \in Nat
    BY <2>1
  <2> QED BY <1>1, <2>2
<1> QED BY <1>1, <1>2, <1>3

-----------------------------------------------------------------------------
(* What the watched pair was granted.  P[i] are the bytes of the last i    *)
(* ticks.                                                                  *)
PrefixOf(P, g) ==
  /\ P \in [0 .. Window -> Nat]
  /\ P[0] = 0
  /\ \A i \in Ages : P[i + 1] = P[i] + g[i]

All == Cardinality(Shrinkers)

\* The bounds of what was granted, from the watched entry: the ticks that no
\* restart of its window reaches saw no more than the window used; those after
\* m no more than a budget and what the shrinkers but free of them left over
\* can have restarted since a window followed another; and all of them the
\* restarts of that one besides.
Held(P, now, start, used, m, free) ==
  /\ m <= start
  /\ \A i \in 0 .. Window :
       /\ now + 1 - i > start + MaxBudgetLate => P[i] <= used
       /\ now + 1 - i > m => P[i] <= free * Budget + used
       /\ P[i] <= (All + free) * Budget + used

\* Q counts b more bytes than P in the present tick.
Adds(P, Q, b) == P[0] = 0 /\ Q[0] = 0 /\ \A i \in 1 .. Window : Q[i] = P[i] + b

LEMMA MoreBy ==
  ASSUME NEW P \in [0 .. Window -> Nat], NEW Q \in [0 .. Window -> Nat], NEW b \in Nat,
         Adds(P, Q, b),
         NEW i \in 0 .. Window
  PROVE  P[i] \in Nat /\ Q[i] \in Nat /\ Q[i] <= P[i] + b
<1>1. P[i] \in Nat /\ Q[i] \in Nat
  OBVIOUS
<1>2. CASE i = 0
  BY <1>2 DEF Adds
<1>3. CASE i # 0
  <2>1. i \in 1 .. Window
    BY <1>3, BudgetConstants
  <2> QED BY <1>1, <2>1 DEF Adds
<1> QED BY <1>1, <1>2, <1>3

LEMMA HeldGranted ==
  ASSUME NEW P \in [0 .. Window -> Nat], NEW Q \in [0 .. Window -> Nat], NEW b \in Nat,
         Adds(P, Q, b),
         NEW now \in Nat, NEW start \in Nat, NEW used \in Nat, NEW m \in Int,
         All \in Nat, NEW free \in Nat, NEW free2 \in Nat, free <= free2,
         Held(P, now, start, used, m, free)
  PROVE  Held(Q, now, start, used + b, m, free2)
<1> SUFFICES ASSUME NEW i \in 0 .. Window
             PROVE  /\ now + 1 - i > start + MaxBudgetLate => Q[i] <= used + b
                    /\ now + 1 - i > m => Q[i] <= free2 * Budget + (used + b)
                    /\ Q[i] <= (All + free2) * Budget + (used + b)
  BY DEF Held
<1>1. PICK f \in Nat, f2 \in Nat, all \in Nat :
        /\ f = free * Budget /\ f2 = free2 * Budget /\ f <= f2
        /\ all + f = (All + free) * Budget /\ all + f2 = (All + free2) * Budget
  BY BudgetConstants, Multiples
<1>2. /\ now + 1 - i > start + MaxBudgetLate => P[i] <= used
      /\ now + 1 - i > m => P[i] <= f + used
      /\ P[i] <= all + f + used
  BY <1>1 DEF Held
<1>3. PICK p \in Nat, q \in Nat : p = P[i] /\ q = Q[i] /\ q <= p + b
  BY MoreBy
<1>4. f <= f2
  BY <1>1
<1>5. /\ now + 1 - i > start + MaxBudgetLate => q <= used + b
      /\ now + 1 - i > m => q <= f2 + (used + b)
      /\ q <= all + f2 + (used + b)
  BY <1>2, <1>3, <1>4
<1> QED BY <1>1, <1>3, <1>5

(* A late shrinker restarts the window before where it began.              *)
LEMMA HeldRestarted ==
  ASSUME NEW P \in [0 .. Window -> Nat], NEW Q \in [0 .. Window -> Nat], NEW b \in Nat,
         Adds(P, Q, b),
         NEW now \in Nat, NEW start \in Nat, NEW used \in Nat, used <= Budget, NEW m \in Int,
         All \in Nat, NEW free \in Nat, NEW free2 \in Nat, free + 1 <= free2,
         Held(P, now, start, used, m, free),
         NEW at \in Nat, m <= at, now - at <= MaxBudgetLate
  PROVE  Held(Q, now, at, b, m, free2)
<1> SUFFICES ASSUME NEW i \in 0 .. Window
             PROVE  /\ now + 1 - i > at + MaxBudgetLate => Q[i] <= b
                    /\ now + 1 - i > m => Q[i] <= free2 * Budget + b
                    /\ Q[i] <= (All + free2) * Budget + b
  BY DEF Held
<1>1. PICK f \in Nat, f2 \in Nat, all \in Nat :
        /\ f = free * Budget /\ f2 = free2 * Budget /\ f + Budget <= f2
        /\ all + f = (All + free) * Budget /\ all + f2 = (All + free2) * Budget
  BY BudgetConstants, Multiples
<1>2. /\ now + 1 - i > m => P[i] <= f + used
      /\ P[i] <= all + f + used
  BY <1>1 DEF Held
<1>3. PICK p \in Nat, q \in Nat : p = P[i] /\ q = Q[i] /\ q <= p + b
  BY MoreBy
<1>4. now + 1 - i > at + MaxBudgetLate => Q[i] <= b
  BY BudgetConstants DEF Adds
<1>5. f + Budget <= f2 /\ Budget \in Nat
  BY <1>1, BudgetConstants
<1>6. /\ now + 1 - i > m => q <= f2 + b
      /\ q <= all + f2 + b
  BY <1>2, <1>3, <1>5
<1> QED BY <1>1, <1>3, <1>4, <1>6

(* A window follows one that is over.                                      *)
LEMMA HeldFollowed ==
  ASSUME NEW P \in [0 .. Window -> Nat], NEW Q \in [0 .. Window -> Nat], NEW b \in Nat,
         Adds(P, Q, b),
         NEW now \in Nat, NEW start \in Nat, NEW used \in Nat, used <= Budget, NEW m \in Int,
         All \in Nat, NEW free \in Nat, free <= All, NEW free2 \in Nat, 1 <= free2,
         Held(P, now, start, used, m, free),
         NEW at \in Nat, at - start >= Window, at <= now, now - at <= MaxBudgetLate
  PROVE  Held(Q, now, at, b, start + MaxBudgetLate, free2)
<1>0. start + MaxBudgetLate <= at
  BY BudgetConstants
<1> SUFFICES ASSUME NEW i \in 0 .. Window
             PROVE  /\ now + 1 - i > at + MaxBudgetLate => Q[i] <= b
                    /\ now + 1 - i > start + MaxBudgetLate => Q[i] <= free2 * Budget + b
                    /\ Q[i] <= (All + free2) * Budget + b
  BY <1>0 DEF Held
<1>1. PICK f \in Nat, f2 \in Nat, all \in Nat :
        /\ f = free * Budget /\ f2 = free2 * Budget /\ all = All * Budget
        /\ f <= all /\ Budget <= f2 /\ all + f2 = (All + free2) * Budget
  <2>1. 1 * Budget <= free2 * Budget
    BY BudgetConstants, Multiples
  <2>2. 1 * Budget = Budget
    BY BudgetConstants
  <2> QED BY <2>1, <2>2, BudgetConstants, Multiples
<1>2. /\ now + 1 - i > start + MaxBudgetLate => P[i] <= used
      /\ now + 1 - i > m => P[i] <= f + used
      /\ m <= start
  BY <1>1 DEF Held
<1>3. PICK p \in Nat, q \in Nat : p = P[i] /\ q = Q[i] /\ q <= p + b
  BY MoreBy
<1>4. now + 1 - i > at + MaxBudgetLate => Q[i] <= b
  BY BudgetConstants DEF Adds
<1>5. now + 1 - i > m
  BY <1>2, BudgetConstants
<1>6. f <= all /\ Budget <= f2 /\ Budget \in Nat
  BY <1>1, BudgetConstants
<1>7. /\ now + 1 - i > start + MaxBudgetLate => q <= f2 + b
      /\ q <= all + f2 + b
  BY <1>2, <1>3, <1>5, <1>6
<1> QED BY <1>1, <1>3, <1>4, <1>7

(* The first window of the pair.                                           *)
LEMMA HeldFirst ==
  ASSUME NEW Q \in [0 .. Window -> Nat], NEW b \in Nat,
         Q[0] = 0, \A i \in 1 .. Window : Q[i] = b,
         NEW now \in Nat, All \in Nat, NEW free \in Nat,
         NEW at \in Nat, at <= now, now - at <= MaxBudgetLate
  PROVE  Held(Q, now, at, b, now - MaxBudgetLate, free)
<1> SUFFICES ASSUME NEW i \in 0 .. Window
             PROVE  /\ now + 1 - i > at + MaxBudgetLate => Q[i] <= b
                    /\ now + 1 - i > now - MaxBudgetLate => Q[i] <= free * Budget + b
                    /\ Q[i] <= (All + free) * Budget + b
  BY BudgetConstants DEF Held
<1>1. free * Budget \in Nat /\ (All + free) * Budget \in Nat
  BY BudgetConstants, Multiples
<1>2. Q[i] <= b /\ Q[i] \in Nat
  BY BudgetConstants
<1> QED BY <1>1, <1>2

LEMMA HeldTick ==
  ASSUME NEW P \in [0 .. Window -> Nat], NEW Q \in [0 .. Window -> Nat],
         Q[0] = 0, \A i \in 1 .. Window : Q[i] = P[i - 1],
         NEW now \in Nat, NEW start \in Nat, NEW used \in Nat, NEW m \in Int,
         All \in Nat, NEW free \in Nat,
         Held(P, now, start, used, m, free)
  PROVE  Held(Q, now + 1, start, used, m, free)
<1> SUFFICES ASSUME NEW i \in 0 .. Window
             PROVE  /\ (now + 1) + 1 - i > start + MaxBudgetLate => Q[i] <= used
                    /\ (now + 1) + 1 - i > m => Q[i] <= free * Budget + used
                    /\ Q[i] <= (All + free) * Budget + used
  BY DEF Held
<1>1. free * Budget \in Nat /\ (All + free) * Budget \in Nat
  BY BudgetConstants, Multiples
<1>2. CASE i = 0
  BY <1>1, <1>2
<1>3. CASE i # 0
  <2>1. i - 1 \in 0 .. Window /\ i \in 1 .. Window /\ (now + 1) + 1 - i = now + 1 - (i - 1)
    BY <1>3, BudgetConstants
  <2>2. /\ now + 1 - (i - 1) > start + MaxBudgetLate => P[i - 1] <= used
        /\ now + 1 - (i - 1) > m => P[i - 1] <= free * Budget + used
        /\ P[i - 1] <= (All + free) * Budget + used
    BY <2>1 DEF Held
  <2> QED BY <2>1, <2>2
<1> QED BY <1>2, <1>3

-----------------------------------------------------------------------------
(* The sum that GrantsBounded takes is the last of the partial ones.       *)
LEMMA AgesFinite == IsFiniteSet(Ages) /\ 0 \in Ages /\ Ages \in SUBSET Nat
<1>1. IsFiniteSet(0 .. Window - 1)
  BY BudgetConstants, FS_Interval
<1> QED BY <1>1, BudgetConstants DEF Ages

LEMMA SumsExist ==
  ASSUME NEW S, IsFiniteSet(S), NEW g \in [S -> Nat]
  PROVE  \E total : Sums(S, g, total)
<1>1. PICK h \in [SUBSET S -> Nat] : AddsUp(h, S, g)
  BY Zenon, SumSteps
<1>2. Sums(S, g, h[S])
  BY Zenon, <1>1, SumIsNat
<1> QED BY <1>2

LEMMA PrefixIsSum ==
  ASSUME NEW P, NEW g \in [Ages -> Nat], PrefixOf(P, g), NEW total, Sums(Ages, g, total)
  PROVE  total = P[Window]
<1> DEFINE upTo(i) == [a \in Ages |-> IF a < i THEN g[a] ELSE 0]
           holds == {i \in Nat : i <= Window => \A t : Sums(Ages, upTo(i), t) => t = P[i]}
<1>0. /\ P \in [0 .. Window -> Nat] /\ P[0] = 0
      /\ \A i \in Ages : P[i + 1] = P[i] + g[i]
  BY DEF PrefixOf
<1>1. 0 \in holds
  <2>1. \A a \in Ages : upTo(0)[a] = 0
    BY BudgetConstants DEF Ages
  <2>2. \A t : Sums(Ages, upTo(0), t) => t = 0
    <3> HIDE DEF upTo
    <3> QED BY <2>1, AgesFinite, SumsOfNothing
  <2> QED BY <1>0, <2>2
<1>2. ASSUME NEW i \in Nat, i \in holds
      PROVE  i + 1 \in holds
  <2> SUFFICES ASSUME i + 1 <= Window, NEW t, Sums(Ages, upTo(i + 1), t)
               PROVE  t = P[i + 1]
    OBVIOUS
  <2>1. i \in Ages /\ i <= Window
    BY BudgetConstants DEF Ages
  <2>2. PICK g0, g1 : g0 = upTo(i) /\ g1 = upTo(i + 1)
    OBVIOUS
  <2>3. g0 \in [Ages -> Nat] /\ g1 \in [Ages -> Nat]
    BY <2>2
  <2>4. g0[i] = 0 /\ g1[i] = g[i] /\ g[i] \in Nat
    BY <2>1, <2>2
  <2>5. \A a \in Ages : a # i => g0[a] = g1[a]
    BY <2>2, AgesFinite
  <2> HIDE DEF upTo
  <2>6. PICK t0 : Sums(Ages, g0, t0)
    BY <2>3, AgesFinite, SumsExist
  <2>7. t0 = P[i]
    BY <1>2, <2>1, <2>2, <2>6
  <2>8. Sums(Ages, g1, t)
    BY <2>2
  <2>9. t0 \in Nat /\ t \in Nat /\ t0 + g1[i] = t + g0[i]
    <3>1. DifferAt(Ages, i, g0, g1)
      BY <2>1, <2>3, <2>5 DEF DifferAt
    <3> QED BY <2>6, <2>8, <3>1, AgesFinite, SumsCompare
  <2>10. P[i + 1] = P[i] + g[i]
    BY <1>0, <2>1
  <2> QED BY <2>4, <2>7, <2>9, <2>10
<1>3. Window \in holds
  <2> HIDE DEF holds
  <2>1. \A i \in Nat : i \in holds
    BY <1>1, <1>2, ByInduction
  <2> QED BY <2>1, BudgetConstants
<1>4. upTo(Window) = g
  <2>1. \A a \in Ages : a < Window
    BY BudgetConstants DEF Ages
  <2> QED BY <2>1
<1>5. Window <= Window
  BY BudgetConstants
<1> HIDE DEF upTo
<1> QED BY <1>3, <1>4, <1>5

LEMMA GrantedSums ==
  ASSUME NEW g \in [Ages -> Nat]
  PROVE  Sums(Ages, g, MapThenSumSet(LAMBDA a : g[a], Ages))
<1>1. PICK h \in [SUBSET Ages -> Nat] : AddsUp(h, Ages, g)
  BY Zenon, AgesFinite, SumSteps
<1>2. PICK it : AddsUp(it, Ages, g) /\ MapThenSumSet(LAMBDA a : g[a], Ages) = it[Ages]
  <2>1. MapThenSumSet(LAMBDA a : g[a], Ages) = (CHOOSE it : AddsUp(it, Ages, g))[Ages]
    BY Zenon DEF MapThenSumSet, MapThenFoldSet, AddsUp
  <2>2. AddsUp(CHOOSE it : AddsUp(it, Ages, g), Ages, g)
    BY Zenon, <1>1
  <2> QED BY Zenon, <2>1, <2>2
<1>3. Sums(Ages, g, it[Ages])
  BY Zenon, <1>2, AgesFinite, SumIsNat
<1> QED BY <1>2, <1>3

LEMMA GrantedIs ==
  ASSUME NEW P, NEW g \in [Ages -> Nat], PrefixOf(P, g)
  PROVE  MapThenSumSet(LAMBDA a : g[a], Ages) = P[Window]
<1>1. Sums(Ages, g, MapThenSumSet(LAMBDA a : g[a], Ages))
  BY GrantedSums
<1> QED BY <1>1, PrefixIsSum
-----------------------------------------------------------------------------
(* The invariant of the budgets.                                           *)
BudgetWork == [inode : CachedInodes, uid : ReclaimUids, bytes : FolioSizes, now : Nat]
BudgetEntries ==
  [uid : ReclaimUids \cup {NoUid}, inode : CachedInodes \cup {NoBudgetInode},
   start : Nat, used : Nat]

BudgetShape ==
  /\ budget_clock \in Nat /\ 1 <= budget_clock
  /\ clearing => forgotten
  /\ shrink \in [Shrinkers -> {NoWork} \cup BudgetWork]
  /\ budgets \in [BudgetSlots -> BudgetEntries]
  /\ granted \in [Ages -> Nat]

\* A request reaches the lock with a time that is at most MaxBudgetLate old.
ShrinkersLate ==
  \A x \in Shrinkers : shrink[x] # NoWork =>
     /\ 1 <= shrink[x].now /\ shrink[x].now <= budget_clock
     /\ budget_clock - shrink[x].now <= MaxBudgetLate

BudgetsDiffer ==
  \A k, l \in BudgetSlots :
     /\ budgets[k].uid # NoUid
     /\ budgets[k].uid = budgets[l].uid /\ budgets[k].inode = budgets[l].inode
     => k = l

Mine(e) == e.uid # NoUid /\ <<e.uid, e.inode>> = Watched

\* The shrinkers of sh that can restart a window before its beginning.
Behind(sh, start) == {x \in Shrinkers : sh[x] # NoWork /\ sh[x].now < start}
Ahead(sh, start) == All - Cardinality(Behind(sh, start))

GrantsFor(e, g, clock, sh) ==
  \E P \in [0 .. Window -> Nat], m \in Int :
     /\ PrefixOf(P, g)
     /\ \A x \in Shrinkers : sh[x] # NoWork => m <= sh[x].now
     /\ Held(P, clock, e.start, e.used, m, Ahead(sh, e.start))

GrantsHeld ==
  ~forgotten =>
     /\ (\A k \in BudgetSlots : ~Mine(budgets[k])) => granted = Nothing
     /\ \A k \in BudgetSlots :
          Mine(budgets[k]) => GrantsFor(budgets[k], granted, budget_clock, shrink)

BudgetInv == BudgetShape /\ ShrinkersLate /\ BudgetTypeOK /\ BudgetsDiffer /\ GrantsHeld

LEMMA AheadCounts ==
  ASSUME NEW S1 \in SUBSET Shrinkers, NEW S2 \in SUBSET S1
  PROVE  /\ All \in Nat
         /\ All - Cardinality(S1) \in Nat /\ All - Cardinality(S2) \in Nat
         /\ All - Cardinality(S1) <= All - Cardinality(S2) /\ All - Cardinality(S2) <= All
         /\ \A x \in Shrinkers : x \notin S2 =>
               /\ 1 <= All - Cardinality(S2)
               /\ x \in S1 => (All - Cardinality(S1)) + 1 <= All - Cardinality(S2)
<1>0. IsFiniteSet(Shrinkers)
  BY BudgetAssumption
<1>1. IsFiniteSet(S1) /\ IsFiniteSet(S2) /\ Cardinality(S1) <= All /\ Cardinality(S2) <= Cardinality(S1)
  BY <1>0, FS_Subset DEF All
<1>2. PICK n \in Nat, n1 \in Nat, n2 \in Nat : n = All /\ n1 = Cardinality(S1) /\ n2 = Cardinality(S2)
  BY <1>0, <1>1, FS_CardinalityType DEF All
<1>3. ASSUME NEW S, IsFiniteSet(S), S2 \in SUBSET S, NEW x \in S, x \notin S2
      PROVE  n2 + 1 <= Cardinality(S)
  <2>1. S2 \in SUBSET (S \ {x}) /\ IsFiniteSet(S \ {x}) /\ Cardinality(S \ {x}) = Cardinality(S) - 1
    BY <1>3, FS_RemoveElement
  <2>2. n2 <= Cardinality(S \ {x}) /\ Cardinality(S) \in Nat
    BY <1>2, <1>3, <2>1, FS_Subset, FS_CardinalityType
  <2> QED BY <1>2, <2>1, <2>2
<1>4. \A x \in Shrinkers : x \notin S2 => n2 + 1 <= n /\ (x \in S1 => n2 + 1 <= n1)
  BY <1>0, <1>1, <1>2, <1>3 DEF All
<1> QED BY <1>1, <1>2, <1>4

-----------------------------------------------------------------------------
LEMMA FewerBehind ==
  ASSUME NEW sh, NEW sh2, NEW start, Behind(sh2, start) \in SUBSET Behind(sh, start)
  PROVE  /\ All \in Nat /\ Ahead(sh, start) \in Nat /\ Ahead(sh2, start) \in Nat
         /\ Ahead(sh, start) <= Ahead(sh2, start)
<1>1. Behind(sh, start) \in SUBSET Shrinkers
  BY DEF Behind
<1> QED BY <1>1, AheadCounts DEF Ahead

\* What was granted, with b more of it just now.
More(g, b) == [g EXCEPT ![0] = @ + b]

LEMMA MoreIs ==
  ASSUME NEW g \in [Ages -> Nat], NEW b \in Nat
  PROVE  /\ More(g, b) \in [Ages -> Nat] /\ More(g, 0) = g
         /\ More(g, b)[0] = g[0] + b
         /\ \A a \in Ages : a # 0 => More(g, b)[a] = g[a]
<1>1. 0 \in Ages /\ g[0] \in Nat /\ g[0] + b \in Nat
  BY AgesFinite
<1> QED BY <1>1 DEF More

LEMMA GrantAdds ==
  ASSUME NEW P, NEW g \in [Ages -> Nat], PrefixOf(P, g), NEW b \in Nat
  PROVE  \E Q \in [0 .. Window -> Nat] :
            PrefixOf(Q, More(g, b)) /\ Adds(P, Q, b)
<1> DEFINE Q == [i \in 0 .. Window |-> IF i = 0 THEN 0 ELSE P[i] + b]
           g2 == More(g, b)
<1>1. /\ P \in [0 .. Window -> Nat] /\ P[0] = 0
      /\ \A i \in Ages : P[i + 1] = P[i] + g[i]
  BY DEF PrefixOf
<1>2. Q \in [0 .. Window -> Nat] /\ Q[0] = 0
  BY <1>1, BudgetConstants
<1>3. \A i \in 1 .. Window : Q[i] = P[i] + b
  BY BudgetConstants
<1>4. ASSUME NEW i \in Ages
      PROVE  Q[i + 1] = Q[i] + g2[i]
  <2>1. i + 1 \in 1 .. Window /\ i \in 0 .. Window /\ g[i] \in Nat /\ i \in Nat
    BY BudgetConstants DEF Ages
  <2>2. Q[i + 1] = P[i] + g[i] + b /\ P[i] \in Nat
    BY <1>1, <1>3, <2>1
  <2>3. CASE i = 0
    <3>1. g2[0] = g[0] + b
      BY MoreIs
    <3> QED BY <1>1, <1>2, <2>1, <2>2, <2>3, <3>1
  <2>4. CASE i # 0
    <3>1. g2[i] = g[i]
      BY <2>4, MoreIs
    <3>2. Q[i] = P[i] + b
      BY <2>1, <2>4
    <3> QED BY <2>1, <2>2, <3>1, <3>2
  <2> QED BY <2>3, <2>4
<1>5. PrefixOf(Q, g2)
  BY <1>2, <1>4 DEF PrefixOf
<1> HIDE DEF Q, g2
<1>6. Adds(P, Q, b)
  BY <1>1, <1>2, <1>3 DEF Adds
<1>7. \E R \in [0 .. Window -> Nat] : PrefixOf(R, g2) /\ Adds(P, R, b)
  BY <1>2, <1>5, <1>6
<1> QED BY <1>7 DEF g2

(* A grant within a window, or a step that grants nothing.                 *)
LEMMA GrantsKept ==
  ASSUME NEW e \in BudgetEntries, NEW g \in [Ages -> Nat], NEW clock \in Nat,
         NEW sh, NEW sh2, GrantsFor(e, g, clock, sh), e.start <= clock,
         \A x \in Shrinkers : sh2[x] # NoWork => sh2[x] = sh[x] \/ sh2[x].now = clock,
         NEW b \in Nat, NEW e2, e2.start = e.start, e2.used = e.used + b
  PROVE  GrantsFor(e2, More(g, b), clock, sh2)
<1>0. e.start \in Nat /\ e.used \in Nat
  BY DEF BudgetEntries
<1>1. PICK P \in [0 .. Window -> Nat], m \in Int :
     /\ PrefixOf(P, g)
     /\ \A x \in Shrinkers : sh[x] # NoWork => m <= sh[x].now
     /\ Held(P, clock, e.start, e.used, m, Ahead(sh, e.start))
  BY DEF GrantsFor
<1>2. PICK Q \in [0 .. Window -> Nat] :
        PrefixOf(Q, More(g, b)) /\ Adds(P, Q, b)
  BY <1>1, GrantAdds
<1>3. Behind(sh2, e.start) \in SUBSET Behind(sh, e.start)
  BY <1>0 DEF Behind
<1>4. PICK free \in Nat, free2 \in Nat :
        /\ free = Ahead(sh, e.start) /\ free2 = Ahead(sh2, e.start)
        /\ free <= free2 /\ All \in Nat
  BY <1>3, FewerBehind
<1>5. Held(P, clock, e.start, e.used, m, free)
  BY <1>1, <1>4
<1>6. Held(Q, clock, e.start, e.used + b, m, free2)
  BY <1>0, <1>2, <1>4, <1>5, HeldGranted
<1>7. \A x \in Shrinkers : sh2[x] # NoWork => m <= sh2[x].now
  <2>1. m <= clock
    BY <1>0, <1>5 DEF Held
  <2> QED BY <1>1, <2>1
<1> QED BY <1>2, <1>4, <1>6, <1>7 DEF GrantsFor

\* Every clock that was read is MaxBudgetLate old at most; s is served.
Fresh(sh, clock) ==
  \A x \in Shrinkers : sh[x] # NoWork =>
     sh[x].now \in Nat /\ clock - sh[x].now <= MaxBudgetLate
Serves(s, sh, sh2) ==
  /\ s \in Shrinkers /\ sh[s] # NoWork /\ sh2[s] = NoWork
  /\ \A x \in Shrinkers : sh2[x] # NoWork => sh2[x] = sh[x]

LEMMA ServedAhead ==
  ASSUME NEW s, NEW sh, NEW sh2, Serves(s, sh, sh2), NEW clock \in Nat, Fresh(sh, clock),
         NEW start \in Nat, NEW at \in Nat, at = sh[s].now
  PROVE  /\ All \in Nat /\ Ahead(sh, start) \in Nat /\ Ahead(sh2, at) \in Nat
         /\ Ahead(sh, start) <= All /\ 1 <= Ahead(sh2, at)
         /\ at < start => Ahead(sh, start) + 1 <= Ahead(sh2, at)
<1>1. s \notin Behind(sh2, at) /\ Behind(sh2, at) \in SUBSET Shrinkers /\ s \in Shrinkers
  BY DEF Behind, Serves
<1>2. Behind(sh, start) \in SUBSET Shrinkers /\ Shrinkers \in SUBSET Shrinkers
  BY DEF Behind
<1>3. All \in Nat /\ Ahead(sh, start) \in Nat /\ Ahead(sh, start) <= All
  BY <1>2, AheadCounts DEF Ahead
<1>4. Ahead(sh2, at) \in Nat /\ 1 <= Ahead(sh2, at)
  BY <1>1, <1>2, AheadCounts DEF Ahead
<1>5. ASSUME at < start
      PROVE  Ahead(sh, start) + 1 <= Ahead(sh2, at)
  <2>1. ASSUME NEW x \in Behind(sh2, at)
        PROVE  x \in Behind(sh, start)
    <3>1. x \in Shrinkers /\ sh2[x] # NoWork /\ sh2[x].now < at
      BY DEF Behind
    <3>2. sh[x] = sh2[x] /\ sh[x].now \in Nat
      BY <3>1 DEF Serves, Fresh
    <3>3. sh[x].now < start
      BY <1>5, <3>1, <3>2
    <3> QED BY <3>1, <3>2, <3>3 DEF Behind
  <2>2. s \in Behind(sh, start) /\ Behind(sh2, at) \in SUBSET Behind(sh, start)
    BY <1>5, <2>1 DEF Behind, Serves
  <2> QED BY <1>1, <1>2, <2>2, AheadCounts DEF Ahead
<1> QED BY <1>3, <1>4, <1>5

(* What s has taken to the lock starts a window anew for the watched pair: *)
(* before the one that is open, or after one that is over.                 *)
LEMMA GrantsRestarted ==
  ASSUME NEW e \in BudgetEntries, NEW g \in [Ages -> Nat], NEW clock \in Nat,
         NEW sh, NEW sh2, GrantsFor(e, g, clock, sh), e.used <= Budget,
         NEW s, Serves(s, sh, sh2), Fresh(sh, clock),
         sh[s].now \in Nat, sh[s].now < e.start,
         NEW b \in Nat, NEW e2, e2.start = sh[s].now, e2.used = b
  PROVE  GrantsFor(e2, More(g, b), clock, sh2)
<1>0. PICK start \in Nat, used \in Nat, at \in Nat :
        /\ start = e.start /\ used = e.used /\ used <= Budget
        /\ at = sh[s].now /\ at < start /\ e2.start = at
  BY DEF BudgetEntries
<1>1. PICK P \in [0 .. Window -> Nat], m \in Int :
     /\ PrefixOf(P, g)
     /\ \A x \in Shrinkers : sh[x] # NoWork => m <= sh[x].now
     /\ Held(P, clock, start, used, m, Ahead(sh, start))
  BY <1>0 DEF GrantsFor
<1>2. PICK Q \in [0 .. Window -> Nat] :
        PrefixOf(Q, More(g, b)) /\ Adds(P, Q, b)
  BY <1>1, GrantAdds
<1>3. PICK free \in Nat, free2 \in Nat :
          /\ free = Ahead(sh, start) /\ free2 = Ahead(sh2, at)
          /\ free + 1 <= free2 /\ All \in Nat
  BY <1>0, ServedAhead
<1>4. Held(P, clock, start, used, m, free)
  BY <1>1, <1>3
<1>5. m <= at /\ clock - at <= MaxBudgetLate
  BY <1>0, <1>1 DEF Fresh, Serves
<1>6. Held(Q, clock, at, b, m, free2)
  <2>1. used <= Budget /\ Adds(P, Q, b) /\ All \in Nat /\ free + 1 <= free2
    BY <1>0, <1>2, <1>3
  <2> QED BY <1>4, <1>5, <2>1, HeldRestarted
<1>7. \A x \in Shrinkers : sh2[x] # NoWork => m <= sh2[x].now
  BY <1>1 DEF Serves
<1> QED BY <1>0, <1>2, <1>3, <1>6, <1>7 DEF GrantsFor

LEMMA GrantsFollow ==
  ASSUME NEW e \in BudgetEntries, NEW g \in [Ages -> Nat], NEW clock \in Nat,
         NEW sh, NEW sh2, GrantsFor(e, g, clock, sh), e.used <= Budget,
         NEW s, Serves(s, sh, sh2), Fresh(sh, clock),
         sh[s].now \in Nat, sh[s].now <= clock, sh[s].now - e.start >= Window,
         NEW b \in Nat, NEW e2, e2.start = sh[s].now, e2.used = b
  PROVE  GrantsFor(e2, More(g, b), clock, sh2)
<1>0. PICK start \in Nat, used \in Nat, at \in Nat :
        /\ start = e.start /\ used = e.used /\ used <= Budget
        /\ at = sh[s].now /\ at <= clock /\ at - start >= Window /\ e2.start = at
  BY DEF BudgetEntries
<1>1. PICK P \in [0 .. Window -> Nat], m \in Int :
     /\ PrefixOf(P, g)
     /\ Held(P, clock, start, used, m, Ahead(sh, start))
  BY <1>0 DEF GrantsFor
<1>2. PICK Q \in [0 .. Window -> Nat] :
        PrefixOf(Q, More(g, b)) /\ Adds(P, Q, b)
  BY <1>1, GrantAdds
<1>3. PICK free \in Nat, free2 \in Nat :
          /\ free = Ahead(sh, start) /\ free2 = Ahead(sh2, at)
          /\ free <= All /\ 1 <= free2 /\ All \in Nat
  BY <1>0, ServedAhead
<1>4. Held(P, clock, start, used, m, free)
  BY <1>1, <1>3
<1>5. clock - at <= MaxBudgetLate
  BY <1>0 DEF Fresh, Serves
<1>6. Held(Q, clock, at, b, start + MaxBudgetLate, free2)
  BY <1>0, <1>2, <1>3, <1>4, <1>5, HeldFollowed
<1>7. PICK late \in Nat, low \in Nat :
        late = MaxBudgetLate /\ low = start + late /\ low + late <= clock
  <2>1. PICK window \in Nat, late \in Nat :
          window = Window /\ late = MaxBudgetLate /\ late + late <= window
    BY BudgetConstants
  <2>2. at - start >= window /\ at <= clock
    BY <1>0, <2>1
  <2>3. start + late + late <= clock
    BY <2>1, <2>2
  <2> QED BY <2>1, <2>3
<1>8. ASSUME NEW x \in Shrinkers, sh2[x] # NoWork
      PROVE  low <= sh2[x].now
  <2>1. PICK n \in Nat : n = sh2[x].now /\ clock - n <= late
    BY <1>7, <1>8 DEF Serves, Fresh
  <2>2. low + late <= clock
    BY <1>7
  <2>3. low <= n
    BY <2>1, <2>2
  <2> QED BY <2>1, <2>3
<1>9. Held(Q, clock, at, b, low, free2)
  BY <1>6, <1>7
<1>10. low \in Int
  OBVIOUS
<1> QED BY <1>0, <1>2, <1>3, <1>8, <1>9, <1>10 DEF GrantsFor

LEMMA GrantsBegin ==
  ASSUME NEW clock \in Nat, NEW sh2, Fresh(sh2, clock),
         NEW b \in Nat, NEW e2, e2.start \in Nat, e2.used = b,
         e2.start <= clock, clock - e2.start <= MaxBudgetLate
  PROVE  GrantsFor(e2, More(Nothing, b), clock, sh2)
<1> DEFINE P == [i \in 0 .. Window |-> 0]
<1>0. PICK at \in Nat : at = e2.start /\ at <= clock /\ clock - at <= MaxBudgetLate
  OBVIOUS
<1>1. Nothing \in [Ages -> Nat] /\ PrefixOf(P, Nothing)
  <2>1. \A i \in Ages : i \in 0 .. Window /\ i + 1 \in 0 .. Window
    BY BudgetConstants DEF Ages
  <2> QED BY <2>1, BudgetConstants DEF PrefixOf, Nothing
<1>2. PICK Q \in [0 .. Window -> Nat] :
        PrefixOf(Q, More(Nothing, b)) /\ Adds(P, Q, b)
  <2> HIDE DEF P
  <2> QED BY <1>1, GrantAdds
<1>3. Q[0] = 0 /\ \A i \in 1 .. Window : Q[i] = b
  BY <1>2, BudgetConstants DEF Adds
<1>4. PICK free \in Nat : free = Ahead(sh2, at) /\ All \in Nat
  <2>1. Behind(sh2, at) \in SUBSET Behind(sh2, at)
    OBVIOUS
  <2> QED BY <2>1, FewerBehind
<1>5. Held(Q, clock, at, b, clock - MaxBudgetLate, free)
  BY <1>0, <1>3, <1>4, HeldFirst
<1>6. \A x \in Shrinkers : sh2[x] # NoWork => clock - MaxBudgetLate <= sh2[x].now
  <2>1. \A n \in Nat : clock - n <= MaxBudgetLate => clock - MaxBudgetLate <= n
    BY BudgetConstants
  <2> QED BY <2>1 DEF Fresh
<1>7. clock - MaxBudgetLate \in Int
  BY BudgetConstants
<1> QED BY <1>0, <1>2, <1>4, <1>5, <1>6, <1>7 DEF GrantsFor

LEMMA GrantsAge ==
  ASSUME NEW e \in BudgetEntries, NEW g \in [Ages -> Nat], NEW clock \in Nat,
         NEW sh, GrantsFor(e, g, clock, sh)
  PROVE  GrantsFor(e, [a \in Ages |-> IF a = 0 THEN 0 ELSE g[a - 1]], clock + 1, sh)
<1> DEFINE g2 == [a \in Ages |-> IF a = 0 THEN 0 ELSE g[a - 1]]
<1>0. e.start \in Nat /\ e.used \in Nat
  BY DEF BudgetEntries
<1>1. PICK P \in [0 .. Window -> Nat], m \in Int :
     /\ PrefixOf(P, g)
     /\ \A x \in Shrinkers : sh[x] # NoWork => m <= sh[x].now
     /\ Held(P, clock, e.start, e.used, m, Ahead(sh, e.start))
  BY DEF GrantsFor
<1>2. P[0] = 0 /\ \A i \in Ages : P[i + 1] = P[i] + g[i]
  BY <1>1 DEF PrefixOf
<1>3. PICK Q : Q = [i \in 0 .. Window |-> IF i = 0 THEN 0 ELSE P[i - 1]]
  OBVIOUS
<1>4. /\ Q \in [0 .. Window -> Nat] /\ Q[0] = 0
      /\ \A i \in 1 .. Window : Q[i] = P[i - 1]
  <2>1. \A i \in 0 .. Window : i # 0 => i - 1 \in 0 .. Window
    BY BudgetConstants
  <2>2. \A i \in 1 .. Window : i \in 0 .. Window /\ i # 0
    BY BudgetConstants
  <2>3. 0 \in 0 .. Window
    BY BudgetConstants
  <2> QED BY <1>3, <2>1, <2>2, <2>3
<1>5. ASSUME NEW i \in Ages
      PROVE  Q[i + 1] = Q[i] + g2[i]
  <2>1. i + 1 \in 1 .. Window /\ (i + 1) - 1 = i /\ i \in Nat
    BY BudgetConstants DEF Ages
  <2>2. Q[i + 1] = P[i]
    BY <1>4, <2>1
  <2>3. CASE i = 0
    BY <1>2, <1>4, <2>2, <2>3
  <2>4. CASE i # 0
    <3>1. i \in 1 .. Window /\ i - 1 \in Ages /\ (i - 1) + 1 = i
      BY <2>1, <2>4, BudgetConstants DEF Ages
    <3>2. Q[i] = P[i - 1] /\ g2[i] = g[i - 1] /\ P[i] = P[i - 1] + g[i - 1]
      BY <1>2, <1>4, <2>4, <3>1
    <3> QED BY <2>2, <3>2
  <2> QED BY <2>3, <2>4
<1>6. PrefixOf(Q, g2)
  BY <1>4, <1>5 DEF PrefixOf
<1>7. PICK free \in Nat : free = Ahead(sh, e.start) /\ All \in Nat
  <2>1. Behind(sh, e.start) \in SUBSET Behind(sh, e.start)
    OBVIOUS
  <2> QED BY <2>1, FewerBehind
<1>8. Held(P, clock, e.start, e.used, m, free)
  BY <1>1, <1>7
<1>9. Held(Q, clock + 1, e.start, e.used, m, free)
  BY <1>0, <1>4, <1>7, <1>8, HeldTick
<1> HIDE DEF g2
<1>10. GrantsFor(e, g2, clock + 1, sh)
  BY <1>1, <1>4, <1>6, <1>7, <1>9 DEF GrantsFor
<1> QED BY <1>10 DEF g2

-----------------------------------------------------------------------------
LEMMA BudgetInitially == BudgetInit => BudgetInv
<1> SUFFICES ASSUME BudgetInit
             PROVE  BudgetInv
  OBVIOUS
<1>1. FreeBudget \in BudgetEntries
  BY DEF FreeBudget, BudgetEntries
<1>2. granted \in [Ages -> Nat] /\ granted = Nothing
  BY DEF BudgetInit, Nothing
<1>3. BudgetShape
  BY <1>1, <1>2 DEF BudgetShape, BudgetInit
<1>4. \A k \in BudgetSlots : budgets[k] = FreeBudget /\ budgets[k].uid = NoUid
  BY DEF BudgetInit, FreeBudget
<1>5. ShrinkersLate
  BY DEF ShrinkersLate, BudgetInit
<1>6. BudgetTypeOK /\ BudgetsDiffer /\ GrantsHeld
  BY <1>2, <1>4 DEF BudgetTypeOK, BudgetsDiffer, GrantsHeld, Mine
<1> QED BY <1>3, <1>5, <1>6 DEF BudgetInv

(* Steps that leave the entries and what was granted alone: a request is   *)
(* begun, or was not eligible.                                             *)
LEMMA SameBudgets ==
  ASSUME BudgetInv, UNCHANGED <<budget_clock, budgets, forgotten, granted>>,
         \A x \in Shrinkers : shrink'[x] # NoWork =>
            shrink'[x] = shrink[x] \/ shrink'[x].now = budget_clock
  PROVE  BudgetTypeOK' /\ BudgetsDiffer' /\ GrantsHeld'
<1>1. BudgetTypeOK' /\ BudgetsDiffer'
  BY DEF BudgetInv, BudgetTypeOK, BudgetsDiffer, Pairs
<1>2. GrantsHeld'
  <2> SUFFICES ASSUME ~forgotten, NEW k \in BudgetSlots, Mine(budgets[k])
               PROVE  GrantsFor(budgets[k], granted, budget_clock, shrink')
    BY DEF BudgetInv, GrantsHeld
  <2>1. PICK e \in BudgetEntries : e = budgets[k]
    BY DEF BudgetInv, BudgetShape
  <2>2. PICK g \in [Ages -> Nat] : g = granted
    BY DEF BudgetInv, BudgetShape
  <2>3. PICK clock \in Nat : clock = budget_clock
    BY DEF BudgetInv, BudgetShape
  <2>4. e.start <= clock /\ e.used \in Nat
    <3>1. budgets[k] = FreeBudget \/ budgets[k].start \in 1 .. budget_clock
      BY DEF BudgetInv, BudgetTypeOK
    <3> QED BY <2>1, <2>3, <3>1 DEF FreeBudget, BudgetEntries
  <2>5. GrantsFor(e, g, clock, shrink)
    BY <2>1, <2>2, <2>3 DEF BudgetInv, GrantsHeld
  <2>6. More(g, 0) = g
    BY MoreIs
  <2>7. e.used = e.used + 0
    BY <2>4
  <2>8. \A x \in Shrinkers : shrink'[x] # NoWork =>
            shrink'[x] = shrink[x] \/ shrink'[x].now = clock
    BY <2>3
  <2>9. GrantsFor(e, More(g, 0), clock, shrink')
    BY <2>4, <2>5, <2>7, <2>8, GrantsKept
  <2> QED BY <2>1, <2>2, <2>3, <2>6, <2>9
<1> QED BY <1>1, <1>2

LEMMA ShrinkFolioKeeps ==
  ASSUME BudgetInv, NEW s \in Shrinkers, NEW uid \in ReclaimUids, NEW inode \in CachedInodes,
         NEW bytes \in FolioSizes, ShrinkFolio(s, uid, inode, bytes)
  PROVE  BudgetInv'
<1> DEFINE w == [inode |-> inode, uid |-> uid, bytes |-> bytes, now |-> budget_clock]
<1>1. budget_clock \in Nat /\ 1 <= budget_clock
  BY DEF BudgetInv, BudgetShape
<1>2. w \in BudgetWork /\ w.now = budget_clock
  BY <1>1 DEF BudgetWork
<1>3. shrink' = [shrink EXCEPT ![s] = w] /\ shrink \in [Shrinkers -> {NoWork} \cup BudgetWork]
  BY DEF ShrinkFolio, BudgetInv, BudgetShape
<1>4. UNCHANGED <<budget_clock, clearing, budgets, forgotten, granted>>
  BY DEF ShrinkFolio
<1> HIDE DEF w
<1>5. \A x \in Shrinkers : shrink'[x] = shrink[x] \/ shrink'[x] = w
  BY <1>3
<1>6. BudgetShape'
  BY <1>2, <1>3, <1>4 DEF BudgetInv, BudgetShape
<1>7. ShrinkersLate'
  <2>1. budget_clock - budget_clock <= MaxBudgetLate
    BY <1>1, BudgetConstants
  <2> QED BY <1>1, <1>2, <1>4, <1>5, <2>1 DEF BudgetInv, ShrinkersLate
<1>8. BudgetTypeOK' /\ BudgetsDiffer' /\ GrantsHeld'
  BY <1>2, <1>4, <1>5, SameBudgets
<1> QED BY <1>6, <1>7, <1>8 DEF BudgetInv

LEMMA SwitchKeeps ==
  ASSUME BudgetInv, SwitchOn \/ SwitchOff
  PROVE  BudgetInv'
<1>1. UNCHANGED <<budget_clock, shrink, budgets>>
  BY DEF SwitchOn, SwitchOff
<1>2. BudgetTypeOK' /\ BudgetsDiffer' /\ ShrinkersLate'
  BY <1>1 DEF BudgetInv, BudgetTypeOK, BudgetsDiffer, ShrinkersLate, Pairs
<1>3. CASE SwitchOn
  <2>1. UNCHANGED <<clearing, forgotten, granted>>
    BY <1>3 DEF SwitchOn
  <2> QED BY <1>1, <1>2, <2>1 DEF BudgetInv, BudgetShape, GrantsHeld
<1>4. CASE SwitchOff
  <2>1. forgotten' /\ granted' \in [Ages -> Nat]
    BY <1>4 DEF SwitchOff, Nothing
  <2> QED BY <1>1, <1>2, <2>1 DEF BudgetInv, BudgetShape, GrantsHeld
<1> QED BY <1>3, <1>4

LEMMA ClearBudgetsKeeps ==
  ASSUME BudgetInv, ClearBudgets
  PROVE  BudgetInv'
<1>1. forgotten' /\ UNCHANGED <<budget_clock, shrink, granted>>
  BY DEF ClearBudgets, BudgetInv, BudgetShape
<1>2. FreeBudget \in BudgetEntries /\ FreeBudget.uid = NoUid
  BY DEF FreeBudget, BudgetEntries
<1>3. \A k \in BudgetSlots : budgets'[k] = FreeBudget
  BY DEF ClearBudgets
<1>4. budgets' \in [BudgetSlots -> BudgetEntries]
  BY <1>2 DEF ClearBudgets
<1>5. BudgetShape' /\ GrantsHeld' /\ ShrinkersLate'
  BY <1>1, <1>4 DEF BudgetInv, BudgetShape, GrantsHeld, ShrinkersLate
<1>6. BudgetTypeOK' /\ BudgetsDiffer'
  BY <1>2, <1>3 DEF BudgetTypeOK, BudgetsDiffer
<1> QED BY <1>5, <1>6 DEF BudgetInv

LEMMA BudgetTickKeeps ==
  ASSUME BudgetInv, BudgetTick
  PROVE  BudgetInv'
<1>1. PICK clock \in Nat : clock = budget_clock /\ 1 <= clock /\ budget_clock' = clock + 1
  BY DEF BudgetInv, BudgetShape, BudgetTick
<1>2. UNCHANGED <<clearing, shrink, budgets, forgotten>>
  BY DEF BudgetTick
<1>3. PICK g \in [Ages -> Nat] : g = granted
  BY DEF BudgetInv, BudgetShape
<1>4. granted' = [a \in Ages |-> IF a = 0 THEN 0 ELSE g[a - 1]]
  BY <1>3 DEF BudgetTick
<1>5. \A a \in Ages : a # 0 => a - 1 \in Ages
  BY BudgetConstants DEF Ages
<1>6. granted' \in [Ages -> Nat] /\ (g = Nothing => granted' = Nothing)
  BY <1>4, <1>5 DEF Nothing
<1>7. BudgetShape'
  BY <1>1, <1>2, <1>6 DEF BudgetInv, BudgetShape
<1>8. ShrinkersLate'
  <2>0. shrink' = shrink /\ budget_clock' = clock + 1
    BY <1>1, <1>2
  <2> SUFFICES ASSUME NEW x \in Shrinkers, shrink[x] # NoWork
               PROVE  /\ 1 <= shrink[x].now /\ shrink[x].now <= clock + 1
                      /\ (clock + 1) - shrink[x].now <= MaxBudgetLate
    BY Zenon, <2>0 DEF ShrinkersLate
  <2>1. shrink[x] \in BudgetWork
    BY DEF BudgetInv, BudgetShape
  <2>2. PICK n \in Nat : n = shrink[x].now
    BY <2>1 DEF BudgetWork
  <2>3. 1 <= n /\ n <= clock /\ clock + 1 - n <= MaxBudgetLate
    BY <1>1, <2>2 DEF BudgetInv, ShrinkersLate, BudgetTick
  <2> QED BY <2>2, <2>3
<1>9. BudgetTypeOK' /\ BudgetsDiffer'
  <2>1. \A n : n \in 1 .. clock => n \in 1 .. clock + 1
    OBVIOUS
  <2> QED BY <1>1, <1>2, <2>1 DEF BudgetInv, BudgetTypeOK, BudgetsDiffer, Pairs
<1>10. GrantsHeld'
  <2> SUFFICES ASSUME ~forgotten, NEW k \in BudgetSlots, Mine(budgets[k])
               PROVE  GrantsFor(budgets[k], granted', clock + 1, shrink)
    BY <1>1, <1>2, <1>3, <1>6 DEF BudgetInv, GrantsHeld
  <2>1. PICK e \in BudgetEntries : e = budgets[k]
    BY DEF BudgetInv, BudgetShape
  <2>2. GrantsFor(e, g, clock, shrink)
    BY <1>1, <1>3, <2>1 DEF BudgetInv, GrantsHeld
  <2>3. GrantsFor(e, [a \in Ages |-> IF a = 0 THEN 0 ELSE g[a - 1]], clock + 1, shrink)
    BY <2>2, GrantsAge
  <2> QED BY <1>4, <2>1, <2>3
<1> QED BY <1>7, <1>8, <1>9, <1>10 DEF BudgetInv

-----------------------------------------------------------------------------
(* The slot is the pair's own, if it has one.                              *)
LEMMA SlotIs ==
  ASSUME BudgetInv, NEW uid, NEW inode
  PROVE  /\ SlotFor(uid, inode) \in BudgetSlots
         /\ Own(uid, inode) # {} => SlotFor(uid, inode) \in Own(uid, inode)
<1>0. BudgetSlots \in SUBSET Nat /\ BudgetSlots # {}
  BY BudgetConstants DEF BudgetSlots
<1>1. \A S \in SUBSET BudgetSlots : S # {} => Min(S) \in S
  BY <1>0, MinOf
<1>2. Own(uid, inode) \in SUBSET BudgetSlots /\ FreeBudgets \in SUBSET BudgetSlots
  BY DEF Own, FreeBudgets
<1>3. Oldest \in SUBSET BudgetSlots /\ Oldest # {}
  <2>1. PICK starts : starts = {budgets[k].start : k \in BudgetSlots}
    OBVIOUS
  <2>2. \A k \in BudgetSlots : budgets[k].start \in Nat
    BY DEF BudgetInv, BudgetShape, BudgetEntries
  <2>3. starts \in SUBSET Nat /\ starts # {}
    BY <1>0, <2>1, <2>2
  <2>4. PICK least \in starts : \A y \in starts : least <= y
    BY <2>3, LeastOf
  <2>5. PICK k \in BudgetSlots : least = budgets[k].start
    BY <2>1, <2>4
  <2>6. k \in Oldest
    BY <2>1, <2>4, <2>5 DEF Oldest
  <2> QED BY <2>6 DEF Oldest
<1> QED BY <1>1, <1>2, <1>3 DEF SlotFor

(* The subtraction does not wrap: what is allowed fits into the budget.    *)
LEMMA AllowedFits ==
  ASSUME NEW e, e.used \in Nat, NEW bytes \in Nat, bytes <= Budget
  PROVE  /\ Allowed(e, bytes) => e.used + bytes <= Budget
         /\ e.used = 0 => Allowed(e, bytes)
<1>1. PICK rest \in Nat : rest = Budget - bytes /\ rest < CounterWrap
  BY BudgetConstants
<1>2. (rest + CounterWrap) % CounterWrap = rest
  <2>1. (rest + 1 * CounterWrap) % CounterWrap = (rest) % CounterWrap
    BY <1>1, BudgetConstants
  <2>2. (rest) % CounterWrap = rest
    BY <1>1, BudgetConstants
  <2> QED BY <2>1, <2>2, BudgetConstants
<1>3. Budget + CounterWrap - bytes = rest + CounterWrap
  BY <1>1, BudgetConstants
<1>4. Allowed(e, bytes) <=> e.used <= rest
  BY <1>2, <1>3 DEF Allowed
<1> QED BY <1>1, <1>4, BudgetConstants

\* What becomes of an entry that serves a request.
Charged(e, w) ==
  IF Allowed(e, w.bytes) THEN [e EXCEPT !.used = @ + w.bytes] ELSE e

LEMMA ChargedEntry ==
  ASSUME BudgetInv, NEW w \in BudgetWork, Eligible(w), w.now \in 1 .. budget_clock,
         NEW k \in BudgetSlots, NEW e, e = Renewed(budgets[k], w)
  PROVE  /\ e \in BudgetEntries /\ e.uid = w.uid /\ e.inode = w.inode
         /\ e.start \in 1 .. budget_clock /\ e.used \in 0 .. Budget
         /\ Charged(e, w) \in BudgetEntries
         /\ Charged(e, w).uid = w.uid /\ Charged(e, w).inode = w.inode
         /\ Charged(e, w).start = e.start
         /\ Charged(e, w).used = e.used + (IF Allowed(e, w.bytes) THEN w.bytes ELSE 0)
         /\ Charged(e, w).used \in 0 .. Budget
<1>1. /\ w.inode \in CachedInodes /\ w.uid \in ReclaimUids /\ w.uid # NoUid
      /\ w.bytes \in Nat /\ w.bytes <= Budget /\ w.now \in Nat
  <2>1. w.inode \in CachedInodes /\ w.uid \in ReclaimUids /\ w.now \in Nat /\ w.bytes \in FolioSizes
    BY DEF BudgetWork
  <2>2. w.uid # NoUid /\ w.bytes <= Budget
    BY DEF Eligible
  <2> QED BY <2>1, <2>2, BudgetAssumption
<1>2. PICK b \in BudgetEntries : b = budgets[k]
  BY DEF BudgetInv, BudgetShape
<1>3. /\ e.uid = w.uid /\ e.inode = w.inode
      /\ e \in BudgetEntries /\ e.start \in 1 .. budget_clock /\ e.used \in 0 .. Budget
  <2>1. CASE b.uid # w.uid \/ b.inode # w.inode \/ WindowOver(b.start, w.now)
    <3>1. e = [uid |-> w.uid, inode |-> w.inode, start |-> w.now, used |-> 0]
      BY <1>2, <2>1 DEF Renewed
    <3>2. e \in BudgetEntries
      BY <1>1, <3>1 DEF BudgetEntries
    <3>3. 0 \in 0 .. Budget
      BY BudgetConstants
    <3> QED BY <3>1, <3>2, <3>3
  <2>2. CASE ~(b.uid # w.uid \/ b.inode # w.inode \/ WindowOver(b.start, w.now))
    <3>1. e = b
      BY <1>2, <2>2 DEF Renewed
    <3>2. b # FreeBudget
      BY <1>1, <2>2 DEF FreeBudget
    <3>3. b.start \in 1 .. budget_clock /\ b.used \in 0 .. Budget
      BY <1>2, <3>2 DEF BudgetInv, BudgetTypeOK
    <3> QED BY <2>2, <3>1, <3>3
  <2> QED BY <2>1, <2>2
<1>4. e.used \in Nat /\ e.used <= Budget
  BY <1>3, BudgetConstants
<1>5. CASE Allowed(e, w.bytes)
  <2>1. PICK n \in Nat, c \in Nat : n = e.used /\ c = w.bytes
    BY <1>1, <1>4
  <2>2. n + c <= Budget
    BY <1>1, <1>4, <1>5, <2>1, AllowedFits
  <2>3. Charged(e, w) = [e EXCEPT !.used = n + c]
    BY <1>5, <2>1 DEF Charged
  <2>4. /\ Charged(e, w) \in BudgetEntries /\ Charged(e, w).used = n + c
        /\ Charged(e, w).uid = e.uid /\ Charged(e, w).inode = e.inode
        /\ Charged(e, w).start = e.start
    BY <1>3, <2>3 DEF BudgetEntries
  <2>5. n + c \in 0 .. Budget
    BY <2>2, BudgetConstants
  <2> QED BY <1>3, <1>5, <2>1, <2>4, <2>5
<1>6. CASE ~Allowed(e, w.bytes)
  BY <1>3, <1>4, <1>6 DEF Charged
<1> QED BY <1>3, <1>5, <1>6

-----------------------------------------------------------------------------
(* What taking a budget does, with the clock, the request and the entries  *)
(* before and after it named.                                              *)
Taken(s, w, k, e, f, allowed) ==
  /\ w = shrink[s] /\ w \in BudgetWork /\ w # NoWork /\ Eligible(w)
  /\ w.now \in 1 .. budget_clock
  /\ k \in BudgetSlots /\ (Own(w.uid, w.inode) # {} => k \in Own(w.uid, w.inode))
  /\ e = Renewed(budgets[k], w) /\ allowed = Allowed(e, w.bytes) /\ f = Charged(e, w)
  /\ shrink' = [shrink EXCEPT ![s] = NoWork]
  /\ budgets' = [budgets EXCEPT ![k] = f]
  /\ UNCHANGED <<budget_clock, pagecache_on, clearing>>
  /\ forgotten => forgotten'
  /\ forgotten' => granted' = Nothing
  /\ ~forgotten' =>
       /\ <<w.uid, w.inode>> # Watched =>
            <<budgets[k].uid, budgets[k].inode>> # Watched /\ granted' = granted
       /\ <<w.uid, w.inode>> = Watched =>
            granted' = IF allowed THEN [granted EXCEPT ![0] = @ + w.bytes] ELSE granted

LEMMA WorkTaken ==
  ASSUME BudgetInv, NEW s \in Shrinkers, TakeBudget(s)
  PROVE  /\ shrink[s] \in BudgetWork /\ shrink[s] # NoWork /\ shrink[s].now \in 1 .. budget_clock
         /\ shrink' = [shrink EXCEPT ![s] = NoWork]
         /\ Serves(s, shrink, shrink')
         /\ Fresh(shrink, budget_clock) /\ Fresh(shrink', budget_clock)
<1>1. shrink[s] # NoWork /\ shrink' = [shrink EXCEPT ![s] = NoWork]
  BY DEF TakeBudget
<1>2. shrink \in [Shrinkers -> {NoWork} \cup BudgetWork]
  BY DEF BudgetInv, BudgetShape
<1>3. Serves(s, shrink, shrink')
  BY <1>1, <1>2 DEF Serves
<1>4. \A x \in Shrinkers : shrink[x] # NoWork => shrink[x] \in BudgetWork /\ shrink[x].now \in Nat
  BY <1>2 DEF BudgetWork
<1>5. Fresh(shrink, budget_clock)
  BY <1>4 DEF Fresh, BudgetInv, ShrinkersLate
<1>6. Fresh(shrink', budget_clock)
  BY <1>3, <1>5 DEF Fresh, Serves
<1>7. shrink[s].now \in 1 .. budget_clock
  <2>1. PICK n \in Nat, clock \in Nat : n = shrink[s].now /\ clock = budget_clock
    BY <1>1, <1>4 DEF BudgetInv, BudgetShape
  <2>2. 1 <= n /\ n <= clock
    BY <1>1, <2>1 DEF BudgetInv, ShrinkersLate
  <2> QED BY <2>1, <2>2
<1> QED BY <1>1, <1>3, <1>4, <1>5, <1>6, <1>7

LEMMA BudgetTaken ==
  ASSUME BudgetInv, NEW s \in Shrinkers, TakeBudget(s), Eligible(shrink[s])
  PROVE  \E w, k, e, f, allowed : Taken(s, w, k, e, f, allowed)
<1> DEFINE w == shrink[s]
           k == SlotFor(w.uid, w.inode)
           e == Renewed(budgets[k], w)
           allowed == Allowed(e, w.bytes)
<1>1. /\ w \in BudgetWork /\ w # NoWork /\ w.now \in 1 .. budget_clock
      /\ shrink' = [shrink EXCEPT ![s] = NoWork]
  BY WorkTaken
<1>2. k \in BudgetSlots /\ (Own(w.uid, w.inode) # {} => k \in Own(w.uid, w.inode))
  BY SlotIs
<1>3. /\ budgets' = [budgets EXCEPT ![k] =
                       IF allowed THEN [e EXCEPT !.used = @ + w.bytes] ELSE e]
      /\ forgotten' = (forgotten \/ Displaces(w))
      /\ granted' = IF forgotten' THEN Nothing
                    ELSE IF allowed /\ <<w.uid, w.inode>> = Watched
                      THEN [granted EXCEPT ![0] = @ + w.bytes]
                    ELSE granted
      /\ UNCHANGED <<budget_clock, pagecache_on, clearing>>
  BY DEF TakeBudget
<1>4. budgets' = [budgets EXCEPT ![k] = Charged(e, w)]
  BY <1>3 DEF Charged
<1>5. Displaces(w) <=> /\ <<budgets[k].uid, budgets[k].inode>> = Watched
                       /\ <<w.uid, w.inode>> # Watched
  BY DEF Displaces
<1> HIDE DEF w, k, e, allowed
<1>6. ~forgotten' =>
       /\ <<w.uid, w.inode>> # Watched =>
            <<budgets[k].uid, budgets[k].inode>> # Watched /\ granted' = granted
       /\ <<w.uid, w.inode>> = Watched =>
            granted' = IF allowed THEN [granted EXCEPT ![0] = @ + w.bytes] ELSE granted
  BY Zenon, <1>3, <1>5
<1>7. (forgotten => forgotten') /\ (forgotten' => granted' = Nothing)
  BY Zenon, <1>3
<1>8. Taken(s, w, k, e, Charged(e, w), allowed)
  BY <1>1, <1>2, <1>3, <1>4, <1>6, <1>7 DEF Taken, w, e, allowed
<1> QED BY <1>8

-----------------------------------------------------------------------------
\* What a request is granted.
Grant(e, w) == IF Allowed(e, w.bytes) THEN w.bytes ELSE 0

(* The watched entry serves a request of its pair: in its window, in one   *)
(* that a late request starts before it, or in one that follows it.        *)
LEMMA WatchedServes ==
  ASSUME NEW e0 \in BudgetEntries, NEW w \in BudgetWork, NEW g \in [Ages -> Nat],
         NEW clock \in Nat, NEW sh, NEW sh2, GrantsFor(e0, g, clock, sh),
         1 <= e0.start, e0.start <= clock, e0.used <= Budget,
         e0.uid = w.uid, e0.inode = w.inode, w.now <= clock,
         NEW s, w = sh[s], Serves(s, sh, sh2), Fresh(sh, clock),
         NEW e, e = Renewed(e0, w), NEW b \in Nat,
         NEW f, f.start = e.start, f.used = e.used + b
  PROVE  GrantsFor(f, More(g, b), clock, sh2)
<1>1. PICK start \in Nat, at \in Nat :
        start = e0.start /\ at = w.now /\ 1 <= start /\ at <= clock /\ at = sh[s].now
  BY DEF BudgetEntries, BudgetWork
<1>2. CASE ~WindowOver(e0.start, w.now)
  <2>1. e = e0
    BY <1>2 DEF Renewed
  <2>2. \A x \in Shrinkers : sh2[x] # NoWork => sh2[x] = sh[x] \/ sh2[x].now = clock
    BY DEF Serves
  <2>3. f.start = e0.start /\ f.used = e0.used + b
    BY <2>1
  <2> QED BY <2>2, <2>3, GrantsKept
<1>3. CASE WindowOver(e0.start, w.now)
  <2>1. e = [uid |-> w.uid, inode |-> w.inode, start |-> at, used |-> 0]
    BY <1>1, <1>3 DEF Renewed
  <2>2. f.start = at /\ f.used = b
    BY <2>1
  <2>3. at < start \/ at - start >= Window
    BY <1>1, <1>3 DEF WindowOver
  <2>4. CASE at < e0.start
    <3>1. sh[s].now \in Nat /\ sh[s].now < e0.start /\ f.start = sh[s].now
      BY <1>1, <2>2, <2>4
    <3> QED BY <2>2, <3>1, GrantsRestarted
  <2>5. CASE at - e0.start >= Window
    <3>1. /\ sh[s].now \in Nat /\ sh[s].now <= clock /\ sh[s].now - e0.start >= Window
          /\ f.start = sh[s].now
      BY <1>1, <2>2, <2>5
    <3> QED BY <2>2, <3>1, GrantsFollow
  <2> QED BY <1>1, <2>3, <2>4, <2>5
<1> QED BY <1>2, <1>3

(* It comes to be with the first request of its pair.                      *)
LEMMA WatchedBegins ==
  ASSUME NEW w \in BudgetWork, NEW clock \in Nat, NEW sh2, Fresh(sh2, clock),
         w.now <= clock, clock - w.now <= MaxBudgetLate,
         NEW e0, e0.uid # w.uid \/ e0.inode # w.inode,
         NEW e, e = Renewed(e0, w), NEW b \in Nat,
         NEW f, f.start = e.start, f.used = e.used + b
  PROVE  GrantsFor(f, More(Nothing, b), clock, sh2)
<1>1. PICK at \in Nat : at = w.now
  BY DEF BudgetWork
<1>2. e = [uid |-> w.uid, inode |-> w.inode, start |-> at, used |-> 0]
  BY <1>1 DEF Renewed
<1>3. f.start \in Nat /\ f.used = b /\ f.start <= clock /\ clock - f.start <= MaxBudgetLate
  BY <1>1, <1>2
<1> QED BY <1>3, GrantsBegin

\* The entry that is left for the request, in its slot.
Entered(w, k, e, f) ==
  /\ \A l \in BudgetSlots : budgets'[l] = IF l = k THEN f ELSE budgets[l]
  /\ f \in BudgetEntries /\ f.uid = w.uid /\ f.inode = w.inode /\ f.uid # NoUid
  /\ <<f.uid, f.inode>> \in Pairs
  /\ f.start = e.start /\ f.used = e.used + Grant(e, w) /\ Grant(e, w) \in Nat
  /\ f.start \in 1 .. budget_clock /\ f.used \in 0 .. Budget

LEMMA TakenEntries ==
  ASSUME BudgetInv, NEW s \in Shrinkers, TakeBudget(s),
         NEW w, NEW k, NEW e, NEW f, NEW allowed, Taken(s, w, k, e, f, allowed)
  PROVE  Entered(w, k, e, f)
<1>1. /\ w \in BudgetWork /\ Eligible(w) /\ w.now \in 1 .. budget_clock
      /\ k \in BudgetSlots /\ e = Renewed(budgets[k], w) /\ f = Charged(e, w)
      /\ budgets' = [budgets EXCEPT ![k] = f]
  BY DEF Taken
<1>2. budgets \in [BudgetSlots -> BudgetEntries]
  BY DEF BudgetInv, BudgetShape
<1>3. \A l \in BudgetSlots : budgets'[l] = IF l = k THEN f ELSE budgets[l]
  BY <1>1, <1>2
<1>4. /\ e.start \in 1 .. budget_clock
      /\ f \in BudgetEntries /\ f.uid = w.uid /\ f.inode = w.inode /\ f.start = e.start
      /\ f.used = e.used + (IF Allowed(e, w.bytes) THEN w.bytes ELSE 0)
      /\ f.used \in 0 .. Budget
  BY <1>1, ChargedEntry
<1>5. w.uid \in ReclaimUids /\ w.inode \in CachedInodes /\ w.bytes \in Nat /\ w.uid # NoUid
  BY <1>1, BudgetAssumption DEF BudgetWork, Eligible
<1>6. <<f.uid, f.inode>> \in Pairs /\ f.uid # NoUid
  BY <1>4, <1>5 DEF Pairs
<1>7. Grant(e, w) \in Nat
  BY <1>5 DEF Grant
<1>8. f.used = e.used + Grant(e, w)
  BY <1>4 DEF Grant
<1> QED BY <1>3, <1>4, <1>6, <1>7, <1>8 DEF Entered

(* The history of the watched pair follows what its entry serves.          *)
LEMMA TakenGrants ==
  ASSUME BudgetInv, NEW s \in Shrinkers, TakeBudget(s),
         NEW w, NEW k, NEW e, NEW f, NEW allowed, Taken(s, w, k, e, f, allowed)
  PROVE  GrantsHeld'
<1> SUFFICES ASSUME ~forgotten'
             PROVE  /\ (\A l \in BudgetSlots : ~Mine(budgets'[l])) => granted' = Nothing
                    /\ \A l \in BudgetSlots :
                         Mine(budgets'[l]) => GrantsFor(budgets'[l], granted', budget_clock, shrink')
  <2>1. budget_clock' = budget_clock
    BY DEF Taken
  <2> QED BY <2>1 DEF GrantsHeld, Mine
<1>1. /\ w = shrink[s] /\ w \in BudgetWork /\ w.now \in 1 .. budget_clock
      /\ k \in BudgetSlots /\ (Own(w.uid, w.inode) # {} => k \in Own(w.uid, w.inode))
      /\ e = Renewed(budgets[k], w) /\ allowed = Allowed(e, w.bytes)
  BY DEF Taken
<1>2. /\ \A l \in BudgetSlots : budgets'[l] = IF l = k THEN f ELSE budgets[l]
      /\ f \in BudgetEntries /\ f.uid = w.uid /\ f.inode = w.inode /\ f.uid # NoUid
      /\ f.start = e.start /\ f.used = e.used + Grant(e, w) /\ Grant(e, w) \in Nat
  <2>1. Entered(w, k, e, f)
    BY TakenEntries
  <2> QED BY <2>1 DEF Entered
<1>3. ~forgotten
  BY DEF Taken
<1>4. /\ (\A l \in BudgetSlots : ~Mine(budgets[l])) => granted = Nothing
      /\ \A l \in BudgetSlots :
           Mine(budgets[l]) => GrantsFor(budgets[l], granted, budget_clock, shrink)
  BY <1>3 DEF BudgetInv, GrantsHeld
<1>5. PICK g \in [Ages -> Nat], clock \in Nat : g = granted /\ clock = budget_clock
  BY DEF BudgetInv, BudgetShape
<1>6. Serves(s, shrink, shrink') /\ Fresh(shrink, clock) /\ Fresh(shrink', clock)
  BY <1>5, WorkTaken
<1>7. PICK e0 \in BudgetEntries : e0 = budgets[k]
  BY <1>1 DEF BudgetInv, BudgetShape
<1>8. PICK b \in Nat : b = Grant(e, w)
  BY <1>2
<1>9. CASE <<w.uid, w.inode>> # Watched
  <2>1. ~Mine(f) /\ ~Mine(budgets[k]) /\ granted' = g
    BY <1>2, <1>5, <1>9 DEF Taken, Mine
  <2>2. \A l \in BudgetSlots : Mine(budgets'[l]) <=> Mine(budgets[l])
    BY <1>2, <2>1
  <2>3. ASSUME NEW l \in BudgetSlots, Mine(budgets'[l])
        PROVE  GrantsFor(budgets'[l], g, clock, shrink')
    <3>1. budgets'[l] = budgets[l]
      BY <1>2, <2>1, <2>3
    <3>2. PICK el \in BudgetEntries : el = budgets[l]
      BY DEF BudgetInv, BudgetShape
    <3>3. GrantsFor(el, g, clock, shrink)
      BY <1>4, <1>5, <2>3, <3>1, <3>2
    <3>4. el.start <= clock /\ el.used = el.used + 0
      <4>1. budgets[l] = FreeBudget \/ budgets[l].start \in 1 .. budget_clock
        BY DEF BudgetInv, BudgetTypeOK
      <4>2. el.used \in Nat
        BY DEF BudgetEntries
      <4> QED BY <1>5, <3>2, <4>1, <4>2 DEF FreeBudget
    <3>5. \A x \in Shrinkers : shrink'[x] # NoWork => shrink'[x] = shrink[x] \/ shrink'[x].now = clock
      BY <1>6 DEF Serves
    <3>6. GrantsFor(el, More(g, 0), clock, shrink')
      BY <3>3, <3>4, <3>5, GrantsKept
    <3>7. More(g, 0) = g
      BY MoreIs
    <3> QED BY <3>1, <3>2, <3>6, <3>7
  <2> QED BY <1>4, <1>5, <2>1, <2>2, <2>3
<1>10. CASE <<w.uid, w.inode>> = Watched
  <2>1. granted' = More(g, b)
    <3>1. granted' = IF allowed THEN More(g, w.bytes) ELSE g
      BY <1>5, <1>10 DEF Taken, More
    <3>2. More(g, 0) = g
      BY MoreIs
    <3> QED BY <1>1, <1>8, <3>1, <3>2 DEF Grant
  <2>2. Mine(f)
    BY <1>2, <1>10 DEF Mine
  <2>3. ASSUME NEW l \in BudgetSlots, l # k
        PROVE  ~Mine(budgets'[l])
    <3>1. SUFFICES ASSUME Mine(budgets[l])
                   PROVE  FALSE
      BY <1>2, <2>3
    <3>2. budgets[l].uid = w.uid /\ budgets[l].inode = w.inode /\ budgets[l].uid # NoUid
      BY <1>10, <3>1 DEF Mine
    <3>3. budgets[k].uid = w.uid /\ budgets[k].inode = w.inode
      BY <1>1, <3>2 DEF Own
    <3> QED BY <1>1, <2>3, <3>2, <3>3 DEF BudgetInv, BudgetsDiffer
  <2>4. f.start = e.start /\ f.used = e.used + b /\ e = Renewed(e0, w)
    BY <1>1, <1>2, <1>7, <1>8
  <2>5. PICK at \in Nat : at = w.now /\ at <= clock /\ clock - at <= MaxBudgetLate
    <3>1. w.now \in Nat /\ shrink[s] # NoWork
      BY <1>1, <1>6 DEF BudgetWork, Serves
    <3>2. w.now <= clock
      BY <1>1, <1>5, <3>1
    <3> QED BY <1>1, <1>6, <3>1, <3>2 DEF Fresh
  <2>6. CASE Mine(e0)
    <3>1. GrantsFor(e0, g, clock, shrink)
      BY <1>1, <1>4, <1>5, <1>7, <2>6
    <3>2. e0.uid = w.uid /\ e0.inode = w.inode /\ e0.uid # NoUid
      BY <1>10, <2>6 DEF Mine
    <3>3. 1 <= e0.start /\ e0.start <= clock /\ e0.used <= Budget
      <4>1. budgets[k] # FreeBudget
        BY <1>7, <3>2 DEF FreeBudget
      <4>2. e0.start \in 1 .. clock /\ e0.used \in 0 .. Budget
        BY <1>1, <1>5, <1>7, <4>1 DEF BudgetInv, BudgetTypeOK
      <4>3. Budget \in Nat
        BY BudgetConstants
      <4> QED BY <4>2, <4>3
    <3>4. GrantsFor(f, More(g, b), clock, shrink')
      <4>1. w = shrink[s] /\ w \in BudgetWork /\ w.now <= clock
        BY <1>1, <2>5
      <4> QED BY <1>6, <2>4, <3>1, <3>2, <3>3, <4>1, WatchedServes
    <3> QED BY <1>1, <1>2, <2>1, <2>2, <2>3, <1>5, <3>4
  <2>7. CASE ~Mine(e0)
    <3>1. e0.uid # w.uid \/ e0.inode # w.inode
      BY <1>2, <1>10, <2>7 DEF Mine
    <3>2. Own(w.uid, w.inode) = {}
      BY <1>1, <1>7, <3>1 DEF Own
    <3>3. g = Nothing
      <4>1. \A l \in BudgetSlots : ~Mine(budgets[l])
        BY <1>10, <3>2 DEF Own, Mine
      <4> QED BY <1>4, <1>5, <4>1
    <3>4. GrantsFor(f, More(Nothing, b), clock, shrink')
      BY <1>1, <1>6, <2>4, <2>5, <3>1, WatchedBegins
    <3> QED BY <1>1, <1>2, <2>1, <2>2, <2>3, <1>5, <3>3, <3>4
  <2> QED BY <2>6, <2>7
<1> QED BY <1>9, <1>10

-----------------------------------------------------------------------------
LEMMA TakeBudgetKeeps ==
  ASSUME BudgetInv, NEW s \in Shrinkers, TakeBudget(s)
  PROVE  BudgetInv'
<1>1. /\ shrink' = [shrink EXCEPT ![s] = NoWork]
      /\ Serves(s, shrink, shrink')
  BY WorkTaken
<1>2. budget_clock' = budget_clock /\ clearing' = clearing
  BY DEF TakeBudget
<1>3. ShrinkersLate'
  BY <1>1, <1>2 DEF BudgetInv, ShrinkersLate, Serves
<1>4. shrink' \in [Shrinkers -> {NoWork} \cup BudgetWork]
  BY <1>1 DEF BudgetInv, BudgetShape
<1>5. CASE ~Eligible(shrink[s])
  <2>1. UNCHANGED <<budget_clock, clearing, budgets, forgotten, granted>>
    BY <1>5 DEF TakeBudget
  <2>2. BudgetShape'
    BY <1>4, <2>1 DEF BudgetInv, BudgetShape
  <2>3. \A x \in Shrinkers : shrink'[x] # NoWork =>
            shrink'[x] = shrink[x] \/ shrink'[x].now = budget_clock
    BY <1>1 DEF Serves
  <2>4. BudgetTypeOK' /\ BudgetsDiffer' /\ GrantsHeld'
    BY <2>1, <2>3, SameBudgets
  <2> QED BY <1>3, <2>2, <2>4 DEF BudgetInv
<1>6. CASE Eligible(shrink[s])
  <2>1. PICK w, k, e, f, allowed : Taken(s, w, k, e, f, allowed)
    BY <1>6, BudgetTaken
  <2>2. /\ \A l \in BudgetSlots : budgets'[l] = IF l = k THEN f ELSE budgets[l]
        /\ f \in BudgetEntries /\ f.uid = w.uid /\ f.inode = w.inode /\ f.uid # NoUid
        /\ <<f.uid, f.inode>> \in Pairs
        /\ f.start \in 1 .. budget_clock /\ f.used \in 0 .. Budget
    <3>1. Entered(w, k, e, f)
      BY <2>1, TakenEntries
    <3> QED BY <3>1 DEF Entered
  <2>3. /\ budgets' = [budgets EXCEPT ![k] = f] /\ k \in BudgetSlots
        /\ (Own(w.uid, w.inode) # {} => k \in Own(w.uid, w.inode))
        /\ forgotten => forgotten'
        /\ forgotten' => granted' = Nothing
    BY <2>1 DEF Taken
  <2>4. granted' \in [Ages -> Nat]
    <3>1. granted \in [Ages -> Nat] /\ Nothing \in [Ages -> Nat]
      BY DEF BudgetInv, BudgetShape, Nothing
    <3>2. w \in BudgetWork /\ w.bytes \in Nat
      BY <2>1, BudgetAssumption DEF Taken, BudgetWork
    <3>3. [granted EXCEPT ![0] = @ + w.bytes] \in [Ages -> Nat]
      <4>1. granted[0] + w.bytes \in Nat
        BY <3>1, <3>2, AgesFinite
      <4> QED BY <3>1, <4>1
    <3>4. \/ granted' = Nothing \/ granted' = granted
          \/ granted' = [granted EXCEPT ![0] = @ + w.bytes]
      BY <2>1 DEF Taken
    <3> QED BY <3>1, <3>3, <3>4
  <2>5. BudgetShape'
    <3>1. budgets' \in [BudgetSlots -> BudgetEntries]
      BY <2>2, <2>3 DEF BudgetInv, BudgetShape
    <3> QED BY <1>2, <1>4, <2>3, <2>4, <3>1 DEF BudgetInv, BudgetShape
  <2>6. BudgetTypeOK'
    <3> SUFFICES ASSUME NEW l \in BudgetSlots
                 PROVE  \/ budgets'[l] = FreeBudget
                        \/ /\ <<budgets'[l].uid, budgets'[l].inode>> \in Pairs
                           /\ budgets'[l].start \in 1 .. budget_clock
                           /\ budgets'[l].used \in 0 .. Budget
      BY <1>2 DEF BudgetTypeOK
    <3>1. CASE l = k
      BY <2>2, <3>1
    <3>2. CASE l # k
      BY <2>2, <3>2 DEF BudgetInv, BudgetTypeOK
    <3> QED BY <3>1, <3>2
  <2>7. BudgetsDiffer'
    <3>1. ASSUME NEW l \in BudgetSlots, budgets[l].uid = w.uid, budgets[l].inode = w.inode
          PROVE  l = k
      <4>1. k \in Own(w.uid, w.inode)
        BY <2>3, <3>1 DEF Own
      <4> QED BY <2>2, <3>1, <4>1 DEF Own, BudgetInv, BudgetsDiffer
    <3> SUFFICES ASSUME NEW j \in BudgetSlots, NEW l \in BudgetSlots, budgets'[j].uid # NoUid,
                        budgets'[j].uid = budgets'[l].uid, budgets'[j].inode = budgets'[l].inode
                 PROVE  j = l
      BY DEF BudgetsDiffer
    <3>2. CASE j = k \/ l = k
      BY <2>2, <3>1, <3>2
    <3>3. CASE j # k /\ l # k
      BY <2>2, <3>3 DEF BudgetInv, BudgetsDiffer
    <3> QED BY <3>2, <3>3
  <2>8. GrantsHeld'
    BY <2>1, TakenGrants
  <2> QED BY <1>3, <2>5, <2>6, <2>7, <2>8 DEF BudgetInv
<1> QED BY <1>5, <1>6

LEMMA BudgetStep == BudgetInv /\ [BudgetNext]_budgetVars => BudgetInv'
<1> SUFFICES ASSUME BudgetInv, [BudgetNext]_budgetVars
             PROVE  BudgetInv'
  OBVIOUS
<1>1. CASE UNCHANGED budgetVars
  BY <1>1 DEF budgetVars, BudgetInv, BudgetShape, ShrinkersLate, BudgetTypeOK, BudgetsDiffer,
              GrantsHeld
<1>2. ASSUME NEW s \in Shrinkers, NEW uid \in ReclaimUids, NEW inode \in CachedInodes,
             NEW bytes \in FolioSizes, ShrinkFolio(s, uid, inode, bytes)
      PROVE  BudgetInv'
  BY <1>2, ShrinkFolioKeeps
<1>3. ASSUME NEW s \in Shrinkers, TakeBudget(s)
      PROVE  BudgetInv'
  BY <1>3, TakeBudgetKeeps
<1>4. CASE SwitchOn \/ SwitchOff
  BY <1>4, SwitchKeeps
<1>5. CASE ClearBudgets
  BY <1>5, ClearBudgetsKeeps
<1>6. CASE BudgetTick
  BY <1>6, BudgetTickKeeps
<1> QED BY <1>1, <1>2, <1>3, <1>4, <1>5, <1>6 DEF BudgetNext

LEMMA OnePair ==
  ASSUME BudgetInv
  PROVE  OneBudgetPerPair
<1> SUFFICES ASSUME NEW p \in Pairs
             PROVE  Cardinality(Own(p[1], p[2])) <= 1
  BY DEF OneBudgetPerPair
<1>1. p[1] # NoUid
  BY DEF Pairs
<1>2. \A k, l \in Own(p[1], p[2]) : k = l
  BY <1>1 DEF Own, BudgetInv, BudgetsDiffer
<1>3. CASE Own(p[1], p[2]) = {}
  BY <1>3, FS_EmptySet
<1>4. CASE Own(p[1], p[2]) # {}
  <2>1. PICK k : k \in Own(p[1], p[2])
    BY <1>4
  <2>2. Own(p[1], p[2]) = {k}
    BY <1>2, <2>1
  <2>3. Cardinality({k}) = 1
    BY FS_Singleton
  <2> QED BY <2>2, <2>3
<1> QED BY <1>3, <1>4

LEMMA GrantsWithin ==
  ASSUME BudgetInv
  PROVE  GrantsBounded
<1> SUFFICES ASSUME ~forgotten
             PROVE  MapThenSumSet(LAMBDA a : granted[a], Ages) <= MostBudgets * Budget
  BY DEF GrantsBounded
<1>1. PICK g \in [Ages -> Nat] : g = granted
  BY DEF BudgetInv, BudgetShape
<1>2. PICK all \in Nat : all = All
  <2>1. Behind(shrink, 0) \in SUBSET Behind(shrink, 0)
    OBVIOUS
  <2> QED BY <2>1, FewerBehind
<1>3. PICK most \in Nat :
        /\ most = MostBudgets * Budget
        /\ \A free \in Nat : free <= all => (all + free) * Budget + Budget <= most
  <2>1. MostBudgets = (all + all) + 1 /\ MostBudgets \in Nat
    BY <1>2 DEF MostBudgets, All
  <2>2. MostBudgets * Budget \in Nat
    BY <2>1, BudgetConstants, Multiples
  <2>3. ASSUME NEW free \in Nat, free <= all
        PROVE  (all + free) * Budget + Budget <= MostBudgets * Budget
    <3>1. (all + free) + 1 <= MostBudgets /\ all + free \in Nat
      BY <2>1, <2>3
    <3> QED BY <2>1, <3>1, BudgetConstants, Multiples
  <2> QED BY <2>2, <2>3
<1>4. CASE \A k \in BudgetSlots : ~Mine(budgets[k])
  <2>1. g = Nothing
    BY <1>1, <1>4 DEF BudgetInv, GrantsHeld
  <2>2. PICK P : P = [i \in 0 .. Window |-> 0]
    OBVIOUS
  <2>3. PrefixOf(P, g) /\ P[Window] = 0
    <3>1. \A i \in Ages : i \in 0 .. Window /\ i + 1 \in 0 .. Window /\ g[i] = 0
      BY <2>1, BudgetConstants DEF Ages, Nothing
    <3>2. Window \in 0 .. Window /\ 0 \in 0 .. Window
      BY BudgetConstants
    <3> QED BY <2>2, <3>1, <3>2 DEF PrefixOf
  <2>4. MapThenSumSet(LAMBDA a : g[a], Ages) = 0
    BY <2>3, GrantedIs
  <2>5. MapThenSumSet(LAMBDA a : granted[a], Ages) = 0
    BY <1>1, <2>4
  <2> QED BY <1>3, <2>5
<1>5. CASE \E k \in BudgetSlots : Mine(budgets[k])
  <2>1. PICK k \in BudgetSlots : Mine(budgets[k])
    BY <1>5
  <2>2. PICK e \in BudgetEntries : e = budgets[k]
    BY DEF BudgetInv, BudgetShape
  <2>3. PICK used \in Nat : used = e.used /\ used <= Budget
    <3>1. budgets[k] # FreeBudget
      BY <2>1 DEF Mine, FreeBudget
    <3>2. e.used \in 0 .. Budget
      BY <2>2, <3>1 DEF BudgetInv, BudgetTypeOK
    <3> QED BY <3>2, BudgetConstants
  <2>4. GrantsFor(e, g, budget_clock, shrink)
    BY <1>1, <2>1, <2>2 DEF BudgetInv, GrantsHeld
  <2>5. PICK P \in [0 .. Window -> Nat], m \in Int :
     /\ PrefixOf(P, g)
     /\ Held(P, budget_clock, e.start, used, m, Ahead(shrink, e.start))
    BY <2>3, <2>4 DEF GrantsFor
  <2>6. PICK free \in Nat : free = Ahead(shrink, e.start) /\ free <= all
    <3>1. Behind(shrink, e.start) \in SUBSET Shrinkers /\ Shrinkers \in SUBSET Shrinkers
      BY DEF Behind
    <3> QED BY <1>2, <3>1, AheadCounts DEF Ahead
  <2>7. P[Window] <= (all + free) * Budget + used
    BY <1>2, <2>5, <2>6, BudgetConstants DEF Held
  <2>8. PICK some \in Nat : some = (all + free) * Budget /\ some + Budget <= most
    <3>1. (all + free) * Budget \in Nat
      BY BudgetConstants, Multiples
    <3> QED BY <1>3, <2>6, <3>1
  <2>9. P[Window] \in Nat /\ P[Window] <= some + used
    BY <2>7, <2>8, BudgetConstants
  <2>10. P[Window] <= most
    BY <2>3, <2>8, <2>9, BudgetConstants
  <2>11. MapThenSumSet(LAMBDA a : g[a], Ages) = P[Window]
    BY <2>5, GrantedIs
  <2>12. MapThenSumSet(LAMBDA a : granted[a], Ages) = P[Window]
    BY <1>1, <2>11
  <2> QED BY <1>3, <2>10, <2>12
<1> QED BY <1>4, <1>5

(* The budgets of reclaim (pagecache_demo_take_budget): an entry stays     *)
(* within its budget, no foreground uid and inode have two, and however    *)
(* many shrinkers bring clocks they read early, no pair is granted more    *)
(* than two budgets per shrinker and one in any stretch as long as a       *)
(* window, while its entry is not given up.                                *)
THEOREM BudgetsAlwaysTrue == BudgetSpec => []BudgetsTrue
<1>1. BudgetInv => BudgetsTrue
  BY OnePair, GrantsWithin DEF BudgetsTrue, BudgetInv
<1> QED BY BudgetInitially, BudgetStep, <1>1, PTL DEF BudgetSpec

=============================================================================
