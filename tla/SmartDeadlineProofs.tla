------------------------- MODULE SmartDeadlineProofs -------------------------
(***************************************************************************)
(* Proofs about SmartDeadline, for any set of requests.                    *)
(*                                                                         *)
(* ListInv says where a request is: on the tree and the FIFO of its queue  *)
(* and direction, or on its queue's dispatch list, and nowhere unless it   *)
(* is queued.  It is inductive as long as no tree is told to remove a      *)
(* request that another one holds: dd_request_merged would move it to a    *)
(* tree of another queue than its FIFO's.                                  *)
(*                                                                         *)
(* RootInv, a meta for every counted request and the same queue in both,   *)
(* is what keeps removals on the right tree.  It holds when the pool has a *)
(* meta for each request (PoolCovers), which the code assumes but does not *)
(* ensure when the tag set grows.  The two together carry FifoSorted and   *)
(* the refinement of ElevatorOrder.  QueuedAgrees needs also that the      *)
(* counters can tell the requests apart (SpanCovers).                      *)
(***************************************************************************)
EXTENDS SmartDeadline, SequenceTheorems, FiniteSetTheorems, TLAPS

(***************************************************************************)
(* Lists as sequences without repetition: what unlinking, linking and      *)
(* replacing an element does.                                              *)
(***************************************************************************)

(* The position RemoveFirst takes out.                                     *)
LEMMA RemoveFirstAt ==
  ASSUME NEW s \in Seq(Requests), IsInjective(s), NEW i \in 1 .. Len(s)
  PROVE  RemoveFirst(s, s[i]) = SubSeq(s, 1, i - 1) \o SubSeq(s, i + 1, Len(s))
<1>1. DOMAIN s = 1 .. Len(s) /\ Len(s) \in Nat
  BY LenProperties
<1>2. {j \in 1 .. Len(s) : s[j] = s[i]} = {i}
  BY <1>1 DEF IsInjective
<1>3. SelectInSeq(s, LAMBDA v : v = s[i]) = i
  <2>1. Min({i}) = i
    BY DEF Min
  <2> QED BY <1>2, <2>1 DEF SelectInSeq
<1>4. \E j \in 1 .. Len(s) : s[j] = s[i]
  OBVIOUS
<1> QED BY <1>3, <1>4 DEF RemoveFirst, RemoveAt

(* The elements of t stand in s in the same order.                         *)
InOrderOf(t, s) ==
  \A i, j \in DOMAIN t : i < j =>
    \E k, l \in DOMAIN s : k < l /\ s[k] = t[i] /\ s[l] = t[j]

LEMMA ElementsOf ==
  ASSUME NEW s \in Seq(Requests)
  PROVE  /\ DOMAIN s = 1 .. Len(s) /\ Len(s) \in Nat
         /\ ToSet(s) \subseteq Requests
         /\ s # << >> => Len(s) > 0 /\ Head(s) = s[1]
         /\ s = << >> <=> ToSet(s) = {}
<1>1. DOMAIN s = 1 .. Len(s) /\ Len(s) \in Nat /\ s \in [1 .. Len(s) -> Requests]
  BY LenProperties
<1>2. s # << >> => Len(s) > 0
  BY EmptySeq
<1>3. s # << >> => ToSet(s) # {}
  BY <1>1, <1>2 DEF ToSet
<1>4. s = << >> => ToSet(s) = {}
  BY <1>1 DEF ToSet
<1>5. ToSet(s) \subseteq Requests
  BY <1>1 DEF ToSet
<1>6. s # << >> => Head(s) = s[1]
  OBVIOUS
<1> QED BY <1>1, <1>2, <1>3, <1>4, <1>5, <1>6

LEMMA RemoveFirstLinked ==
  ASSUME NEW s \in Seq(Requests), IsInjective(s), NEW e \in ToSet(s)
  PROVE  LET t == RemoveFirst(s, e)
         IN  /\ t \in Seq(Requests)
             /\ IsInjective(t)
             /\ ToSet(t) = ToSet(s) \ {e}
             /\ InOrderOf(t, s)
<1> DEFINE t == RemoveFirst(s, e)
<1>1. DOMAIN s = 1 .. Len(s) /\ Len(s) \in Nat /\ s \in [1 .. Len(s) -> Requests]
  BY LenProperties
<1>2. PICK i \in 1 .. Len(s) : s[i] = e
  BY <1>1 DEF ToSet
<1> DEFINE a == SubSeq(s, 1, i - 1)
           b == SubSeq(s, i + 1, Len(s))
<1>3. t = a \o b
  BY <1>2, RemoveFirstAt
<1>4. /\ a \in Seq(Requests) /\ Len(a) = i - 1
      /\ \A j \in 1 .. i - 1 : a[j] = s[j]
  BY <1>1, SubSeqProperties
<1>5. /\ b \in Seq(Requests) /\ Len(b) = Len(s) - i
      /\ \A j \in 1 .. Len(s) - i : b[j] = s[j + i]
  <2>1. /\ b \in Seq(Requests)
        /\ Len(b) = IF i + 1 <= Len(s) THEN Len(s) - (i + 1) + 1 ELSE 0
        /\ \A j \in 1 .. Len(s) - (i + 1) + 1 : b[j] = s[i + 1 + j - 1]
    <3>1. ASSUME NEW m \in Int, NEW n \in Int, \A j \in m .. n : s[j] \in Requests
          PROVE  /\ SubSeq(s, m, n) \in Seq(Requests)
                 /\ Len(SubSeq(s, m, n)) = IF m <= n THEN n - m + 1 ELSE 0
                 /\ \A j \in 1 .. n - m + 1 : SubSeq(s, m, n)[j] = s[m + j - 1]
      BY <3>1, SubSeqProperties
    <3>2. i + 1 \in Int /\ Len(s) \in Int
      BY <1>1
    <3>3. \A j \in i + 1 .. Len(s) : s[j] \in Requests
      BY <1>1
    <3> QED BY <3>1, <3>2, <3>3
  <2> HIDE DEF b
  <2>2. Len(b) = Len(s) - i
    <3>1. CASE i + 1 <= Len(s)
      BY <1>1, <2>1, <3>1
    <3>2. CASE i = Len(s)
      <4>1. ~(i + 1 <= Len(s))
        BY <1>1, <3>2
      <4> QED BY <1>1, <2>1, <3>2, <4>1
    <3>3. i + 1 <= Len(s) \/ i = Len(s)
      <4>1. i \in Nat /\ Len(s) \in Nat /\ i <= Len(s)
        BY <1>1
      <4> QED BY <4>1
    <3> QED BY <3>1, <3>2, <3>3
  <2>3. Len(s) - (i + 1) + 1 = Len(s) - i
    BY <1>1
  <2>4. \A j \in 1 .. Len(s) - i : b[j] = s[j + i]
    <3> SUFFICES ASSUME NEW j \in 1 .. Len(s) - i PROVE b[j] = s[j + i]
      OBVIOUS
    <3>1. i + 1 + j - 1 = j + i
      BY <1>1
    <3> QED BY <2>1, <2>3, <3>1
  <2> QED BY <2>1, <2>2, <2>4
<1> HIDE DEF a, b
<1>6. /\ t \in Seq(Requests) /\ Len(t) = Len(s) - 1
      /\ \A j \in 1 .. Len(t) : t[j] = IF j < i THEN s[j] ELSE s[j + 1]
  <2>1. /\ a \o b \in Seq(Requests) /\ Len(a \o b) = Len(a) + Len(b)
        /\ \A j \in 1 .. Len(a) + Len(b) :
             (a \o b)[j] = IF j <= Len(a) THEN a[j] ELSE b[j - Len(a)]
    <3>1. a \in Seq(Requests) /\ b \in Seq(Requests)
      BY <1>4, <1>5
    <3> QED BY <3>1, ConcatProperties
  <2> HIDE DEF t
  <2>2. Len(t) = Len(s) - 1
    BY <1>1, <1>3, <1>4, <1>5, <2>1
  <2>3. ASSUME NEW j \in 1 .. Len(t) PROVE t[j] = IF j < i THEN s[j] ELSE s[j + 1]
    <3>1. CASE j < i
      BY <1>1, <1>3, <1>4, <1>5, <2>1, <2>2, <3>1
    <3>2. CASE ~(j < i)
      <4>1. j - (i - 1) \in 1 .. Len(s) - i /\ j - (i - 1) + i = j + 1
        BY <1>1, <2>2, <3>2
      <4>2. t[j] = b[j - (i - 1)]
        BY <1>1, <1>3, <1>4, <1>5, <2>1, <2>2, <3>2
      <4> QED BY <1>5, <3>2, <4>1, <4>2
    <3> QED BY <3>1, <3>2
  <2> QED BY <1>3, <2>1, <2>2, <2>3
<1> HIDE DEF t
<1>7. DOMAIN t = 1 .. Len(t)
  BY <1>6, LenProperties
<1>8. IsInjective(t)
  <2> SUFFICES ASSUME NEW j \in 1 .. Len(t), NEW k \in 1 .. Len(t), t[j] = t[k]
               PROVE  j = k
    BY <1>7 DEF IsInjective
  <2> DEFINE u(n) == IF n < i THEN n ELSE n + 1
  <2>1. \A n \in 1 .. Len(t) : u(n) \in 1 .. Len(s) /\ t[n] = s[u(n)]
    BY <1>1, <1>6
  <2>2. s[u(j)] = s[u(k)] /\ u(j) \in DOMAIN s /\ u(k) \in DOMAIN s
    BY <1>1, <2>1
  <2>3. u(j) = u(k)
    BY <2>2 DEF IsInjective
  <2> QED BY <2>3, <1>1, <1>6
<1>9. ToSet(t) = ToSet(s) \ {e}
  <2>1. ASSUME NEW n \in 1 .. Len(t) PROVE t[n] \in ToSet(s) \ {e}
    <3>1. \E m \in 1 .. Len(s) : m # i /\ t[n] = s[m]
      <4>1. CASE n < i
        BY <1>1, <1>6, <4>1
      <4>2. CASE ~(n < i)
        <5>1. n + 1 \in 1 .. Len(s) /\ n + 1 # i
          BY <1>1, <1>6, <4>2
        <5> QED BY <1>6, <4>2, <5>1
      <4> QED BY <4>1, <4>2
    <3> QED BY <1>1, <1>2, <3>1 DEF ToSet, IsInjective
  <2>2. ASSUME NEW m \in 1 .. Len(s), s[m] # e PROVE \E n \in 1 .. Len(t) : t[n] = s[m]
    <3>1. CASE m < i
      BY <1>1, <1>6, <3>1
    <3>2. CASE m > i
      <4>1. m - 1 \in 1 .. Len(t) /\ ~(m - 1 < i) /\ m - 1 + 1 = m
        BY <1>1, <1>6, <3>2
      <4> QED BY <1>6, <4>1
    <3> QED BY <1>1, <1>2, <2>2, <3>1, <3>2
  <2>3. ToSet(t) = {t[n] : n \in 1 .. Len(t)} /\ ToSet(s) = {s[m] : m \in 1 .. Len(s)}
    BY <1>1, <1>7 DEF ToSet
  <2> QED BY <2>1, <2>2, <2>3
<1>10. InOrderOf(t, s)
  <2> SUFFICES ASSUME NEW j \in DOMAIN t, NEW k \in DOMAIN t, j < k
               PROVE  \E m, n \in DOMAIN s : m < n /\ s[m] = t[j] /\ s[n] = t[k]
    BY DEF InOrderOf
  <2> DEFINE u(n) == IF n < i THEN n ELSE n + 1
  <2>1. \A n \in 1 .. Len(t) : u(n) \in 1 .. Len(s) /\ t[n] = s[u(n)]
    BY <1>1, <1>6
  <2>2. u(j) < u(k)
    BY <1>1, <1>6, <1>7
  <2>3. u(j) \in DOMAIN s /\ u(k) \in DOMAIN s
    BY <1>1, <1>7, <2>1
  <2> QED BY <1>7, <2>1, <2>2, <2>3
<1> QED BY <1>6, <1>8, <1>9, <1>10 DEF t

(* What list_del leaves: the others, once each and in their order.         *)
LEMMA RemoveFirstKeeps ==
  ASSUME NEW s \in Seq(Requests), IsInjective(s), NEW e
  PROVE  LET t == RemoveFirst(s, e)
         IN  /\ t \in Seq(Requests)
             /\ IsInjective(t)
             /\ ToSet(t) = ToSet(s) \ {e}
             /\ InOrderOf(t, s)
             /\ e \notin ToSet(s) => t = s
<1>1. CASE e \in ToSet(s)
  BY <1>1, RemoveFirstLinked
<1>2. CASE e \notin ToSet(s)
  <2>1. DOMAIN s = 1 .. Len(s)
    BY ElementsOf
  <2>2. RemoveFirst(s, e) = s
    BY <1>2, <2>1 DEF RemoveFirst, ToSet
  <2>3. InOrderOf(s, s)
    BY DEF InOrderOf
  <2> QED BY <1>2, <2>2, <2>3
<1> QED BY <1>1, <1>2

LEMMA RemoveHead ==
  ASSUME NEW s \in Seq(Requests), IsInjective(s), s # << >>
  PROVE  RemoveFirst(s, Head(s)) = Tail(s) /\ Head(s) \in ToSet(s)
<1>1. Len(s) \in Nat /\ Len(s) > 0 /\ Head(s) = s[1] /\ DOMAIN s = 1 .. Len(s)
  BY ElementsOf
<1>2. RemoveFirst(s, Head(s)) = SubSeq(s, 1, 0) \o SubSeq(s, 2, Len(s))
  <2>1. 1 \in 1 .. Len(s) /\ 1 - 1 = 0 /\ 1 + 1 = 2
    BY <1>1
  <2>2. RemoveFirst(s, s[1]) = SubSeq(s, 1, 1 - 1) \o SubSeq(s, 1 + 1, Len(s))
    BY <2>1, RemoveFirstAt
  <2> QED BY <1>1, <2>1, <2>2
<1>3. SubSeq(s, 1, 0) = << >> /\ Tail(s) = SubSeq(s, 2, Len(s)) /\ Tail(s) \in Seq(Requests)
  BY SubSeqEmpty, TailIsSubSeq, HeadTailProperties
<1>4. << >> \o Tail(s) = Tail(s)
  BY <1>3, ConcatEmptySeq
<1> QED BY <1>1, <1>2, <1>3, <1>4 DEF ToSet
(* Linking at the tail and at the head.                                    *)
LEMMA AppendKeeps ==
  ASSUME NEW s \in Seq(Requests), IsInjective(s),
         NEW e \in Requests, e \notin ToSet(s)
  PROVE  /\ Append(s, e) \in Seq(Requests)
         /\ IsInjective(Append(s, e))
         /\ ToSet(Append(s, e)) = ToSet(s) \cup {e}
<1> DEFINE t == Append(s, e)
<1>1. DOMAIN s = 1 .. Len(s) /\ Len(s) \in Nat
  BY LenProperties
<1>2. /\ t \in Seq(Requests) /\ Len(t) = Len(s) + 1
      /\ \A i \in 1 .. Len(s) : t[i] = s[i]
      /\ t[Len(s) + 1] = e
  BY AppendProperties
<1> HIDE DEF t
<1>3. DOMAIN t = 1 .. Len(s) + 1
  BY <1>2, LenProperties
<1>4. \A i \in DOMAIN t : IF i = Len(s) + 1 THEN t[i] = e
                          ELSE i \in DOMAIN s /\ t[i] = s[i] /\ t[i] \in ToSet(s)
  BY <1>1, <1>2, <1>3 DEF ToSet
<1>5. IsInjective(t)
  BY <1>4 DEF IsInjective
<1>6. ToSet(s) \cup {e} \subseteq ToSet(t)
  BY <1>1, <1>2, <1>3 DEF ToSet
<1>7. ToSet(t) \subseteq ToSet(s) \cup {e}
  BY <1>4 DEF ToSet
<1> QED BY <1>2, <1>5, <1>6, <1>7 DEF t

LEMMA ConsKeeps ==
  ASSUME NEW s \in Seq(Requests), IsInjective(s),
         NEW e \in Requests, e \notin ToSet(s)
  PROVE  /\ <<e>> \o s \in Seq(Requests)
         /\ IsInjective(<<e>> \o s)
         /\ ToSet(<<e>> \o s) = ToSet(s) \cup {e}
<1> DEFINE t == <<e>> \o s
<1>1. DOMAIN s = 1 .. Len(s) /\ Len(s) \in Nat
  BY LenProperties
<1>2. <<e>> \in Seq(Requests) /\ Len(<<e>>) = 1 /\ <<e>>[1] = e
  OBVIOUS
<1>3. /\ t \in Seq(Requests) /\ Len(t) = 1 + Len(s)
      /\ \A i \in 1 .. 1 + Len(s) : t[i] = IF i <= 1 THEN e ELSE s[i - 1]
  <2>1. /\ t \in Seq(Requests) /\ Len(t) = Len(<<e>>) + Len(s)
        /\ \A i \in 1 .. Len(<<e>>) + Len(s) :
             t[i] = IF i <= Len(<<e>>) THEN <<e>>[i] ELSE s[i - Len(<<e>>)]
    BY <1>2, ConcatProperties
  <2> HIDE DEF t
  <2> QED BY <1>1, <1>2, <2>1
<1> HIDE DEF t
<1>4. DOMAIN t = 1 .. 1 + Len(s)
  BY <1>3, LenProperties
<1>5. \A i \in DOMAIN t : IF i = 1 THEN t[i] = e
                          ELSE i - 1 \in DOMAIN s /\ t[i] = s[i - 1] /\ t[i] \in ToSet(s)
  BY <1>1, <1>3, <1>4 DEF ToSet
<1>6. IsInjective(t)
  <2> SUFFICES ASSUME NEW i \in DOMAIN t, NEW j \in DOMAIN t, t[i] = t[j]
               PROVE  i = j
    BY DEF IsInjective
  <2>1. i = 1 <=> j = 1
    BY <1>5
  <2>2. CASE i # 1
    <3>1. i - 1 \in DOMAIN s /\ j - 1 \in DOMAIN s /\ s[i - 1] = s[j - 1]
      BY <1>5, <2>1, <2>2
    <3>2. i - 1 = j - 1
      BY <3>1 DEF IsInjective
    <3> QED BY <3>2, <1>1, <1>4
  <2> QED BY <2>1, <2>2
<1>7. ToSet(s) \cup {e} \subseteq ToSet(t)
  <2>1. e \in ToSet(t)
    BY <1>1, <1>3, <1>4 DEF ToSet
  <2>2. ASSUME NEW i \in DOMAIN s PROVE s[i] \in ToSet(t)
    <3>1. i + 1 \in DOMAIN t /\ t[i + 1] = s[i]
      BY <1>1, <1>3, <1>4
    <3> QED BY <3>1 DEF ToSet
  <2> QED BY <2>1, <2>2 DEF ToSet
<1>8. ToSet(t) \subseteq ToSet(s) \cup {e}
  BY <1>5 DEF ToSet
<1> QED BY <1>3, <1>6, <1>7, <1>8 DEF t

(* e takes the place of o.                                                 *)
LEMMA ReplaceAllKeeps ==
  ASSUME NEW s \in Seq(Requests), IsInjective(s), NEW o \in ToSet(s),
         NEW e \in Requests, e \notin ToSet(s)
  PROVE  LET t == ReplaceAll(s, o, e)
         IN  /\ t \in Seq(Requests)
             /\ IsInjective(t)
             /\ ToSet(t) = (ToSet(s) \ {o}) \cup {e}
             /\ DOMAIN t = DOMAIN s
             /\ \A i \in DOMAIN s : t[i] = IF s[i] = o THEN e ELSE s[i]
<1> DEFINE t == ReplaceAll(s, o, e)
<1>1. DOMAIN s = 1 .. Len(s) /\ Len(s) \in Nat /\ s \in [1 .. Len(s) -> Requests]
  BY LenProperties
<1>2. DOMAIN t = DOMAIN s /\ \A i \in DOMAIN s : t[i] = IF s[i] = o THEN e ELSE s[i]
  BY <1>1 DEF ReplaceAll
<1>3. t \in [1 .. Len(s) -> Requests]
  BY <1>1 DEF ReplaceAll
<1>4. t \in Seq(Requests)
  <2> HIDE DEF t
  <2> QED BY <1>1, <1>3
<1> HIDE DEF t
<1>5. \A i \in DOMAIN s : s[i] # e
  BY DEF ToSet
<1>6. IsInjective(t)
  BY <1>2, <1>5 DEF IsInjective
<1>7. PICK k \in DOMAIN s : s[k] = o
  BY DEF ToSet
<1>8. e \in ToSet(t)
  BY <1>2, <1>7 DEF ToSet
<1>9. ToSet(s) \ {o} \subseteq ToSet(t)
  BY <1>2 DEF ToSet
<1>10. ToSet(t) \subseteq (ToSet(s) \ {o}) \cup {e}
  BY <1>2 DEF ToSet
<1>11. o \notin ToSet(t)
  BY <1>2, <1>5 DEF ToSet
<1>12. ToSet(t) = (ToSet(s) \ {o}) \cup {e}
  BY <1>8, <1>9, <1>10
<1> QED BY <1>2, <1>4, <1>6, <1>12 DEF t

(* Nothing takes the place of what is not there.                           *)
LEMMA ReplaceNothing ==
  ASSUME NEW s \in Seq(Requests), NEW o, o \notin ToSet(s), NEW e
  PROVE  ReplaceAll(s, o, e) = s
<1>1. DOMAIN s = 1 .. Len(s) /\ s = [i \in 1 .. Len(s) |-> s[i]]
  BY LenProperties
<1>2. \A i \in 1 .. Len(s) : s[i] # o
  BY <1>1 DEF ToSet
<1>3. ReplaceAll(s, o, e) = [i \in 1 .. Len(s) |-> s[i]]
  BY <1>2 DEF ReplaceAll
<1> QED BY <1>1, <1>3

(* A list by the times of its elements.                                    *)
Sorted(s, time) ==
  \A i, j \in DOMAIN s : i < j => time[s[i]] <= time[s[j]]

LEMMA SortedThinned ==
  ASSUME NEW s, NEW t, NEW time, Sorted(s, time), InOrderOf(t, s)
  PROVE  Sorted(t, time)
<1> SUFFICES ASSUME NEW i \in DOMAIN t, NEW j \in DOMAIN t, i < j
             PROVE  time[t[i]] <= time[t[j]]
  BY DEF Sorted
<1>1. PICK k, l \in DOMAIN s : k < l /\ s[k] = t[i] /\ s[l] = t[j]
  BY DEF InOrderOf
<1>2. time[s[k]] <= time[s[l]]
  BY <1>1 DEF Sorted
<1> QED BY <1>1, <1>2

LEMMA SortedAlike ==
  ASSUME NEW s, NEW time, NEW later, Sorted(s, time),
         \A r \in ToSet(s) : later[r] = time[r]
  PROVE  Sorted(s, later)
BY DEF Sorted, ToSet

LEMMA SortedAppend ==
  ASSUME NEW s \in Seq(Requests), NEW time, NEW now \in Nat, Sorted(s, time),
         NEW e \in Requests, e \notin ToSet(s),
         \A r \in ToSet(s) : time[r] \in Nat /\ time[r] <= now,
         NEW later, later[e] = now, \A r \in ToSet(s) : later[r] = time[r]
  PROVE  Sorted(Append(s, e), later)
<1> DEFINE t == Append(s, e)
<1>1. DOMAIN s = 1 .. Len(s) /\ Len(s) \in Nat
  BY LenProperties
<1>2. /\ t \in Seq(Requests) /\ Len(t) = Len(s) + 1
      /\ \A i \in 1 .. Len(s) : t[i] = s[i]
      /\ t[Len(s) + 1] = e
  BY AppendProperties
<1> HIDE DEF t
<1>3. DOMAIN t = 1 .. Len(s) + 1
  BY <1>2, LenProperties
<1> SUFFICES ASSUME NEW i \in DOMAIN t, NEW j \in DOMAIN t, i < j
             PROVE  later[t[i]] <= later[t[j]]
  BY DEF Sorted, t
<1>4. i \in DOMAIN s /\ t[i] = s[i] /\ s[i] \in ToSet(s)
  BY <1>1, <1>2, <1>3 DEF ToSet
<1>5. CASE j = Len(s) + 1
  BY <1>2, <1>4, <1>5
<1>6. CASE j # Len(s) + 1
  <2>1. j \in DOMAIN s /\ t[j] = s[j] /\ s[j] \in ToSet(s)
    BY <1>1, <1>2, <1>3, <1>6 DEF ToSet
  <2>2. time[s[i]] <= time[s[j]]
    BY <1>4, <2>1 DEF Sorted
  <2> QED BY <1>4, <2>1, <2>2
<1> QED BY <1>5, <1>6

LEMMA SortedReplaced ==
  ASSUME NEW s, NEW t, NEW o, NEW e, NEW time, NEW later, Sorted(s, time),
         DOMAIN t = DOMAIN s,
         \A i \in DOMAIN s : t[i] = IF s[i] = o THEN e ELSE s[i],
         later[e] = time[o], \A r \in ToSet(s) : later[r] = time[r]
  PROVE  Sorted(t, later)
<1>1. \A i \in DOMAIN s : later[t[i]] = time[s[i]]
  BY DEF ToSet
<1> QED BY <1>1 DEF Sorted
-----------------------------------------------------------------------------
(***************************************************************************)
(* The lists.                                                              *)
(***************************************************************************)

(* A request belongs to a queue from its insertion on.                     *)
Housed ==
  \A r \in Requests :
    /\ home[r] = None <=> phase[r] \in {"idle", "new"}
    /\ class[r] # None => home[r] # None

PastTimes == \A r \in Requests : fifo_time[r] <= jiffies

ListInv ==
  /\ DeadlineTypeOK
  /\ OnBothLists
  /\ MergeHintsLinked
  /\ FifoSorted
  /\ Housed
  /\ PastTimes

LEMMA NoneIsNoPrio == None \notin Prios
BY DEF None, Prios

LEMMA ListFacts ==
  ASSUME ListInv, NEW p \in Prios
  PROVE  /\ dispatch[p] \in Seq(Requests) /\ IsInjective(dispatch[p])
         /\ \A r \in ToSet(dispatch[p]) :
              r \in Requests /\ phase[r] = "queued" /\ home[r] = p
         /\ \A d \in Dirs :
              /\ fifo[p][d] \in Seq(Requests) /\ IsInjective(fifo[p][d])
              /\ ToSet(fifo[p][d]) = sort_list[p][d]
              /\ Sorted(fifo[p][d], fifo_time)
              /\ sort_list[p][d] \subseteq Requests
              /\ \A r \in sort_list[p][d] :
                   /\ phase[r] = "queued" /\ home[r] = p /\ dir[r] = d
                   /\ r \notin ToSet(dispatch[p])
<1>1. DeadlineTypeOK /\ OnBothLists /\ FifoSorted
  BY DEF ListInv
<1>2. dispatch[p] \in Seq(Requests)
  BY <1>1 DEF DeadlineTypeOK
<1>3. ToSet(dispatch[p]) \subseteq Requests
  BY <1>2, ElementsOf
<1>4. /\ IsInjective(dispatch[p])
      /\ \A r \in ToSet(dispatch[p]) : phase[r] = "queued" /\ home[r] = p
  BY <1>1 DEF OnBothLists
<1>5. ASSUME NEW d \in Dirs
      PROVE  /\ fifo[p][d] \in Seq(Requests) /\ IsInjective(fifo[p][d])
             /\ ToSet(fifo[p][d]) = sort_list[p][d]
             /\ Sorted(fifo[p][d], fifo_time)
             /\ sort_list[p][d] \subseteq Requests
             /\ \A r \in sort_list[p][d] :
                  /\ phase[r] = "queued" /\ home[r] = p /\ dir[r] = d
                  /\ r \notin ToSet(dispatch[p])
  <2>1. fifo[p][d] \in Seq(Requests) /\ sort_list[p][d] \subseteq Requests
    BY <1>1 DEF DeadlineTypeOK
  <2>2. /\ IsInjective(fifo[p][d])
        /\ ToSet(fifo[p][d]) = sort_list[p][d]
        /\ \A r \in sort_list[p][d] :
             /\ phase[r] = "queued" /\ home[r] = p /\ dir[r] = d
             /\ r \notin ToSet(dispatch[p])
    BY <1>1 DEF OnBothLists
  <2>3. Sorted(fifo[p][d], fifo_time)
    BY <1>1 DEF FifoSorted, Sorted
  <2> QED BY <2>1, <2>2, <2>3
<1> QED BY <1>2, <1>3, <1>4, <1>5

(* deadline_remove_request, list by list.                                  *)
LEMMA RemoveFromFifo ==
  ASSUME ListInv, NEW r \in Requests, NEW p \in Prios, RemoveRequest(r, p),
         NEW q \in Prios, NEW d \in Dirs
  PROVE  /\ fifo'[q][d] \in Seq(Requests)
         /\ IsInjective(fifo'[q][d])
         /\ ToSet(fifo'[q][d]) = ToSet(fifo[q][d]) \ {r}
         /\ InOrderOf(fifo'[q][d], fifo[q][d])
         /\ r \notin ToSet(fifo[q][d]) => fifo'[q][d] = fifo[q][d]
         /\ sort_list'[q][d] = sort_list[q][d] \ {r}
         /\ sort_list'[q][d] \subseteq Requests
<1>1. fifo'[q][d] = RemoveFirst(fifo[q][d], r)
  BY DEF RemoveRequest
<1>2. fifo[q][d] \in Seq(Requests) /\ IsInjective(fifo[q][d])
  BY ListFacts
<1>3. sort_list'[q][d] = sort_list[q][d] \ {r} /\ sort_list[q][d] \subseteq Requests
  BY ListFacts DEF RemoveRequest
<1> QED BY <1>1, <1>2, <1>3, RemoveFirstKeeps

LEMMA RemoveFromDispatch ==
  ASSUME ListInv, NEW r \in Requests, NEW p \in Prios, RemoveRequest(r, p),
         NEW q \in Prios
  PROVE  /\ dispatch'[q] \in Seq(Requests)
         /\ IsInjective(dispatch'[q])
         /\ ToSet(dispatch'[q]) = ToSet(dispatch[q]) \ {r}
         /\ r \notin ToSet(dispatch[q]) => dispatch'[q] = dispatch[q]
<1>1. dispatch'[q] = RemoveFirst(dispatch[q], r)
  BY DEF RemoveRequest
<1> QED BY <1>1, ListFacts, RemoveFirstKeeps

LEMMA RemoveTypes ==
  ASSUME ListInv, NEW r \in Requests, NEW p \in Prios, RemoveRequest(r, p)
  PROVE  /\ dispatch' \in [Prios -> Seq(Requests)]
         /\ fifo' \in [Prios -> [Dirs -> Seq(Requests)]]
         /\ sort_list' \in [Prios -> [Dirs -> SUBSET Requests]]
<1>1. /\ dispatch' = [q \in Prios |-> RemoveFirst(dispatch[q], r)]
      /\ fifo' = [q \in Prios |-> [d \in Dirs |-> RemoveFirst(fifo[q][d], r)]]
      /\ sort_list' = [q \in Prios |-> [d \in Dirs |-> sort_list[q][d] \ {r}]]
  BY DEF RemoveRequest
<1>2. \A q \in Prios : dispatch'[q] \in Seq(Requests)
  BY RemoveFromDispatch
<1>3. \A q \in Prios, d \in Dirs :
        fifo'[q][d] \in Seq(Requests) /\ sort_list'[q][d] \subseteq Requests
  BY RemoveFromFifo
<1>4. dispatch' \in [Prios -> Seq(Requests)]
  BY <1>1, <1>2
<1>5. fifo' \in [Prios -> [Dirs -> Seq(Requests)]]
  BY <1>1, <1>3
<1>6. sort_list' \in [Prios -> [Dirs -> SUBSET Requests]]
  BY <1>1, <1>3
<1> QED BY <1>4, <1>5, <1>6

(* It leaves everything as it was when r is on no list.                    *)
LEMMA RemoveUnlinked ==
  ASSUME ListInv, NEW r \in Requests, NEW p \in Prios, RemoveRequest(r, p),
         phase[r] # "queued"
  PROVE  UNCHANGED <<dispatch, fifo, sort_list, rqhash, last_merge, wrong_root>>
<1>1. DeadlineTypeOK /\ MergeHintsLinked /\ Housed
  BY DEF ListInv
<1>2. \A q \in Prios : /\ r \notin ToSet(dispatch[q])
                       /\ \A d \in Dirs : /\ r \notin ToSet(fifo[q][d])
                                          /\ r \notin sort_list[q][d]
  BY ListFacts
<1>3. dispatch' = dispatch
  <2>1. dispatch \in [Prios -> Seq(Requests)] /\ dispatch' \in [Prios -> Seq(Requests)]
    BY <1>1, RemoveTypes DEF DeadlineTypeOK
  <2>2. \A q \in Prios : dispatch'[q] = dispatch[q]
    BY <1>2, RemoveFromDispatch
  <2> QED BY <2>1, <2>2
<1>4. fifo' = fifo
  <2>1. fifo \in [Prios -> [Dirs -> Seq(Requests)]]
    BY <1>1 DEF DeadlineTypeOK
  <2>2. \A q \in Prios, d \in Dirs : fifo'[q][d] = fifo[q][d]
    BY <1>2, RemoveFromFifo
  <2>3. fifo' \in [Prios -> [Dirs -> Seq(Requests)]]
    BY RemoveTypes
  <2>4. \A q \in Prios : fifo'[q] = fifo[q]
    BY <2>1, <2>2, <2>3
  <2> QED BY <2>1, <2>3, <2>4
<1>5. sort_list' = sort_list
  <2>1. sort_list \in [Prios -> [Dirs -> SUBSET Requests]]
    BY <1>1 DEF DeadlineTypeOK
  <2>2. ASSUME NEW q \in Prios, NEW d \in Dirs PROVE sort_list'[q][d] = sort_list[q][d]
    <3>1. sort_list'[q][d] = sort_list[q][d] \ {r}
      BY RemoveFromFifo
    <3> QED BY <1>2, <3>1
  <2>3. sort_list' \in [Prios -> [Dirs -> SUBSET Requests]]
    BY RemoveTypes
  <2>4. \A q \in Prios : sort_list'[q] = sort_list[q]
    BY <2>1, <2>2, <2>3
  <2> QED BY <2>1, <2>3, <2>4
<1>6. r \notin rqhash
  BY <1>1, <1>2 DEF MergeHintsLinked, Linked
<1>7. rqhash' = rqhash /\ last_merge' = last_merge
  <2>1. last_merge # r
    BY <1>1, <1>6, DeadlineAssumption DEF MergeHintsLinked
  <2>2. rqhash' = rqhash \ {r} /\ last_merge' = IF last_merge = r THEN None ELSE last_merge
    BY DEF RemoveRequest
  <2> QED BY <1>6, <2>1, <2>2
<1>8. wrong_root' = wrong_root
  <2>1. ~Linked(r)
    BY <1>2 DEF Linked
  <2>2. wrong_root' = (wrong_root \/ Misdirected(r, p)) /\ wrong_root \in BOOLEAN
    BY <1>1 DEF RemoveRequest, DeadlineTypeOK
  <2> QED BY <2>1, <2>2 DEF Misdirected
<1> QED BY <1>3, <1>4, <1>5, <1>7, <1>8
-----------------------------------------------------------------------------
(***************************************************************************)
(* The steps.                                                              *)
(***************************************************************************)

LEMMA CountsWrap ==
  ASSUME NEW n \in Nat
  PROVE  n % CounterSpan \in 0 .. CounterSpan - 1
BY DeadlineAssumption

LEMMA ListStart == DeadlineInit => ListInv
<1> SUFFICES ASSUME DeadlineInit PROVE ListInv
  OBVIOUS
<1>1. << >> \in Seq(Requests) /\ ToSet(<< >>) = {} /\ IsInjective(<< >>)
  <2>1. DOMAIN << >> = {}
    OBVIOUS
  <2> QED BY <2>1 DEF ToSet, IsInjective
<1>2. \A p \in Prios : dispatch[p] = << >> /\
        \A d \in Dirs : fifo[p][d] = << >> /\ sort_list[p][d] = {}
  BY DEF DeadlineInit, Empty
<1>3. DeadlineTypeOK
  <2>1. /\ phase \in [Requests -> Phases] /\ dir \in [Requests -> Dirs]
        /\ ioprio \in [Requests -> Prios] /\ home \in [Requests -> Prios \cup {None}]
        /\ class \in [Requests -> Prios \cup {None}]
    BY DEF DeadlineInit, Phases, Dirs, Prios
  <2>2. fifo_time \in [Requests -> 0 .. MaxJiffies] /\ jiffies \in 0 .. MaxJiffies
    BY DeadlineAssumption DEF DeadlineInit
  <2>3. /\ dispatch \in [Prios -> Seq(Requests)]
        /\ fifo \in [Prios -> [Dirs -> Seq(Requests)]]
        /\ sort_list \in [Prios -> [Dirs -> SUBSET Requests]]
    BY <1>1 DEF DeadlineInit, Empty
  <2>4. {inserted, completed} \subseteq [Prios -> 0 .. CounterSpan - 1]
    BY DeadlineAssumption DEF DeadlineInit
  <2> QED BY <2>1, <2>2, <2>3, <2>4 DEF DeadlineInit, DeadlineTypeOK
<1>4. OnBothLists
  BY <1>1, <1>2 DEF OnBothLists, DeadlineInit
<1>5. MergeHintsLinked
  BY DEF MergeHintsLinked, DeadlineInit
<1>6. FifoSorted
  BY <1>2 DEF FifoSorted
<1>7. Housed /\ PastTimes
  BY DEF Housed, PastTimes, DeadlineInit
<1> QED BY <1>3, <1>4, <1>5, <1>6, <1>7 DEF ListInv

(* A step that links and unlinks nothing.                                  *)
LEMMA ListsAlone ==
  ASSUME ListInv, DeadlineTypeOK', Housed', PastTimes',
         UNCHANGED <<fifo_time, dispatch, fifo, sort_list, rqhash, last_merge>>,
         \A r \in Requests :
           /\ phase'[r] = "queued" <=> phase[r] = "queued"
           /\ phase[r] = "queued" => home'[r] = home[r] /\ dir'[r] = dir[r]
  PROVE  ListInv'
<1>1. OnBothLists'
  <2>1. ASSUME NEW p \in Prios
        PROVE  /\ IsInjective(dispatch'[p])
               /\ \A r \in ToSet(dispatch'[p]) : phase'[r] = "queued" /\ home'[r] = p
    BY ListFacts
  <2>2. ASSUME NEW p \in Prios, NEW d \in Dirs
        PROVE  /\ IsInjective(fifo'[p][d])
               /\ ToSet(fifo'[p][d]) = sort_list'[p][d]
               /\ \A r \in sort_list'[p][d] :
                    /\ phase'[r] = "queued" /\ home'[r] = p /\ dir'[r] = d
                    /\ r \notin ToSet(dispatch'[p])
    BY ListFacts
  <2>3. ASSUME NEW r \in Requests, phase'[r] = "queued"
        PROVE  \E p \in Prios : r \in sort_list'[p][dir'[r]] \cup ToSet(dispatch'[p])
    BY <2>3 DEF ListInv, OnBothLists
  <2> QED BY <2>1, <2>2, <2>3 DEF OnBothLists
<1>2. MergeHintsLinked'
  BY DEF ListInv, MergeHintsLinked, Linked
<1>3. FifoSorted'
  BY DEF ListInv, FifoSorted
<1> QED BY <1>1, <1>2, <1>3 DEF ListInv

LEMMA PrepareKeepsLists ==
  ASSUME ListInv, NEW r \in Requests, NEW d \in Dirs, NEW i \in Prios,
         Prepare(r, d, i)
  PROVE  ListInv'
<1>1. DeadlineTypeOK'
  BY DEF ListInv, DeadlineTypeOK, Prepare, Phases, listVars, countVars
<1>2. Housed'
  BY DEF ListInv, DeadlineTypeOK, Housed, Prepare
<1>3. PastTimes'
  BY DEF ListInv, PastTimes, Prepare, listVars
<1>4. \A q \in Requests :
        /\ phase'[q] = "queued" <=> phase[q] = "queued"
        /\ phase[q] = "queued" => home'[q] = home[q] /\ dir'[q] = dir[q]
  BY DEF ListInv, DeadlineTypeOK, Prepare
<1> QED BY <1>1, <1>2, <1>3, <1>4, ListsAlone DEF Prepare, listVars

LEMMA SelectQueueType ==
  ASSUME DeadlineTypeOK, NEW r \in Requests, NEW fg \in BOOLEAN
  PROVE  SelectQueue(r, fg) \in Prios
BY DEF DeadlineTypeOK, SelectQueue, Prios

(* What the first half of an insertion leaves behind.                      *)
LEMMA ClassifyTypes ==
  ASSUME DeadlineTypeOK, NEW r \in Requests, NEW p \in Prios, Classify(r, p)
  PROVE  /\ ioprio' \in [Requests -> Prios]
         /\ home' = [home EXCEPT ![r] = p]
         /\ home' \in [Requests -> Prios \cup {None}]
         /\ class' \in [Requests -> Prios \cup {None}]
         /\ \A q \in Requests \ {r} : class'[q] = class[q] /\ home'[q] = home[q]
         /\ {inserted', completed'} \subseteq [Prios -> 0 .. CounterSpan - 1]
         /\ UNCHANGED <<dir, completed, jiffies>>
<1>1. /\ class' = [class EXCEPT ![r] = IF class[r] # None \/ MetaRoom THEN p ELSE None]
      /\ ioprio' = [ioprio EXCEPT ![r] = IF p = "HP" THEN "HP" ELSE ioprio[r]]
      /\ home' = [home EXCEPT ![r] = p]
      /\ UNCHANGED <<dir, completed, jiffies>>
      /\ inserted' = IF home[r] = None
                       THEN [inserted EXCEPT ![p] = (inserted[p] + 1) % CounterSpan]
                       ELSE inserted
  BY DEF Classify, CountInsert
<1>2. /\ ioprio \in [Requests -> Prios] /\ home \in [Requests -> Prios \cup {None}]
      /\ class \in [Requests -> Prios \cup {None}]
      /\ inserted \in [Prios -> 0 .. CounterSpan - 1]
      /\ completed \in [Prios -> 0 .. CounterSpan - 1]
  BY DEF DeadlineTypeOK
<1>3. (inserted[p] + 1) % CounterSpan \in 0 .. CounterSpan - 1
  BY <1>2, CountsWrap, DeadlineAssumption
<1>4. inserted' \in [Prios -> 0 .. CounterSpan - 1]
  BY <1>1, <1>2, <1>3
<1>5. ioprio' \in [Requests -> Prios] /\ home' \in [Requests -> Prios \cup {None}]
  BY <1>1, <1>2 DEF Prios
<1>6. /\ class' \in [Requests -> Prios \cup {None}]
      /\ \A q \in Requests \ {r} : class'[q] = class[q] /\ home'[q] = home[q]
  BY <1>1, <1>2
<1> QED BY <1>1, <1>2, <1>4, <1>5, <1>6

(* The request's own types, for every step that moves one request.         *)
LEMMA HousedAfterInsert ==
  ASSUME ListInv, NEW r \in Requests, NEW p \in Prios, Classify(r, p),
         NEW to \in {"queued", "merged"}, phase' = [phase EXCEPT ![r] = to]
  PROVE  Housed'
<1>1. DeadlineTypeOK /\ Housed
  BY DEF ListInv
<1>2. /\ home' = [home EXCEPT ![r] = p] /\ home \in [Requests -> Prios \cup {None}]
      /\ phase \in [Requests -> Phases]
      /\ \A q \in Requests \ {r} : class'[q] = class[q]
  BY <1>1, ClassifyTypes DEF DeadlineTypeOK
<1>3. home'[r] # None /\ phase'[r] = to
  BY <1>2, NoneIsNoPrio
<1>4. \A q \in Requests \ {r} :
        home'[q] = home[q] /\ phase'[q] = phase[q] /\ class'[q] = class[q]
  BY <1>2
<1> QED BY <1>1, <1>3, <1>4 DEF Housed

LEMMA InsertMergedKeepsLists ==
  ASSUME ListInv, NEW r \in Requests, NEW t \in Requests, NEW fg \in BOOLEAN,
         InsertMerged(r, t, fg)
  PROVE  ListInv'
<1> DEFINE p == SelectQueue(r, fg)
<1>1. DeadlineTypeOK /\ p \in Prios
  BY SelectQueueType DEF ListInv
<1> HIDE DEF p
<1>2. /\ phase[r] = "new" /\ Classify(r, p) /\ RemoveRequest(r, p)
      /\ phase' = [phase EXCEPT ![r] = "merged"] /\ UNCHANGED fifo_time
  BY DEF InsertMerged, p
<1>3. UNCHANGED <<dispatch, fifo, sort_list, rqhash, last_merge, wrong_root>>
  BY <1>1, <1>2, RemoveUnlinked
<1>4. UNCHANGED <<dir, completed, jiffies>>
  BY <1>1, <1>2, ClassifyTypes
<1>5. DeadlineTypeOK'
  <2>1. phase' \in [Requests -> Phases]
    BY <1>1, <1>2 DEF DeadlineTypeOK, Phases
  <2> QED BY <2>1, <1>1, <1>2, <1>3, <1>4, ClassifyTypes DEF DeadlineTypeOK
<1>6. Housed'
  BY <1>1, <1>2, HousedAfterInsert
<1>7. PastTimes'
  BY <1>2, <1>4 DEF ListInv, PastTimes
<1>8. ASSUME NEW q \in Requests
      PROVE  /\ phase'[q] = "queued" <=> phase[q] = "queued"
             /\ phase[q] = "queued" => home'[q] = home[q] /\ dir'[q] = dir[q]
  <2>1. CASE q = r
    BY <1>1, <1>2, <2>1 DEF DeadlineTypeOK
  <2>2. CASE q # r
    <3>1. home'[q] = home[q]
      BY <1>1, <1>2, <2>2, ClassifyTypes
    <3> QED BY <1>1, <1>2, <1>4, <2>2, <3>1 DEF DeadlineTypeOK
  <2> QED BY <2>1, <2>2
<1> QED BY <1>2, <1>3, <1>5, <1>6, <1>7, <1>8, ListsAlone

(* Put back on the tree that it was taken off.                             *)
LEMMA RequestMergedKeepsTrees ==
  ASSUME ListInv, NEW r \in Requests, NEW fg \in BOOLEAN, RequestMerged(r, fg),
         ~wrong_root'
  PROVE  UNCHANGED sort_list
<1>1. PICK p \in Prios : p = SelectQueue(r, fg)
  BY SelectQueueType DEF ListInv
<1>2. PICK d \in Dirs : d = dir[r]
  BY DEF ListInv, DeadlineTypeOK
<1>3. /\ sort_list' = [q \in Prios |-> [sort_list[q] EXCEPT
                         ![d] = IF q = p THEN sort_list[q][d] \cup {r}
                                         ELSE sort_list[q][d] \ {r}]]
      /\ r \in sort_list[p][d]
  BY <1>1, <1>2 DEF RequestMerged
<1>4. sort_list \in [Prios -> [Dirs -> SUBSET Requests]]
  BY DEF ListInv, DeadlineTypeOK
<1>5. \A q \in Prios : r \in sort_list[q][d] => q = p
  BY <1>3, ListFacts
<1>6. ASSUME NEW q \in Prios PROVE sort_list'[q] = sort_list[q]
  <2>1. sort_list[q] \in [Dirs -> SUBSET Requests]
    BY <1>4
  <2>2. (IF q = p THEN sort_list[q][d] \cup {r} ELSE sort_list[q][d] \ {r})
          = sort_list[q][d]
    BY <1>3, <1>5
  <2>3. sort_list'[q] = [sort_list[q] EXCEPT ![d] = sort_list[q][d]]
    BY <1>3, <2>2
  <2> QED BY <2>1, <2>3
<1> QED BY <1>3, <1>4, <1>6

LEMMA RequestMergedKeepsLists ==
  ASSUME ListInv, NEW r \in Requests, NEW fg \in BOOLEAN, RequestMerged(r, fg),
         ~wrong_root'
  PROVE  ListInv'
<1>1. wrong_root' \in BOOLEAN
  BY DEF RequestMerged, ListInv, DeadlineTypeOK
<1>2. UNCHANGED <<requestVars, fifo_time, dispatch, fifo, sort_list, rqhash,
                  last_merge, countVars, jiffies>>
  BY RequestMergedKeepsTrees DEF RequestMerged
<1>3. DeadlineTypeOK'
  BY <1>1, <1>2 DEF ListInv, DeadlineTypeOK, requestVars, countVars
<1>4. Housed' /\ PastTimes'
  BY <1>2 DEF ListInv, Housed, PastTimes, requestVars
<1> QED BY <1>2, <1>3, <1>4, ListsAlone DEF requestVars
LEMMA IssueKeepsLists ==
  ASSUME ListInv, NEW r \in Requests, Issue(r)
  PROVE  ListInv'
<1>1. /\ phase[r] = "dispatched"
      /\ class' = [class EXCEPT ![r] = IF class[r] = None /\ MetaRoom THEN "HP" ELSE class[r]]
      /\ UNCHANGED <<phase, dir, ioprio, home, listVars, countVars, jiffies>>
  BY DEF Issue
<1>2. class \in [Requests -> Prios \cup {None}] /\ Housed
  BY DEF ListInv, DeadlineTypeOK
<1>3. /\ class' \in [Requests -> Prios \cup {None}]
      /\ \A q \in Requests \ {r} : class'[q] = class[q]
  BY <1>1, <1>2 DEF Prios
<1>4. DeadlineTypeOK'
  BY <1>1, <1>3 DEF ListInv, DeadlineTypeOK, listVars, countVars
<1>5. Housed'
  BY <1>1, <1>2, <1>3 DEF Housed
<1>6. PastTimes'
  BY <1>1 DEF ListInv, PastTimes, listVars
<1> QED BY <1>1, <1>4, <1>5, <1>6, ListsAlone DEF listVars

LEMMA RequeueKeepsLists ==
  ASSUME ListInv, NEW r \in Requests, Requeue(r)
  PROVE  ListInv'
<1>1. /\ phase[r] = "dispatched" /\ phase' = [phase EXCEPT ![r] = "requeued"]
      /\ UNCHANGED <<dir, ioprio, home, class, listVars, countVars, jiffies>>
  BY DEF Requeue
<1>2. phase \in [Requests -> Phases]
  BY DEF ListInv, DeadlineTypeOK
<1>3. DeadlineTypeOK'
  BY <1>1 DEF ListInv, DeadlineTypeOK, listVars, countVars, Phases
<1>4. Housed'
  BY <1>1, <1>2 DEF ListInv, Housed
<1>5. PastTimes'
  BY <1>1 DEF ListInv, PastTimes, listVars
<1>6. \A q \in Requests : phase'[q] = "queued" <=> phase[q] = "queued"
  BY <1>1, <1>2
<1> QED BY <1>1, <1>3, <1>4, <1>5, <1>6, ListsAlone DEF listVars

LEMMA FinishKeepsLists ==
  ASSUME ListInv, NEW r \in Requests, Finish(r)
  PROVE  ListInv'
<1>1. /\ phase[r] \in {"new", "merged", "dispatched"}
      /\ phase' = [phase EXCEPT ![r] = "idle"]
      /\ CountFinish(r)
      /\ home' = [home EXCEPT ![r] = None] /\ class' = [class EXCEPT ![r] = None]
      /\ UNCHANGED <<dir, ioprio, inserted, listVars, jiffies>>
  BY DEF Finish
<1>2. /\ phase \in [Requests -> Phases] /\ home \in [Requests -> Prios \cup {None}]
      /\ class \in [Requests -> Prios \cup {None}]
      /\ inserted \in [Prios -> 0 .. CounterSpan - 1]
      /\ completed \in [Prios -> 0 .. CounterSpan - 1]
  BY DEF ListInv, DeadlineTypeOK
<1>3. completed' \in [Prios -> 0 .. CounterSpan - 1]
  <2>1. CASE home[r] = None
    BY <1>1, <1>2, <2>1 DEF CountFinish
  <2>2. CASE home[r] # None
    <3>1. completed[home[r]] \in Nat
      BY <1>2, <2>2
    <3>2. (completed[home[r]] + 1) % CounterSpan \in 0 .. CounterSpan - 1
      BY <3>1, CountsWrap
    <3> QED BY <1>1, <1>2, <2>2, <3>2 DEF CountFinish
  <2> QED BY <2>1, <2>2
<1>4. DeadlineTypeOK'
  <2>1. phase' \in [Requests -> Phases] /\ home' \in [Requests -> Prios \cup {None}]
        /\ class' \in [Requests -> Prios \cup {None}]
    BY <1>1, <1>2 DEF Phases
  <2> QED BY <1>1, <1>2, <1>3, <2>1 DEF ListInv, DeadlineTypeOK, listVars
<1>5. Housed'
  BY <1>1, <1>2 DEF ListInv, Housed
<1>6. PastTimes'
  BY <1>1 DEF ListInv, PastTimes, listVars
<1>7. \A q \in Requests :
        /\ phase'[q] = "queued" <=> phase[q] = "queued"
        /\ phase[q] = "queued" => home'[q] = home[q] /\ dir'[q] = dir[q]
  BY <1>1, <1>2
<1> QED BY <1>1, <1>4, <1>5, <1>6, <1>7, ListsAlone DEF listVars

LEMMA TickKeepsLists == ASSUME ListInv, Tick PROVE ListInv'
<1>1. /\ jiffies < MaxJiffies /\ jiffies' = jiffies + 1
      /\ UNCHANGED <<requestVars, listVars, countVars>>
  BY DEF Tick
<1>2. jiffies \in 0 .. MaxJiffies /\ fifo_time \in [Requests -> 0 .. MaxJiffies]
  BY DEF ListInv, DeadlineTypeOK
<1>3. DeadlineTypeOK'
  <2>1. jiffies' \in 0 .. MaxJiffies
    BY <1>1, <1>2, DeadlineAssumption
  <2> QED BY <1>1, <2>1 DEF ListInv, DeadlineTypeOK, requestVars, listVars, countVars
<1>4. Housed' /\ PastTimes'
  <2>1. ASSUME NEW r \in Requests PROVE fifo_time'[r] <= jiffies'
    <3>1. fifo_time[r] <= jiffies /\ fifo_time[r] \in Nat /\ jiffies \in Nat
      BY <1>2 DEF ListInv, PastTimes
    <3> QED BY <1>1, <3>1 DEF listVars
  <2> QED BY <1>1, <2>1 DEF ListInv, Housed, PastTimes, requestVars
<1> QED BY <1>1, <1>3, <1>4, ListsAlone DEF requestVars, listVars

(* A request on no list before the step.                                   *)
LEMMA Unlinked ==
  ASSUME ListInv, NEW r \in Requests, phase[r] # "queued"
  PROVE  /\ \A p \in Prios : /\ r \notin ToSet(dispatch[p])
                             /\ \A d \in Dirs : /\ r \notin ToSet(fifo[p][d])
                                                /\ r \notin sort_list[p][d]
         /\ r \notin rqhash
<1>1. \A p \in Prios : /\ r \notin ToSet(dispatch[p])
                       /\ \A d \in Dirs : /\ r \notin ToSet(fifo[p][d])
                                          /\ r \notin sort_list[p][d]
  BY ListFacts
<1>2. r \notin rqhash
  BY <1>1 DEF ListInv, MergeHintsLinked, Linked
<1> QED BY <1>1, <1>2

LEMMA LinkAtHeadKeepsLists ==
  ASSUME ListInv, NEW r \in Requests, NEW p \in Prios, phase[r] # "queued",
         Classify(r, p), LinkAtHead(r, p), phase' = [phase EXCEPT ![r] = "queued"]
  PROVE  ListInv'
<1>1. /\ DeadlineTypeOK /\ OnBothLists /\ MergeHintsLinked /\ FifoSorted
      /\ PastTimes
  BY DEF ListInv
<1>2. /\ dispatch' = [dispatch EXCEPT ![p] = <<r>> \o dispatch[p]]
      /\ fifo_time' = [fifo_time EXCEPT ![r] = jiffies]
      /\ UNCHANGED <<fifo, sort_list, rqhash, last_merge, wrong_root>>
  BY DEF LinkAtHead
<1>3. /\ home' = [home EXCEPT ![r] = p]
      /\ UNCHANGED <<dir, completed, jiffies>>
  BY <1>1, ClassifyTypes
<1>4. /\ dispatch \in [Prios -> Seq(Requests)] /\ home \in [Requests -> Prios \cup {None}]
      /\ phase \in [Requests -> Phases] /\ jiffies \in 0 .. MaxJiffies
      /\ fifo_time \in [Requests -> 0 .. MaxJiffies]
  BY <1>1 DEF DeadlineTypeOK
<1>5. /\ dispatch'[p] \in Seq(Requests) /\ IsInjective(dispatch'[p])
      /\ ToSet(dispatch'[p]) = ToSet(dispatch[p]) \cup {r}
      /\ \A q \in Prios \ {p} : dispatch'[q] = dispatch[q]
  BY <1>2, <1>4, ConsKeeps, ListFacts, Unlinked
<1>6. /\ \A q \in Requests \ {r} : /\ phase'[q] = phase[q] /\ home'[q] = home[q]
                                   /\ fifo_time'[q] = fifo_time[q]
      /\ phase'[r] = "queued" /\ home'[r] = p /\ fifo_time'[r] = jiffies
  BY <1>2, <1>3, <1>4
<1>7. DeadlineTypeOK'
  <2>1. dispatch' \in [Prios -> Seq(Requests)]
    BY <1>2, <1>4, <1>5
  <2>2. fifo_time' \in [Requests -> 0 .. MaxJiffies] /\ phase' \in [Requests -> Phases]
    BY <1>2, <1>4 DEF Phases
  <2> QED BY <1>1, <1>2, <1>3, <2>1, <2>2, ClassifyTypes DEF DeadlineTypeOK
<1>8. OnBothLists'
  <2>1. ASSUME NEW q \in Prios
        PROVE  /\ IsInjective(dispatch'[q])
               /\ \A s \in ToSet(dispatch'[q]) : phase'[s] = "queued" /\ home'[s] = q
    <3>1. CASE q = p
      BY <1>5, <1>6, <3>1, ListFacts
    <3>2. CASE q # p
      BY <1>5, <1>6, <3>2, ListFacts, Unlinked
    <3> QED BY <3>1, <3>2
  <2>2. ASSUME NEW q \in Prios, NEW d \in Dirs
        PROVE  /\ IsInjective(fifo'[q][d])
               /\ ToSet(fifo'[q][d]) = sort_list'[q][d]
               /\ \A s \in sort_list'[q][d] :
                    /\ phase'[s] = "queued" /\ home'[s] = q /\ dir'[s] = d
                    /\ s \notin ToSet(dispatch'[q])
    <3>1. IsInjective(fifo'[q][d]) /\ ToSet(fifo'[q][d]) = sort_list'[q][d]
      BY <1>2, ListFacts
    <3>2. ASSUME NEW s \in sort_list'[q][d]
          PROVE  /\ phase'[s] = "queued" /\ home'[s] = q /\ dir'[s] = d
                 /\ s \notin ToSet(dispatch'[q])
      <4>1. /\ s \in sort_list[q][d] /\ s \in Requests \ {r}
            /\ phase[s] = "queued" /\ home[s] = q /\ dir[s] = d
            /\ s \notin ToSet(dispatch[q])
        BY <1>2, ListFacts, Unlinked
      <4>2. s \notin ToSet(dispatch'[q])
        BY <1>5, <4>1
      <4> QED BY <1>3, <1>6, <4>1, <4>2
    <3> QED BY <3>1, <3>2
  <2>3. ASSUME NEW s \in Requests, phase'[s] = "queued"
        PROVE  \E q \in Prios : s \in sort_list'[q][dir'[s]] \cup ToSet(dispatch'[q])
    <3>1. CASE s = r
      BY <1>5, <3>1
    <3>2. CASE s # r
      <4>1. PICK q \in Prios : s \in sort_list[q][dir[s]] \cup ToSet(dispatch[q])
        BY <1>1, <1>6, <2>3, <3>2 DEF OnBothLists
      <4>2. ToSet(dispatch[q]) \subseteq ToSet(dispatch'[q])
        BY <1>5
      <4> QED BY <1>2, <1>3, <4>1, <4>2
    <3> QED BY <3>1, <3>2
  <2> QED BY <2>1, <2>2, <2>3 DEF OnBothLists
<1>9. MergeHintsLinked'
  BY <1>1, <1>2 DEF MergeHintsLinked, Linked
<1>10. FifoSorted'
  <2> SUFFICES ASSUME NEW q \in Prios, NEW d \in Dirs
               PROVE  Sorted(fifo[q][d], fifo_time')
    BY <1>2 DEF FifoSorted, Sorted
  <2>1. \A s \in ToSet(fifo[q][d]) : fifo_time'[s] = fifo_time[s]
    BY <1>6, ListFacts, Unlinked
  <2>2. Sorted(fifo[q][d], fifo_time)
    BY ListFacts
  <2> QED BY <2>1, <2>2, SortedAlike
<1>11. Housed'
  BY HousedAfterInsert
<1>12. PastTimes'
  <2> SUFFICES ASSUME NEW s \in Requests PROVE fifo_time'[s] <= jiffies
    BY <1>3 DEF PastTimes
  <2>1. CASE s = r
    BY <1>4, <1>6, <2>1
  <2>2. CASE s # r
    BY <1>1, <1>6, <2>2 DEF PastTimes
  <2> QED BY <2>1, <2>2
<1> QED BY <1>7, <1>8, <1>9, <1>10, <1>11, <1>12 DEF ListInv

LEMMA LinkByArrivalKeepsLists ==
  ASSUME ListInv, NEW r \in Requests, NEW p \in Prios, phase[r] # "queued",
         Classify(r, p), LinkByArrival(r, p), phase' = [phase EXCEPT ![r] = "queued"]
  PROVE  ListInv'
<1> DEFINE e == dir[r]
<1>1. /\ DeadlineTypeOK /\ OnBothLists /\ MergeHintsLinked /\ FifoSorted
      /\ PastTimes
  BY DEF ListInv
<1>2. e \in Dirs
  BY <1>1 DEF DeadlineTypeOK
<1>3. /\ fifo' = [fifo EXCEPT ![p][e] = Append(fifo[p][e], r)]
      /\ sort_list' = [sort_list EXCEPT ![p][e] = sort_list[p][e] \cup {r}]
      /\ fifo_time' = [fifo_time EXCEPT ![r] = jiffies]
      /\ UNCHANGED <<dispatch, wrong_root>>
  BY DEF LinkByArrival
<1>4. /\ rqhash' \in {rqhash, rqhash \cup {r}}
      /\ \/ last_merge' = last_merge
         \/ last_merge' = r /\ rqhash' = rqhash \cup {r}
  BY DEF LinkByArrival
<1>5. /\ home' = [home EXCEPT ![r] = p]
      /\ UNCHANGED <<dir, completed, jiffies>>
  BY <1>1, ClassifyTypes
<1>6. /\ fifo \in [Prios -> [Dirs -> Seq(Requests)]]
      /\ sort_list \in [Prios -> [Dirs -> SUBSET Requests]]
      /\ home \in [Requests -> Prios \cup {None}]
      /\ phase \in [Requests -> Phases] /\ jiffies \in 0 .. MaxJiffies
      /\ fifo_time \in [Requests -> 0 .. MaxJiffies]
  BY <1>1 DEF DeadlineTypeOK
<1>7. /\ \A q \in Requests \ {r} : /\ phase'[q] = phase[q] /\ home'[q] = home[q]
                                   /\ fifo_time'[q] = fifo_time[q]
      /\ phase'[r] = "queued" /\ home'[r] = p /\ fifo_time'[r] = jiffies
  BY <1>3, <1>5, <1>6
<1> HIDE DEF e
<1>8. /\ fifo'[p][e] = Append(fifo[p][e], r)
      /\ sort_list'[p][e] = sort_list[p][e] \cup {r}
      /\ \A q \in Prios, d \in Dirs : q # p \/ d # e =>
           fifo'[q][d] = fifo[q][d] /\ sort_list'[q][d] = sort_list[q][d]
  BY <1>2, <1>3, <1>6
<1>9. /\ fifo'[p][e] \in Seq(Requests) /\ IsInjective(fifo'[p][e])
      /\ ToSet(fifo'[p][e]) = ToSet(fifo[p][e]) \cup {r}
  BY <1>2, <1>8, AppendKeeps, ListFacts, Unlinked
<1>10. DeadlineTypeOK'
  <2>1. fifo' \in [Prios -> [Dirs -> Seq(Requests)]]
    BY <1>2, <1>3, <1>6, <1>8, <1>9
  <2>2. sort_list' \in [Prios -> [Dirs -> SUBSET Requests]]
    BY <1>2, <1>3, <1>6
  <2>3. fifo_time' \in [Requests -> 0 .. MaxJiffies] /\ phase' \in [Requests -> Phases]
    BY <1>3, <1>6 DEF Phases
  <2>4. rqhash' \subseteq Requests /\ last_merge' \in Requests \cup {None}
    BY <1>1, <1>4 DEF DeadlineTypeOK
  <2> QED BY <1>1, <1>3, <1>5, <2>1, <2>2, <2>3, <2>4, ClassifyTypes DEF DeadlineTypeOK
<1>11. OnBothLists'
  <2>1. ASSUME NEW q \in Prios
        PROVE  /\ IsInjective(dispatch'[q])
               /\ \A s \in ToSet(dispatch'[q]) : phase'[s] = "queued" /\ home'[s] = q
    BY <1>3, <1>7, ListFacts, Unlinked
  <2>2. ASSUME NEW q \in Prios, NEW d \in Dirs
        PROVE  /\ IsInjective(fifo'[q][d])
               /\ ToSet(fifo'[q][d]) = sort_list'[q][d]
               /\ \A s \in sort_list'[q][d] :
                    /\ phase'[s] = "queued" /\ home'[s] = q /\ dir'[s] = d
                    /\ s \notin ToSet(dispatch'[q])
    <3>1. ASSUME NEW s \in sort_list[q][d]
          PROVE  /\ phase'[s] = "queued" /\ home'[s] = q /\ dir'[s] = d
                 /\ s \notin ToSet(dispatch'[q])
      <4>1. /\ s \in Requests \ {r}
            /\ phase[s] = "queued" /\ home[s] = q /\ dir[s] = d
            /\ s \notin ToSet(dispatch[q])
        BY ListFacts, Unlinked
      <4> QED BY <1>3, <1>5, <1>7, <4>1
    <3>2. CASE q = p /\ d = e
      <4>1. phase'[r] = "queued" /\ home'[r] = p /\ dir'[r] = e /\ r \notin ToSet(dispatch'[p])
        BY <1>3, <1>5, <1>7, Unlinked DEF e
      <4>2. ToSet(fifo[p][e]) = sort_list[p][e]
        BY <1>2, ListFacts
      <4>3. IsInjective(fifo'[q][d])
        BY <1>9, <3>2
      <4>4. ToSet(fifo'[q][d]) = sort_list'[q][d]
        BY <1>8, <1>9, <3>2, <4>2
      <4>5. \A s \in sort_list'[q][d] : s = r \/ s \in sort_list[q][d]
        BY <1>8, <3>2
      <4>6. ASSUME NEW s \in sort_list'[q][d]
            PROVE  /\ phase'[s] = "queued" /\ home'[s] = q /\ dir'[s] = d
                   /\ s \notin ToSet(dispatch'[q])
        <5>1. CASE s = r
          BY <3>2, <4>1, <5>1
        <5>2. CASE s \in sort_list[q][d]
          BY <3>1, <5>2
        <5> QED BY <4>5, <4>6, <5>1, <5>2
      <4> QED BY <4>3, <4>4, <4>6
    <3>3. CASE q # p \/ d # e
      <4>1. fifo'[q][d] = fifo[q][d] /\ sort_list'[q][d] = sort_list[q][d]
        BY <1>8, <3>3
      <4>2. IsInjective(fifo[q][d]) /\ ToSet(fifo[q][d]) = sort_list[q][d]
        BY ListFacts
      <4> QED BY <3>1, <4>1, <4>2
    <3> QED BY <3>2, <3>3
  <2>3. ASSUME NEW s \in Requests, phase'[s] = "queued"
        PROVE  \E q \in Prios : s \in sort_list'[q][dir'[s]] \cup ToSet(dispatch'[q])
    <3>1. CASE s = r
      BY <1>5, <1>8, <3>1 DEF e
    <3>2. CASE s # r
      <4>1. PICK q \in Prios : s \in sort_list[q][dir[s]] \cup ToSet(dispatch[q])
        BY <1>1, <1>7, <2>3, <3>2 DEF OnBothLists
      <4>2. dir[s] \in Dirs
        BY <1>1 DEF DeadlineTypeOK
      <4>3. sort_list[q][dir[s]] \subseteq sort_list'[q][dir[s]]
        BY <1>8, <4>2
      <4> QED BY <1>3, <1>5, <4>1, <4>3
    <3> QED BY <3>1, <3>2
  <2> QED BY <2>1, <2>2, <2>3 DEF OnBothLists
<1>12. MergeHintsLinked'
  <2>1. \A q \in Prios, d \in Dirs : sort_list[q][d] \subseteq sort_list'[q][d]
    BY <1>8
  <2>2. \A s \in rqhash \cup {r} : Linked(s)'
    BY <1>1, <1>2, <1>8, <2>1 DEF MergeHintsLinked, Linked
  <2> QED BY <1>1, <1>4, <2>2 DEF MergeHintsLinked
<1>13. FifoSorted'
  <2> SUFFICES ASSUME NEW q \in Prios, NEW d \in Dirs
               PROVE  Sorted(fifo'[q][d], fifo_time')
    BY DEF FifoSorted, Sorted
  <2>1. \A s \in ToSet(fifo[q][d]) : s \in Requests /\ fifo_time'[s] = fifo_time[s]
    BY <1>7, ListFacts, Unlinked
  <2>2. Sorted(fifo[q][d], fifo_time) /\ fifo[q][d] \in Seq(Requests)
    BY ListFacts
  <2>3. CASE q = p /\ d = e
    <3>1. \A s \in ToSet(fifo[q][d]) : fifo_time[s] \in Nat /\ fifo_time[s] <= jiffies
      BY <1>1, <1>6, <2>1 DEF PastTimes
    <3>2. jiffies \in Nat /\ fifo_time'[r] = jiffies /\ r \notin ToSet(fifo[q][d])
      BY <1>6, <1>7, Unlinked
    <3>3. Sorted(Append(fifo[q][d], r), fifo_time')
      BY <2>1, <2>2, <3>1, <3>2, SortedAppend
    <3> QED BY <1>8, <2>3, <3>3
  <2>4. CASE q # p \/ d # e
    <3>1. Sorted(fifo[q][d], fifo_time')
      BY <2>1, <2>2, SortedAlike
    <3> QED BY <1>8, <2>4, <3>1
  <2> QED BY <2>3, <2>4
<1>14. Housed'
  BY HousedAfterInsert
<1>15. PastTimes'
  <2> SUFFICES ASSUME NEW s \in Requests PROVE fifo_time'[s] <= jiffies
    BY <1>5 DEF PastTimes
  <2>1. CASE s = r
    BY <1>6, <1>7, <2>1
  <2>2. CASE s # r
    BY <1>1, <1>7, <2>2 DEF PastTimes
  <2> QED BY <2>1, <2>2
<1> QED BY <1>10, <1>11, <1>12, <1>13, <1>14, <1>15 DEF ListInv
(* The FIFO after next was merged into req.                                *)
Inherits(req, next, p, e) ==
  /\ fifo'[p][e] \in Seq(Requests)
  /\ IsInjective(fifo'[p][e])
  /\ ToSet(fifo'[p][e]) = sort_list[p][e] \ {next}
  /\ Sorted(fifo'[p][e], fifo_time')
  /\ fifo' \in [Prios -> [Dirs -> Seq(Requests)]]
  /\ \A q \in Prios, d \in Dirs : q # p \/ d # e => fifo'[q][d] = fifo[q][d]
  /\ fifo_time' \in [Requests -> 0 .. MaxJiffies]
  /\ \A r \in Requests \ {req} : fifo_time'[r] = fifo_time[r]
  /\ fifo_time'[req] = IF fifo_time[next] < fifo_time[req]
                         THEN fifo_time[next] ELSE fifo_time[req]

LEMMA InheritList ==
  ASSUME ListInv, NEW req \in Requests, NEW next \in Requests, NEW p \in Prios,
         req # next, dir[req] \in Dirs,
         {req, next} \subseteq sort_list[p][dir[req]],
         InheritPlace(req, next)
  PROVE  Inherits(req, next, p, dir[req])
<1> DEFINE e == dir[req]
           s == fifo[p][e]
           earlier == fifo_time[next] < fifo_time[req]
           rest == RemoveFirst(s, req)
           t == IF earlier THEN ReplaceAll(rest, next, req) ELSE RemoveFirst(s, next)
           other(q, d) ==
             IF earlier THEN ReplaceAll(RemoveFirst(fifo[q][d], req), next, req)
                        ELSE RemoveFirst(fifo[q][d], next)
<1>1. /\ fifo' = [q \in Prios |-> [d \in Dirs |-> other(q, d)]]
      /\ other(p, e) = t
      /\ fifo_time' = IF earlier THEN [fifo_time EXCEPT ![req] = fifo_time[next]]
                                 ELSE fifo_time
  BY DEF InheritPlace
<1>2. /\ fifo \in [Prios -> [Dirs -> Seq(Requests)]]
      /\ fifo_time \in [Requests -> 0 .. MaxJiffies]
  BY DEF ListInv, DeadlineTypeOK
<1>3. /\ s \in Seq(Requests) /\ IsInjective(s) /\ ToSet(s) = sort_list[p][e]
      /\ Sorted(s, fifo_time) /\ ToSet(s) \subseteq Requests
  BY ListFacts
<1>4. /\ fifo_time' \in [Requests -> 0 .. MaxJiffies]
      /\ \A r \in Requests \ {req} : fifo_time'[r] = fifo_time[r]
      /\ fifo_time'[req] = IF earlier THEN fifo_time[next] ELSE fifo_time[req]
  <2>1. CASE earlier
    BY <1>1, <1>2, <2>1
  <2>2. CASE ~earlier
    BY <1>1, <1>2, <2>2
  <2> QED BY <2>1, <2>2
<1>7. ASSUME NEW q \in Prios, NEW d \in Dirs, q # p \/ d # e
      PROVE  other(q, d) = fifo[q][d]
  <2>1. fifo[q][d] \in Seq(Requests) /\ IsInjective(fifo[q][d])
    BY ListFacts
  <2>2. req \notin ToSet(fifo[q][d]) /\ next \notin ToSet(fifo[q][d])
    <3>1. /\ home[req] = p /\ dir[req] = e
          /\ home[next] = p /\ dir[next] = e
      BY ListFacts
    <3>2. \A r \in ToSet(fifo[q][d]) : home[r] = q /\ dir[r] = d
      BY ListFacts
    <3> QED BY <1>7, <3>1, <3>2
  <2>3. /\ RemoveFirst(fifo[q][d], req) = fifo[q][d]
        /\ RemoveFirst(fifo[q][d], next) = fifo[q][d]
    BY <2>1, <2>2, RemoveFirstKeeps
  <2>4. ReplaceAll(fifo[q][d], next, req) = fifo[q][d]
    BY <2>1, <2>2, ReplaceNothing
  <2> QED BY <2>3, <2>4
<1> HIDE DEF s, earlier, other
<1>5. /\ t \in Seq(Requests) /\ IsInjective(t)
      /\ ToSet(t) = ToSet(s) \ {next} /\ Sorted(t, fifo_time')
  <2>1. CASE earlier
    <3>1. /\ rest \in Seq(Requests) /\ IsInjective(rest)
          /\ ToSet(rest) = ToSet(s) \ {req} /\ InOrderOf(rest, s)
      BY <1>3, RemoveFirstKeeps
    <3> HIDE DEF rest
    <3>2. next \in ToSet(rest) /\ req \notin ToSet(rest)
      BY <1>3, <3>1
    <3>3. t = ReplaceAll(rest, next, req)
      BY <2>1
    <3> HIDE DEF t
    <3>4. /\ t \in Seq(Requests) /\ IsInjective(t)
          /\ ToSet(t) = (ToSet(rest) \ {next}) \cup {req}
          /\ DOMAIN t = DOMAIN rest
          /\ \A i \in DOMAIN rest : t[i] = IF rest[i] = next THEN req ELSE rest[i]
      BY <3>1, <3>2, <3>3, ReplaceAllKeeps
    <3>5. Sorted(rest, fifo_time)
      BY <1>3, <3>1, SortedThinned
    <3>6. \A r \in ToSet(rest) : fifo_time'[r] = fifo_time[r]
      BY <1>3, <1>4, <3>1
    <3>7. fifo_time'[req] = fifo_time[next]
      BY <1>4, <2>1
    <3>8. Sorted(t, fifo_time')
      BY <3>4, <3>5, <3>6, <3>7, SortedReplaced
    <3>9. ToSet(t) = ToSet(s) \ {next}
      BY <1>3, <3>1, <3>4
    <3> QED BY <3>4, <3>8, <3>9
  <2>2. CASE ~earlier
    <3>1. t = RemoveFirst(s, next)
      BY <2>2
    <3> HIDE DEF t
    <3>2. /\ t \in Seq(Requests) /\ IsInjective(t)
          /\ ToSet(t) = ToSet(s) \ {next} /\ InOrderOf(t, s)
      BY <1>3, <3>1, RemoveFirstKeeps
    <3>3. fifo_time' = fifo_time
      BY <1>1, <2>2
    <3> QED BY <1>3, <3>2, <3>3, SortedThinned
  <2> QED BY <2>1, <2>2
<1> HIDE DEF t
<1>6. \A q \in Prios, d \in Dirs : q # p \/ d # e => fifo'[q][d] = fifo[q][d]
  BY <1>1, <1>7
<1>8. fifo'[p][e] = t
  BY <1>1
<1>9. fifo' \in [Prios -> [Dirs -> Seq(Requests)]]
  <2>1. ASSUME NEW q \in Prios, NEW d \in Dirs PROVE other(q, d) \in Seq(Requests)
    <3>1. CASE q = p /\ d = e
      BY <1>1, <1>5, <3>1
    <3>2. CASE q # p \/ d # e
      BY <1>2, <1>7, <3>2
    <3> QED BY <3>1, <3>2
  <2> QED BY <1>1, <2>1
<1> QED BY <1>3, <1>4, <1>5, <1>6, <1>8, <1>9 DEF earlier, Inherits

LEMMA MergedRequestsKeepsLists ==
  ASSUME ListInv, NEW req \in Requests, NEW next \in Requests, NEW p \in Prios,
         NEW fg \in BOOLEAN, MergedRequests(req, next, p, fg)
  PROVE  ListInv'
<1> DEFINE e == dir[req]
<1>1. /\ DeadlineTypeOK /\ OnBothLists /\ MergeHintsLinked /\ FifoSorted
      /\ PastTimes /\ Housed
  BY DEF ListInv
<1>2. /\ req # next /\ {req, next} \subseteq sort_list[p][e]
      /\ InheritPlace(req, next)
      /\ sort_list' = [sort_list EXCEPT ![p][e] = sort_list[p][e] \ {next}]
      /\ rqhash' = rqhash \ {next}
      /\ last_merge' = IF last_merge = next THEN None ELSE last_merge
      /\ phase' = [phase EXCEPT ![next] = "merged"]
      /\ UNCHANGED <<dir, ioprio, home, class, dispatch, countVars, jiffies>>
  BY DEF MergedRequests
<1>3. wrong_root' \in BOOLEAN
  BY <1>1 DEF MergedRequests, DeadlineTypeOK
<1>4. e \in Dirs
  BY <1>1 DEF DeadlineTypeOK
<1>5. /\ fifo'[p][e] \in Seq(Requests) /\ IsInjective(fifo'[p][e])
      /\ ToSet(fifo'[p][e]) = sort_list[p][e] \ {next}
      /\ Sorted(fifo'[p][e], fifo_time')
      /\ fifo' \in [Prios -> [Dirs -> Seq(Requests)]]
      /\ \A q \in Prios, d \in Dirs : q # p \/ d # e => fifo'[q][d] = fifo[q][d]
      /\ fifo_time' \in [Requests -> 0 .. MaxJiffies]
      /\ \A r \in Requests \ {req} : fifo_time'[r] = fifo_time[r]
      /\ fifo_time'[req] = IF fifo_time[next] < fifo_time[req]
                             THEN fifo_time[next] ELSE fifo_time[req]
  <2>1. req # next /\ dir[req] \in Dirs /\ {req, next} \subseteq sort_list[p][dir[req]]
    BY <1>2, <1>4
  <2>2. Inherits(req, next, p, dir[req])
    BY <1>2, <2>1, InheritList
  <2> QED BY <2>2 DEF Inherits
<1> HIDE DEF e
<1>6. /\ sort_list \in [Prios -> [Dirs -> SUBSET Requests]]
      /\ phase \in [Requests -> Phases] /\ jiffies \in 0 .. MaxJiffies
      /\ fifo_time \in [Requests -> 0 .. MaxJiffies]
  BY <1>1 DEF DeadlineTypeOK
<1>7. /\ sort_list'[p][e] = sort_list[p][e] \ {next}
      /\ \A q \in Prios, d \in Dirs : q # p \/ d # e => sort_list'[q][d] = sort_list[q][d]
  BY <1>2, <1>4, <1>6
<1>8. /\ phase[next] = "queued" /\ home[next] = p /\ dir[next] = e
      /\ \A q \in Prios : next \notin ToSet(dispatch[q])
      /\ \A q \in Prios, d \in Dirs : next \in sort_list[q][d] => q = p /\ d = e
  BY <1>2, <1>4, ListFacts
<1>9. phase'[next] = "merged" /\ \A s \in Requests \ {next} : phase'[s] = phase[s]
  BY <1>2, <1>6
<1>10. DeadlineTypeOK'
  <2>1. sort_list' \in [Prios -> [Dirs -> SUBSET Requests]]
    BY <1>2, <1>4, <1>6
  <2>2. phase' \in [Requests -> Phases]
    BY <1>2, <1>6 DEF Phases
  <2>3. rqhash' \subseteq Requests /\ last_merge' \in Requests \cup {None}
    BY <1>1, <1>2 DEF DeadlineTypeOK
  <2> QED BY <1>1, <1>2, <1>3, <1>5, <2>1, <2>2, <2>3 DEF DeadlineTypeOK, countVars
<1>11. OnBothLists'
  <2>1. ASSUME NEW q \in Prios
        PROVE  /\ IsInjective(dispatch'[q])
               /\ \A s \in ToSet(dispatch'[q]) : phase'[s] = "queued" /\ home'[s] = q
    BY <1>2, <1>8, <1>9, ListFacts
  <2>2. ASSUME NEW q \in Prios, NEW d \in Dirs
        PROVE  /\ IsInjective(fifo'[q][d])
               /\ ToSet(fifo'[q][d]) = sort_list'[q][d]
               /\ \A s \in sort_list'[q][d] :
                    /\ phase'[s] = "queued" /\ home'[s] = q /\ dir'[s] = d
                    /\ s \notin ToSet(dispatch'[q])
    <3>1. sort_list'[q][d] \subseteq sort_list[q][d] \ {next}
      BY <1>7, <1>8
    <3>2. ASSUME NEW s \in sort_list'[q][d]
          PROVE  /\ phase'[s] = "queued" /\ home'[s] = q /\ dir'[s] = d
                 /\ s \notin ToSet(dispatch'[q])
      <4>1. /\ s \in Requests \ {next}
            /\ phase[s] = "queued" /\ home[s] = q /\ dir[s] = d
            /\ s \notin ToSet(dispatch[q])
        BY <3>1, ListFacts
      <4> QED BY <1>2, <1>9, <4>1
    <3>3. IsInjective(fifo'[q][d]) /\ ToSet(fifo'[q][d]) = sort_list'[q][d]
      <4>1. CASE q = p /\ d = e
        BY <1>5, <1>7, <4>1
      <4>2. CASE q # p \/ d # e
        BY <1>5, <1>7, <4>2, ListFacts
      <4> QED BY <4>1, <4>2
    <3> QED BY <3>2, <3>3
  <2>3. ASSUME NEW s \in Requests, phase'[s] = "queued"
        PROVE  \E q \in Prios : s \in sort_list'[q][dir'[s]] \cup ToSet(dispatch'[q])
    <3>1. s # next /\ phase[s] = "queued" /\ dir[s] \in Dirs
      BY <1>1, <1>9, <2>3 DEF DeadlineTypeOK
    <3>2. PICK q \in Prios : s \in sort_list[q][dir[s]] \cup ToSet(dispatch[q])
      BY <1>1, <3>1 DEF OnBothLists
    <3>3. s \in sort_list[q][dir[s]] => s \in sort_list'[q][dir[s]]
      BY <1>7, <3>1
    <3> QED BY <1>2, <3>2, <3>3
  <2> QED BY <2>1, <2>2, <2>3 DEF OnBothLists
<1>12. MergeHintsLinked'
  <2>1. ASSUME NEW s \in rqhash' PROVE Linked(s)'
    <3>1. s # next /\ Linked(s)
      BY <1>1, <1>2 DEF MergeHintsLinked
    <3>2. PICK q \in Prios, d \in Dirs : s \in sort_list[q][d]
      BY <3>1 DEF Linked
    <3>3. s \in sort_list'[q][d]
      BY <1>7, <3>1, <3>2
    <3> QED BY <3>3 DEF Linked
  <2>2. last_merge' # None => last_merge' \in rqhash'
    BY <1>1, <1>2 DEF MergeHintsLinked
  <2> QED BY <2>1, <2>2 DEF MergeHintsLinked
<1>13. FifoSorted'
  <2> SUFFICES ASSUME NEW q \in Prios, NEW d \in Dirs
               PROVE  Sorted(fifo'[q][d], fifo_time')
    BY DEF FifoSorted, Sorted
  <2>1. CASE q = p /\ d = e
    BY <1>5, <2>1
  <2>2. CASE q # p \/ d # e
    <3>1. \A s \in ToSet(fifo[q][d]) : s \in Requests /\ s # req
      BY <1>2, <1>4, <2>2, ListFacts
    <3>2. \A s \in ToSet(fifo[q][d]) : fifo_time'[s] = fifo_time[s]
      BY <1>5, <3>1
    <3>3. Sorted(fifo[q][d], fifo_time)
      BY ListFacts
    <3>4. Sorted(fifo[q][d], fifo_time')
      BY <3>2, <3>3, SortedAlike
    <3> QED BY <1>5, <2>2, <3>4
  <2> QED BY <2>1, <2>2
<1>14. Housed'
  BY <1>1, <1>2, <1>8, <1>9 DEF Housed
<1>15. PastTimes'
  BY <1>1, <1>2, <1>5 DEF PastTimes
<1> QED BY <1>10, <1>11, <1>12, <1>13, <1>14, <1>15 DEF ListInv

(* dd_dispatch_fifo takes the head of the dispatch list, or what has       *)
(* waited longest in either direction.                                     *)
LEMMA FirstIsNext ==
  ASSUME ListInv, NEW p \in Prios, HasWork(p)
  PROVE  /\ First(p) \in Requests
         /\ dispatch[p] # << >> =>
              First(p) = Head(dispatch[p]) /\ First(p) \in ToSet(dispatch[p])
         /\ dispatch[p] = << >> =>
              \E d \in Dirs :
                /\ First(p) \in sort_list[p][d]
                /\ \A f \in Dirs : \A s \in sort_list[p][f] :
                     fifo_time[First(p)] <= fifo_time[s]
<1>1. /\ dispatch[p] \in Seq(Requests)
      /\ \A d \in Dirs : fifo[p][d] \in Seq(Requests) /\ Sorted(fifo[p][d], fifo_time)
      /\ \A d \in Dirs : ToSet(fifo[p][d]) = sort_list[p][d]
      /\ \A d \in Dirs : sort_list[p][d] \subseteq Requests
  BY ListFacts
<1>2. \A r \in Requests : fifo_time[r] \in Nat
  BY DEF ListInv, DeadlineTypeOK
<1>3. CASE dispatch[p] # << >>
  <2>1. First(p) = Head(dispatch[p])
    BY <1>3 DEF First
  <2>2. Head(dispatch[p]) \in ToSet(dispatch[p]) /\ ToSet(dispatch[p]) \subseteq Requests
    BY <1>1, <1>3, ElementsOf DEF ToSet
  <2> QED BY <1>3, <2>1, <2>2
<1>4. ASSUME NEW d \in Dirs, fifo[p][d] # << >>
      PROVE  /\ Head(fifo[p][d]) \in sort_list[p][d]
             /\ \A s \in sort_list[p][d] : fifo_time[Head(fifo[p][d])] <= fifo_time[s]
  <2> DEFINE l == fifo[p][d]
  <2>1. /\ DOMAIN l = 1 .. Len(l) /\ Len(l) \in Nat /\ Len(l) > 0 /\ Head(l) = l[1]
        /\ Sorted(l, fifo_time) /\ ToSet(l) = sort_list[p][d]
    BY <1>1, <1>4, ElementsOf
  <2>2. 1 \in DOMAIN l
    BY <2>1
  <2>3. Head(l) \in ToSet(l)
    BY <2>1, <2>2 DEF ToSet
  <2>4. ASSUME NEW s \in ToSet(l) PROVE fifo_time[l[1]] <= fifo_time[s]
    <3>1. PICK i \in DOMAIN l : s = l[i]
      BY DEF ToSet
    <3>2. CASE i = 1
      BY <1>1, <1>2, <2>1, <3>1, <3>2
    <3>3. CASE i # 1
      <4>1. 1 < i
        BY <2>1, <3>3
      <4> QED BY <2>1, <2>2, <3>1, <4>1 DEF Sorted
    <3> QED BY <3>2, <3>3
  <2> QED BY <2>1, <2>3, <2>4
<1>5. CASE dispatch[p] = << >>
  <2> DEFINE reads == fifo[p]["read"]
             writes == fifo[p]["write"]
  <2>1. "read" \in Dirs /\ "write" \in Dirs /\ \A d \in Dirs : d \in {"read", "write"}
    BY DEF Dirs
  <2>2. reads # << >> \/ writes # << >>
    BY <1>5, <2>1 DEF HasWork
  <2>3. \A d \in Dirs : fifo[p][d] = << >> => sort_list[p][d] = {}
    BY <1>1, ElementsOf
  <2>4. CASE reads = << >>
    <3>1. First(p) = Head(writes)
      BY <1>5, <2>4 DEF First
    <3>2. /\ Head(writes) \in sort_list[p]["write"]
          /\ \A s \in sort_list[p]["write"] : fifo_time[Head(writes)] <= fifo_time[s]
      BY <1>4, <2>1, <2>2, <2>4
    <3>3. sort_list[p]["read"] = {}
      BY <2>1, <2>3, <2>4
    <3> QED BY <1>1, <1>5, <2>1, <3>1, <3>2, <3>3
  <2>5. CASE reads # << >> /\ writes = << >>
    <3>1. First(p) = Head(reads)
      BY <1>5, <2>5 DEF First
    <3>2. /\ Head(reads) \in sort_list[p]["read"]
          /\ \A s \in sort_list[p]["read"] : fifo_time[Head(reads)] <= fifo_time[s]
      BY <1>4, <2>1, <2>5
    <3>3. sort_list[p]["write"] = {}
      BY <2>1, <2>3, <2>5
    <3> QED BY <1>1, <1>5, <2>1, <3>1, <3>2, <3>3
  <2>6. CASE reads # << >> /\ writes # << >>
    <3>1. First(p) = IF fifo_time[Head(reads)] < fifo_time[Head(writes)]
                       THEN Head(reads) ELSE Head(writes)
      BY <1>5, <2>6 DEF First
    <3>2. /\ Head(reads) \in sort_list[p]["read"]
          /\ \A s \in sort_list[p]["read"] : fifo_time[Head(reads)] <= fifo_time[s]
      BY <1>4, <2>1, <2>6
    <3>3. /\ Head(writes) \in sort_list[p]["write"]
          /\ \A s \in sort_list[p]["write"] : fifo_time[Head(writes)] <= fifo_time[s]
      BY <1>4, <2>1, <2>6
    <3>4. /\ Head(reads) \in Requests /\ Head(writes) \in Requests
          /\ fifo_time[First(p)] <= fifo_time[Head(reads)]
          /\ fifo_time[First(p)] <= fifo_time[Head(writes)]
      BY <1>1, <1>2, <2>1, <3>1, <3>2, <3>3
    <3>5. First(p) \in Requests
      BY <3>1, <3>4
    <3>6. ASSUME NEW f \in Dirs, NEW s \in sort_list[p][f]
          PROVE  fifo_time[First(p)] <= fifo_time[s]
      <4>1. s \in Requests /\ f \in {"read", "write"}
        BY <1>1, <2>1
      <4>2. \/ fifo_time[Head(reads)] <= fifo_time[s]
            \/ fifo_time[Head(writes)] <= fifo_time[s]
        BY <3>2, <3>3, <4>1
      <4> QED BY <1>2, <3>4, <3>5, <4>1, <4>2
    <3>7. \E d \in Dirs : First(p) \in sort_list[p][d]
      BY <2>1, <3>1, <3>2, <3>3
    <3> QED BY <1>5, <3>5, <3>6, <3>7
  <2> QED BY <2>2, <2>4, <2>5, <2>6
<1> QED BY <1>3, <1>5
LEMMA DispatchKeepsLists ==
  ASSUME ListInv, NEW p \in Prios, NEW rtOpen \in BOOLEAN, NEW beOpen \in BOOLEAN,
         Dispatch(p, rtOpen, beOpen)
  PROVE  ListInv'
<1> DEFINE r == First(p)
<1>1. /\ DeadlineTypeOK /\ OnBothLists /\ MergeHintsLinked /\ FifoSorted
      /\ PastTimes /\ Housed
  BY DEF ListInv
<1>2. /\ HasWork(p) /\ RemoveRequest(r, p)
      /\ phase' = [phase EXCEPT ![r] = "dispatched"]
      /\ UNCHANGED <<dir, ioprio, home, class, fifo_time, countVars, jiffies>>
  BY DEF Dispatch, Chosen
<1>3. r \in Requests /\ phase[r] = "queued"
  BY <1>2, FirstIsNext, ListFacts
<1> HIDE DEF r
<1>4. /\ phase \in [Requests -> Phases] /\ phase'[r] = "dispatched"
      /\ \A s \in Requests \ {r} : phase'[s] = phase[s]
  BY <1>1, <1>2, <1>3 DEF DeadlineTypeOK
<1>5. DeadlineTypeOK'
  <2>1. phase' \in [Requests -> Phases]
    BY <1>2, <1>3, <1>4 DEF Phases
  <2>2. /\ dispatch' \in [Prios -> Seq(Requests)]
        /\ fifo' \in [Prios -> [Dirs -> Seq(Requests)]]
        /\ sort_list' \in [Prios -> [Dirs -> SUBSET Requests]]
    BY <1>2, <1>3, RemoveTypes
  <2>3. rqhash' \subseteq Requests /\ last_merge' \in Requests \cup {None}
    BY <1>1, <1>2 DEF RemoveRequest, DeadlineTypeOK
  <2>4. wrong_root' \in BOOLEAN
    BY <1>1, <1>2 DEF RemoveRequest, Misdirected, Linked, DeadlineTypeOK
  <2> QED BY <1>1, <1>2, <2>1, <2>2, <2>3, <2>4 DEF DeadlineTypeOK, countVars
<1>6. ASSUME NEW q \in Prios
      PROVE  /\ IsInjective(dispatch'[q])
             /\ ToSet(dispatch'[q]) = ToSet(dispatch[q]) \ {r}
  BY <1>2, <1>3, RemoveFromDispatch
<1>7. ASSUME NEW q \in Prios, NEW d \in Dirs
      PROVE  /\ IsInjective(fifo'[q][d])
             /\ ToSet(fifo'[q][d]) = ToSet(fifo[q][d]) \ {r}
             /\ InOrderOf(fifo'[q][d], fifo[q][d])
             /\ sort_list'[q][d] = sort_list[q][d] \ {r}
  BY <1>2, <1>3, RemoveFromFifo
<1>8. OnBothLists'
  <2>1. ASSUME NEW q \in Prios
        PROVE  /\ IsInjective(dispatch'[q])
               /\ \A s \in ToSet(dispatch'[q]) : phase'[s] = "queued" /\ home'[s] = q
    BY <1>2, <1>4, <1>6, ListFacts
  <2>2. ASSUME NEW q \in Prios, NEW d \in Dirs
        PROVE  /\ IsInjective(fifo'[q][d])
               /\ ToSet(fifo'[q][d]) = sort_list'[q][d]
               /\ \A s \in sort_list'[q][d] :
                    /\ phase'[s] = "queued" /\ home'[s] = q /\ dir'[s] = d
                    /\ s \notin ToSet(dispatch'[q])
    <3>1. ASSUME NEW s \in sort_list'[q][d]
          PROVE  /\ phase'[s] = "queued" /\ home'[s] = q /\ dir'[s] = d
                 /\ s \notin ToSet(dispatch'[q])
      <4>1. s \in sort_list[q][d] /\ s # r
        BY <1>7
      <4>2. /\ s \in Requests \ {r} /\ phase[s] = "queued" /\ home[s] = q /\ dir[s] = d
            /\ s \notin ToSet(dispatch[q])
        BY <4>1, ListFacts
      <4> QED BY <1>2, <1>4, <1>6, <4>2
    <3>2. ToSet(fifo[q][d]) = sort_list[q][d]
      BY ListFacts
    <3>3. ToSet(fifo'[q][d]) = sort_list'[q][d]
      BY <1>7, <3>2
    <3>4. IsInjective(fifo'[q][d])
      BY <1>7
    <3> QED BY <3>1, <3>3, <3>4
  <2>3. ASSUME NEW s \in Requests, phase'[s] = "queued"
        PROVE  \E q \in Prios : s \in sort_list'[q][dir'[s]] \cup ToSet(dispatch'[q])
    <3>1. s # r /\ phase[s] = "queued" /\ dir[s] \in Dirs /\ dir'[s] = dir[s]
      BY <1>1, <1>2, <1>4, <2>3 DEF DeadlineTypeOK
    <3>2. PICK q \in Prios : s \in sort_list[q][dir[s]] \cup ToSet(dispatch[q])
      BY <1>1, <3>1 DEF OnBothLists
    <3> QED BY <1>6, <1>7, <3>1, <3>2
  <2> QED BY <2>1, <2>2, <2>3 DEF OnBothLists
<1>9. MergeHintsLinked'
  <2>1. rqhash' = rqhash \ {r} /\ last_merge' = IF last_merge = r THEN None ELSE last_merge
    BY <1>2 DEF RemoveRequest
  <2>2. ASSUME NEW s \in rqhash' PROVE Linked(s)'
    <3>1. s # r /\ Linked(s)
      BY <1>1, <2>1 DEF MergeHintsLinked
    <3>2. PICK q \in Prios, d \in Dirs : s \in sort_list[q][d]
      BY <3>1 DEF Linked
    <3>3. s \in sort_list'[q][d]
      BY <1>7, <3>1, <3>2
    <3> QED BY <3>3 DEF Linked
  <2> QED BY <1>1, <2>1, <2>2 DEF MergeHintsLinked
<1>10. FifoSorted'
  <2> SUFFICES ASSUME NEW q \in Prios, NEW d \in Dirs
               PROVE  Sorted(fifo'[q][d], fifo_time)
    BY <1>2 DEF FifoSorted, Sorted
  <2>1. Sorted(fifo[q][d], fifo_time)
    BY ListFacts
  <2> QED BY <1>7, <2>1, SortedThinned
<1>11. Housed'
  BY <1>1, <1>2, <1>3, <1>4 DEF Housed
<1>12. PastTimes'
  BY <1>1, <1>2 DEF PastTimes
<1> QED BY <1>5, <1>8, <1>9, <1>10, <1>11, <1>12 DEF ListInv

LEMMA InsertKeepsLists ==
  ASSUME ListInv, NEW r \in Requests, NEW fg \in BOOLEAN, Insert(r, fg)
  PROVE  ListInv'
<1> DEFINE p == SelectQueue(r, fg)
<1>1. p \in Prios
  BY SelectQueueType DEF ListInv
<1> HIDE DEF p
<1>2. /\ phase[r] \in {"new", "requeued"} /\ Classify(r, p)
      /\ phase' = [phase EXCEPT ![r] = "queued"]
      /\ LinkAtHead(r, p) \/ LinkByArrival(r, p)
  BY DEF Insert, p
<1> QED BY <1>1, <1>2, LinkAtHeadKeepsLists, LinkByArrivalKeepsLists

(* Every action, by name.                                                  *)
LEMMA StepIs ==
  ASSUME DeadlineNext
  PROVE  \/ \E r \in Requests, d \in Dirs, i \in Prios : Prepare(r, d, i)
         \/ \E r \in Requests, fg \in BOOLEAN : Insert(r, fg)
         \/ \E r \in Requests, fg \in BOOLEAN : RequestMerged(r, fg)
         \/ \E r, t \in Requests, fg \in BOOLEAN : InsertMerged(r, t, fg)
         \/ \E r, t \in Requests, p \in Prios, fg \in BOOLEAN : MergedRequests(r, t, p, fg)
         \/ \E r \in Requests : Issue(r) \/ Requeue(r) \/ Finish(r)
         \/ \E p \in Prios, rtOpen, beOpen \in BOOLEAN : Dispatch(p, rtOpen, beOpen)
         \/ Tick
BY DeadlineAssumption DEF DeadlineNext

(* What was once told to the wrong tree stays told.                        *)
LEMMA RootStaysRight ==
  [DeadlineNext]_deadlineVars /\ RightRoot' => RightRoot
<1> SUFFICES ASSUME [DeadlineNext]_deadlineVars, ~wrong_root' PROVE ~wrong_root
  BY DEF RightRoot
<1>1. ASSUME NEW r \in Requests, NEW p, RemoveRequest(r, p) PROVE ~wrong_root
  BY <1>1 DEF RemoveRequest
<1>2. ASSUME NEW r \in Requests, NEW d \in Dirs, NEW i \in Prios, Prepare(r, d, i)
      PROVE  ~wrong_root
  BY <1>2 DEF Prepare, listVars
<1>3. ASSUME NEW r \in Requests, NEW fg \in BOOLEAN, Insert(r, fg)
      PROVE  ~wrong_root
  BY <1>3 DEF Insert, LinkAtHead, LinkByArrival
<1>4. ASSUME NEW r \in Requests, NEW fg \in BOOLEAN, RequestMerged(r, fg)
      PROVE  ~wrong_root
  BY <1>4 DEF RequestMerged
<1>5. ASSUME NEW r \in Requests, NEW t \in Requests, NEW fg \in BOOLEAN,
             InsertMerged(r, t, fg)
      PROVE  ~wrong_root
  BY <1>1, <1>5 DEF InsertMerged
<1>6. ASSUME NEW r \in Requests, NEW t \in Requests, NEW p \in Prios,
             NEW fg \in BOOLEAN, MergedRequests(r, t, p, fg)
      PROVE  ~wrong_root
  BY <1>6 DEF MergedRequests
<1>7. ASSUME NEW r \in Requests, Issue(r) \/ Requeue(r) \/ Finish(r)
      PROVE  ~wrong_root
  BY <1>7 DEF Issue, Requeue, Finish, listVars
<1>8. ASSUME NEW p \in Prios, NEW rtOpen \in BOOLEAN, NEW beOpen \in BOOLEAN,
             Dispatch(p, rtOpen, beOpen)
      PROVE  ~wrong_root
  BY <1>8 DEF Dispatch, RemoveRequest
<1>9. CASE Tick
  BY <1>9 DEF Tick, listVars
<1>10. CASE UNCHANGED deadlineVars
  BY <1>10 DEF deadlineVars, listVars
<1> QED BY <1>2, <1>3, <1>4, <1>5, <1>6, <1>7, <1>8, <1>9, <1>10, StepIs

LEMMA ListStep == ListInv /\ [DeadlineNext]_deadlineVars /\ RightRoot' => ListInv'
<1> SUFFICES ASSUME ListInv, [DeadlineNext]_deadlineVars, ~wrong_root' PROVE ListInv'
  BY DEF RightRoot
<1>1. CASE DeadlineNext
  BY <1>1, StepIs, PrepareKeepsLists, InsertKeepsLists, RequestMergedKeepsLists,
     InsertMergedKeepsLists, MergedRequestsKeepsLists, IssueKeepsLists,
     RequeueKeepsLists, FinishKeepsLists, DispatchKeepsLists, TickKeepsLists
<1>2. CASE UNCHANGED deadlineVars
  BY <1>2, ListsAlone DEF deadlineVars, requestVars, listVars, countVars, ListInv,
     DeadlineTypeOK, Housed, PastTimes
<1> QED BY <1>1, <1>2

LEMMA ListsHold == DeadlineSpec => [](RightRoot => ListInv)
<1>1. (RightRoot => ListInv) /\ [DeadlineNext]_deadlineVars => (RightRoot => ListInv)'
  BY ListStep, RootStaysRight
<1> QED BY <1>1, ListStart, PTL DEF DeadlineSpec
-----------------------------------------------------------------------------
(***************************************************************************)
(* The trees and the statistics, while the pool has a meta for everybody.  *)
(***************************************************************************)
PoolCovers == Cardinality(Requests) <= MetaCapacity

(* A request's meta remembers the queue that counts it, so that whoever    *)
(* asks for its queue again is told the same one.                          *)
RootInv ==
  /\ RightRoot
  /\ \A r \in Requests : class[r] = home[r]

LEMMA RoomLeft ==
  ASSUME PoolCovers, NEW r \in Requests, class[r] = None
  PROVE  MetaRoom
<1> DEFINE Held == {q \in Requests : class[q] # None}
<1>1. IsFiniteSet(Requests) /\ MetaCapacity \in Nat
  BY DeadlineAssumption
<1>2. /\ IsFiniteSet(Requests \ {r})
      /\ Cardinality(Requests \ {r}) = Cardinality(Requests) - 1
  BY <1>1, FS_RemoveElement
<1>3. Held \in SUBSET (Requests \ {r})
  OBVIOUS
<1> HIDE DEF Held
<1>4. IsFiniteSet(Held) /\ Cardinality(Held) <= Cardinality(Requests \ {r})
  BY <1>2, <1>3, FS_Subset
<1>5. Cardinality(Held) \in Nat /\ Cardinality(Requests) \in Nat
  BY <1>1, <1>4, FS_CardinalityType
<1>6. Cardinality(Held) < MetaCapacity
  BY <1>1, <1>2, <1>4, <1>5 DEF PoolCovers
<1> QED BY <1>6 DEF MetaRoom, Held

(* The queue that a request with a home is told.                           *)
LEMMA SameQueue ==
  ASSUME ListInv, RootInv, NEW r \in Requests, home[r] # None, NEW fg \in BOOLEAN
  PROVE  SelectQueue(r, fg) = home[r]
BY DEF RootInv, SelectQueue

LEMMA ClassifiedAlike ==
  ASSUME PoolCovers, ListInv, RootInv, NEW r \in Requests, NEW fg \in BOOLEAN,
         Classify(r, SelectQueue(r, fg))
  PROVE  \A q \in Requests : class'[q] = home'[q]
<1> DEFINE p == SelectQueue(r, fg)
<1>1. /\ class \in [Requests -> Prios \cup {None}]
      /\ home \in [Requests -> Prios \cup {None}]
  BY DEF ListInv, DeadlineTypeOK
<1>2. class[r] # None \/ MetaRoom
  BY RoomLeft
<1>3. class' = [class EXCEPT ![r] = p] /\ home' = [home EXCEPT ![r] = p]
  BY <1>2 DEF Classify
<1> HIDE DEF p
<1> QED BY <1>1, <1>3 DEF RootInv

LEMMA RootStep ==
  ASSUME PoolCovers, ListInv, RootInv, [DeadlineNext]_deadlineVars
  PROVE  RootInv'
<1>1. /\ class \in [Requests -> Prios \cup {None}]
      /\ home \in [Requests -> Prios \cup {None}]
      /\ wrong_root \in BOOLEAN /\ ~wrong_root
      /\ dir \in [Requests -> Dirs]
  BY DEF ListInv, DeadlineTypeOK, RootInv, RightRoot
<1>2. ASSUME NEW r \in Requests, NEW d \in Dirs, NEW i \in Prios, Prepare(r, d, i)
      PROVE  RootInv'
  BY <1>1, <1>2 DEF Prepare, RootInv, RightRoot, listVars
<1>3. ASSUME NEW r \in Requests, NEW fg \in BOOLEAN, Insert(r, fg)
      PROVE  RootInv'
  <2>1. Classify(r, SelectQueue(r, fg)) /\ wrong_root' = wrong_root
    BY <1>3 DEF Insert, LinkAtHead, LinkByArrival
  <2> QED BY <2>1, ClassifiedAlike DEF RootInv, RightRoot
<1>4. ASSUME NEW r \in Requests, NEW fg \in BOOLEAN, RequestMerged(r, fg)
      PROVE  RootInv'
  <2>1. r \in rqhash /\ UNCHANGED <<class, home>>
    BY <1>4 DEF RequestMerged, requestVars
  <2>2. PICK p \in Prios, d \in Dirs : r \in sort_list[p][d]
    BY <2>1 DEF ListInv, MergeHintsLinked, Linked
  <2>3. home[r] = p /\ dir[r] = d
    BY <2>2, ListFacts
  <2>4. SelectQueue(r, fg) = p
    BY <2>3, SameQueue, NoneIsNoPrio
  <2>5. wrong_root' = wrong_root
    BY <1>1, <1>4, <2>2, <2>3, <2>4 DEF RequestMerged
  <2> QED BY <2>1, <2>5 DEF RootInv, RightRoot
<1>5. ASSUME NEW r \in Requests, NEW t \in Requests, NEW fg \in BOOLEAN,
             InsertMerged(r, t, fg)
      PROVE  RootInv'
  <2>1. /\ phase[r] = "new" /\ Classify(r, SelectQueue(r, fg))
        /\ RemoveRequest(r, SelectQueue(r, fg))
    BY <1>5 DEF InsertMerged
  <2>2. SelectQueue(r, fg) \in Prios
    BY SelectQueueType DEF ListInv
  <2>3. wrong_root' = wrong_root
    BY <2>1, <2>2, RemoveUnlinked
  <2> QED BY <2>1, <2>3, ClassifiedAlike DEF RootInv, RightRoot
<1>6. ASSUME NEW r \in Requests, NEW t \in Requests, NEW p \in Prios,
             NEW fg \in BOOLEAN, MergedRequests(r, t, p, fg)
      PROVE  RootInv'
  <2>1. t \in sort_list[p][dir[r]] /\ dir[r] \in Dirs /\ UNCHANGED <<class, home>>
    BY <1>1, <1>6 DEF MergedRequests
  <2>2. home[t] = p
    BY <2>1, ListFacts
  <2>3. SelectQueue(t, fg) = p
    BY <2>2, SameQueue, NoneIsNoPrio
  <2>4. wrong_root' = wrong_root
    BY <1>1, <1>6, <2>1, <2>3 DEF MergedRequests
  <2> QED BY <2>1, <2>4 DEF RootInv, RightRoot
<1>7. ASSUME NEW r \in Requests, Issue(r)
      PROVE  RootInv'
  <2>1. home[r] # None
    BY <1>7 DEF Issue, ListInv, Housed
  <2>2. class' = [class EXCEPT ![r] = class[r]] /\ home' = home /\ wrong_root' = wrong_root
    BY <1>7, <2>1 DEF Issue, RootInv, listVars
  <2> QED BY <1>1, <2>2 DEF RootInv, RightRoot
<1>8. ASSUME NEW r \in Requests, Requeue(r)
      PROVE  RootInv'
  BY <1>8 DEF Requeue, RootInv, RightRoot, listVars
<1>9. ASSUME NEW r \in Requests, Finish(r)
      PROVE  RootInv'
  BY <1>1, <1>9 DEF Finish, RootInv, RightRoot, listVars
<1>10. ASSUME NEW p \in Prios, NEW rtOpen \in BOOLEAN, NEW beOpen \in BOOLEAN,
              Dispatch(p, rtOpen, beOpen)
       PROVE  RootInv'
  <2> DEFINE r == First(p)
  <2>1. HasWork(p) /\ RemoveRequest(r, p) /\ UNCHANGED <<class, home>>
    BY <1>10 DEF Dispatch, Chosen
  <2>2. r \in Requests /\ home[r] = p
    BY <2>1, FirstIsNext, ListFacts
  <2> HIDE DEF r
  <2>3. ~Misdirected(r, p)
    BY <2>2, ListFacts DEF Misdirected, Linked
  <2>4. wrong_root' = wrong_root
    BY <1>1, <2>1, <2>3 DEF RemoveRequest
  <2> QED BY <2>1, <2>4 DEF RootInv, RightRoot
<1>11. CASE Tick
  BY <1>11 DEF Tick, RootInv, RightRoot, requestVars, listVars
<1>12. CASE UNCHANGED deadlineVars
  BY <1>12 DEF deadlineVars, RootInv, RightRoot, requestVars, listVars
<1> QED BY <1>2, <1>3, <1>4, <1>5, <1>6, <1>7, <1>8, <1>9, <1>10, <1>11, <1>12, StepIs

LEMMA RootsHold ==
  ASSUME PoolCovers PROVE DeadlineSpec => [](ListInv /\ RootInv)
<1>1. DeadlineInit => RootInv
  BY DEF DeadlineInit, RootInv, RightRoot
<1>2. ListInv /\ RootInv /\ [DeadlineNext]_deadlineVars => RootInv'
  BY RootStep
<1>3. RootInv' => RightRoot'
  BY DEF RootInv
<1>4. ListInv /\ RootInv /\ [DeadlineNext]_deadlineVars => (ListInv /\ RootInv)'
  BY <1>2, <1>3, ListStep
<1> QED BY <1>1, <1>4, ListStart, PTL DEF DeadlineSpec

(* Whatever the size of the pool, until a tree is told to remove a request *)
(* that it does not hold every queued request is on the list of its queue  *)
(* and direction, once, the FIFOs are in the order of their times, and     *)
(* only linked requests are found for a merge.                             *)
THEOREM ListsConsistentWhileRootsRight ==
  DeadlineSpec => [](RightRoot => OnBothLists /\ FifoSorted /\ MergeHintsLinked)
<1>1. ListInv => OnBothLists /\ FifoSorted /\ MergeHintsLinked
  BY DEF ListInv
<1> QED BY <1>1, ListsHold, PTL

(* With a meta for every request no tree is told to remove what another    *)
(* one holds, by whichever task a merge is done.                           *)
THEOREM ElevatorAlwaysConsistent ==
  ASSUME PoolCovers PROVE DeadlineSpec => []ElevatorConsistent
<1>1. ListInv /\ RootInv => ElevatorConsistent
  BY DEF ListInv, RootInv, ElevatorConsistent
<1> QED BY <1>1, RootsHold, PTL

(* Arithmetic of counters that wrap.                                       *)
LEMMA ModSmall ==
  ASSUME NEW n \in Nat, NEW m \in Nat \ {0}, n < m
  PROVE  n % m = n
OBVIOUS

LEMMA ModOnce ==
  ASSUME NEW n \in Nat, NEW m \in Nat \ {0}, m <= n, n < m + m
  PROVE  n % m = n - m
<1>1. n % m \in 0 .. m - 1 /\ n = m * (n \div m) + (n % m) /\ n \div m \in Int
  OBVIOUS
<1> DEFINE q == n \div m
           r == n % m
<1> HIDE DEF q, r
<1>2. q = 1
  <2>1. q \in Int /\ r \in 0 .. m - 1 /\ n = m * q + r
    BY <1>1 DEF q, r
  <2>2. CASE q <= 0
    <3>1. m * q <= 0
      BY <2>1, <2>2
    <3> QED BY <2>1, <3>1
  <2>3. CASE q >= 2
    <3>1. m * q >= m + m
      BY <2>1, <2>3
    <3> QED BY <2>1, <3>1
  <2> QED BY <2>1, <2>2, <2>3
<1> QED BY <1>1, <1>2 DEF q, r

(* Every request a queue has can be told apart by its counters.            *)
SpanCovers == Cardinality(Requests) < CounterSpan

HomeOf(p) == {r \in Requests : home[r] = p}

LEMMA HomesCounted ==
  ASSUME SpanCovers, NEW S \in SUBSET Requests
  PROVE  /\ IsFiniteSet(S) /\ Cardinality(S) \in Nat /\ Cardinality(S) < CounterSpan
         /\ CounterSpan \in Nat \ {0}
<1>1. IsFiniteSet(Requests) /\ CounterSpan \in Nat \ {0}
  BY DeadlineAssumption
<1>2. IsFiniteSet(S) /\ Cardinality(S) <= Cardinality(Requests)
  BY <1>1, FS_Subset
<1>3. Cardinality(S) \in Nat /\ Cardinality(Requests) \in Nat
  BY <1>1, <1>2, FS_CardinalityType
<1> QED BY <1>1, <1>2, <1>3 DEF SpanCovers

(* dd_queued without the wrap.                                             *)
LEMMA QueuedIs ==
  ASSUME NEW m \in Nat \ {0}, NEW i \in 0 .. m - 1, NEW c \in 0 .. m - 1
  PROVE  (i + m - c) % m = IF c <= i THEN i - c ELSE i + m - c
<1>1. CASE c <= i
  <2>1. i + m - c \in Nat /\ m <= i + m - c /\ i + m - c < m + m
    BY <1>1
  <2>2. (i + m - c) % m = (i + m - c) - m
    BY <2>1, ModOnce
  <2> QED BY <1>1, <2>2
<1>2. CASE ~(c <= i)
  <2>1. i + m - c \in Nat /\ i + m - c < m
    BY <1>2
  <2>2. (i + m - c) % m = i + m - c
    BY <2>1, ModSmall
  <2> QED BY <1>2, <2>2
<1> QED BY <1>1, <1>2

LEMMA BumpIs ==
  ASSUME NEW m \in Nat \ {0}, NEW i \in 0 .. m - 1
  PROVE  /\ (i + 1) % m = IF i + 1 = m THEN 0 ELSE i + 1
         /\ (i + 1) % m \in 0 .. m - 1
<1>1. CASE i + 1 = m
  <2>1. i + 1 \in Nat /\ m <= i + 1 /\ i + 1 < m + m
    BY <1>1
  <2>2. (i + 1) % m = (i + 1) - m
    BY <2>1, ModOnce
  <2> QED BY <1>1, <2>2
<1>2. CASE i + 1 # m
  <2>1. i + 1 \in Nat /\ i + 1 < m
    BY <1>2
  <2>2. (i + 1) % m = i + 1
    BY <2>1, ModSmall
  <2> QED BY <1>2, <2>1, <2>2
<1> QED BY <1>1, <1>2

(* One more inserted is one more queued, one more completed one less.      *)
LEMMA QueuedUp ==
  ASSUME NEW m \in Nat \ {0}, NEW i \in 0 .. m - 1, NEW c \in 0 .. m - 1,
         NEW n \in Nat, n + 1 < m, (i + m - c) % m = n
  PROVE  (((i + 1) % m) + m - c) % m = n + 1
<1> DEFINE j == (i + 1) % m
<1>1. j \in 0 .. m - 1 /\ j = IF i + 1 = m THEN 0 ELSE i + 1
  BY BumpIs
<1>2. n = IF c <= i THEN i - c ELSE i + m - c
  BY QueuedIs
<1> HIDE DEF j
<1>3. (j + m - c) % m = IF c <= j THEN j - c ELSE j + m - c
  BY <1>1, QueuedIs
<1>4. (IF c <= j THEN j - c ELSE j + m - c) = n + 1
  BY <1>1, <1>2
<1> QED BY <1>3, <1>4 DEF j

LEMMA QueuedDown ==
  ASSUME NEW m \in Nat \ {0}, NEW i \in 0 .. m - 1, NEW c \in 0 .. m - 1,
         NEW n \in Nat \ {0}, (i + m - c) % m = n
  PROVE  (i + m - ((c + 1) % m)) % m = n - 1
<1> DEFINE d == (c + 1) % m
<1>1. d \in 0 .. m - 1 /\ d = IF c + 1 = m THEN 0 ELSE c + 1
  BY BumpIs
<1>2. n = IF c <= i THEN i - c ELSE i + m - c
  BY QueuedIs
<1> HIDE DEF d
<1>3. (i + m - d) % m = IF d <= i THEN i - d ELSE i + m - d
  BY <1>1, QueuedIs
<1>4. (IF d <= i THEN i - d ELSE i + m - d) = n - 1
  BY <1>1, <1>2
<1> QED BY <1>3, <1>4 DEF d

LEMMA CountTypes ==
  ASSUME ListInv
  PROVE  /\ CounterSpan \in Nat \ {0}
         /\ inserted \in [Prios -> 0 .. CounterSpan - 1]
         /\ completed \in [Prios -> 0 .. CounterSpan - 1]
         /\ home \in [Requests -> Prios \cup {None}]
BY DeadlineAssumption DEF ListInv, DeadlineTypeOK

LEMMA CountedIn ==
  ASSUME SpanCovers, ListInv, QueuedAgrees, NEW r \in Requests, NEW p \in Prios,
         home[r] = None, home' = [home EXCEPT ![r] = p],
         inserted' = [inserted EXCEPT ![p] = (inserted[p] + 1) % CounterSpan],
         UNCHANGED completed
  PROVE  QueuedAgrees'
<1>1. /\ CounterSpan \in Nat \ {0}
      /\ inserted \in [Prios -> 0 .. CounterSpan - 1]
      /\ completed \in [Prios -> 0 .. CounterSpan - 1]
      /\ home \in [Requests -> Prios \cup {None}]
  BY CountTypes
<1> SUFFICES ASSUME NEW q \in Prios
             PROVE  (inserted'[q] + CounterSpan - completed[q]) % CounterSpan
                      = Cardinality(HomeOf(q)')
  BY DEF QueuedAgrees, Queued, HomeOf
<1>2. (inserted[q] + CounterSpan - completed[q]) % CounterSpan = Cardinality(HomeOf(q))
  BY DEF QueuedAgrees, Queued, HomeOf
<1>3. CASE q # p
  <2>1. HomeOf(q)' = HomeOf(q) /\ inserted'[q] = inserted[q]
    BY <1>1, <1>3, NoneIsNoPrio DEF HomeOf
  <2> QED BY <1>2, <2>1
<1>4. CASE q = p
  <2>1. HomeOf(q)' = HomeOf(q) \cup {r} /\ r \notin HomeOf(q)
    BY <1>1, <1>4, NoneIsNoPrio DEF HomeOf
  <2>2. HomeOf(q) \in SUBSET Requests /\ HomeOf(q)' \in SUBSET Requests
    BY DEF HomeOf
  <2>3. Cardinality(HomeOf(q)') = Cardinality(HomeOf(q)) + 1
    BY <2>1, <2>2, HomesCounted, FS_AddElement
  <2>4. Cardinality(HomeOf(q)) \in Nat /\ Cardinality(HomeOf(q)) + 1 < CounterSpan
    BY <2>2, <2>3, HomesCounted
  <2>5. inserted'[q] = (inserted[q] + 1) % CounterSpan
    BY <1>1, <1>4
  <2>6. inserted[q] \in 0 .. CounterSpan - 1 /\ completed[q] \in 0 .. CounterSpan - 1
    BY <1>1
  <2>7. (((inserted[q] + 1) % CounterSpan) + CounterSpan - completed[q]) % CounterSpan
          = Cardinality(HomeOf(q)) + 1
    <3> DEFINE i == inserted[q]
               c == completed[q]
               n == Cardinality(HomeOf(q))
    <3>1. /\ i \in 0 .. CounterSpan - 1 /\ c \in 0 .. CounterSpan - 1
          /\ n \in Nat /\ n + 1 < CounterSpan
          /\ (i + CounterSpan - c) % CounterSpan = n
      BY <1>2, <2>4, <2>6
    <3> HIDE DEF i, c, n
    <3>2. (((i + 1) % CounterSpan) + CounterSpan - c) % CounterSpan = n + 1
      BY <1>1, <3>1, QueuedUp
    <3> QED BY <3>2 DEF i, c, n
  <2> QED BY <2>3, <2>5, <2>7
<1> QED BY <1>3, <1>4

LEMMA CountedOut ==
  ASSUME SpanCovers, ListInv, QueuedAgrees, NEW r \in Requests,
         home[r] # None, home' = [home EXCEPT ![r] = None],
         completed' = [completed EXCEPT ![home[r]] = (completed[home[r]] + 1) % CounterSpan],
         UNCHANGED inserted
  PROVE  QueuedAgrees'
<1>1. /\ CounterSpan \in Nat \ {0}
      /\ inserted \in [Prios -> 0 .. CounterSpan - 1]
      /\ completed \in [Prios -> 0 .. CounterSpan - 1]
      /\ home \in [Requests -> Prios \cup {None}]
  BY CountTypes
<1> SUFFICES ASSUME NEW q \in Prios
             PROVE  (inserted[q] + CounterSpan - completed'[q]) % CounterSpan
                      = Cardinality(HomeOf(q)')
  BY DEF QueuedAgrees, Queued, HomeOf
<1>2. (inserted[q] + CounterSpan - completed[q]) % CounterSpan = Cardinality(HomeOf(q))
  BY DEF QueuedAgrees, Queued, HomeOf
<1>3. CASE q # home[r]
  <2>1. HomeOf(q)' = HomeOf(q) /\ completed'[q] = completed[q]
    BY <1>1, <1>3, NoneIsNoPrio DEF HomeOf
  <2> QED BY <1>2, <2>1
<1>4. CASE q = home[r]
  <2>1. HomeOf(q)' = HomeOf(q) \ {r} /\ r \in HomeOf(q)
    BY <1>1, <1>4, NoneIsNoPrio DEF HomeOf
  <2>2. HomeOf(q) \in SUBSET Requests /\ HomeOf(q)' \in SUBSET Requests
    BY DEF HomeOf
  <2>3. Cardinality(HomeOf(q)') = Cardinality(HomeOf(q)) - 1
    BY <2>1, <2>2, HomesCounted, FS_RemoveElement
  <2>4. Cardinality(HomeOf(q)) \in Nat \ {0}
    BY <2>2, <2>3, HomesCounted
  <2>5. completed'[q] = (completed[q] + 1) % CounterSpan
    BY <1>1, <1>4
  <2>6. inserted[q] \in 0 .. CounterSpan - 1 /\ completed[q] \in 0 .. CounterSpan - 1
    BY <1>1
  <2>7. (inserted[q] + CounterSpan - ((completed[q] + 1) % CounterSpan)) % CounterSpan
          = Cardinality(HomeOf(q)) - 1
    <3> DEFINE i == inserted[q]
               c == completed[q]
               n == Cardinality(HomeOf(q))
    <3>1. /\ i \in 0 .. CounterSpan - 1 /\ c \in 0 .. CounterSpan - 1
          /\ n \in Nat \ {0} /\ (i + CounterSpan - c) % CounterSpan = n
      BY <1>2, <2>4, <2>6
    <3> HIDE DEF i, c, n
    <3>2. (i + CounterSpan - ((c + 1) % CounterSpan)) % CounterSpan = n - 1
      BY <1>1, <3>1, QueuedDown
    <3> QED BY <3>2 DEF i, c, n
  <2> QED BY <2>3, <2>5, <2>7
<1> QED BY <1>3, <1>4

(* An insertion counts a request once, in the queue it stays in.           *)
LEMMA ClassifiedCount ==
  ASSUME SpanCovers, ListInv, RootInv, QueuedAgrees, NEW r \in Requests,
         NEW fg \in BOOLEAN, Classify(r, SelectQueue(r, fg))
  PROVE  QueuedAgrees'
<1> DEFINE p == SelectQueue(r, fg)
<1>1. p \in Prios
  BY SelectQueueType DEF ListInv
<1>2. /\ home' = [home EXCEPT ![r] = p] /\ UNCHANGED completed
      /\ inserted' = IF home[r] = None
                       THEN [inserted EXCEPT ![p] = (inserted[p] + 1) % CounterSpan]
                       ELSE inserted
  BY DEF Classify, CountInsert
<1>3. CASE home[r] = None
  <2> HIDE DEF p
  <2> QED BY <1>1, <1>2, <1>3, CountedIn
<1>4. CASE home[r] # None
  <2>1. p = home[r] /\ home \in [Requests -> Prios \cup {None}]
    BY <1>4, SameQueue, CountTypes
  <2> HIDE DEF p
  <2>2. home' = home /\ inserted' = inserted
    BY <1>2, <1>4, <2>1
  <2> QED BY <1>2, <2>2 DEF QueuedAgrees, Queued
<1> QED BY <1>3, <1>4

LEMMA CountStep ==
  ASSUME SpanCovers, ListInv, RootInv, QueuedAgrees, [DeadlineNext]_deadlineVars
  PROVE  QueuedAgrees'
<1>1. CASE UNCHANGED <<home, inserted, completed>>
  BY <1>1 DEF QueuedAgrees, Queued
<1>2. ASSUME NEW r \in Requests, NEW d \in Dirs, NEW i \in Prios, Prepare(r, d, i)
      PROVE  QueuedAgrees'
  <2>1. home[r] = None /\ home \in [Requests -> Prios \cup {None}]
    BY <1>2, CountTypes DEF Prepare, ListInv, Housed
  <2> QED BY <1>1, <1>2, <2>1 DEF Prepare, countVars
<1>3. ASSUME NEW r \in Requests, NEW fg \in BOOLEAN, Insert(r, fg)
      PROVE  QueuedAgrees'
  BY <1>3, ClassifiedCount DEF Insert
<1>4. ASSUME NEW r \in Requests, NEW t \in Requests, NEW fg \in BOOLEAN,
             InsertMerged(r, t, fg)
      PROVE  QueuedAgrees'
  BY <1>4, ClassifiedCount DEF InsertMerged
<1>5. ASSUME NEW r \in Requests, Finish(r)
      PROVE  QueuedAgrees'
  <2>1. home' = [home EXCEPT ![r] = None] /\ UNCHANGED inserted /\ CountFinish(r)
    BY <1>5 DEF Finish
  <2>2. CASE home[r] # None
    BY <2>1, <2>2, CountedOut DEF CountFinish
  <2>3. CASE home[r] = None
    BY <1>1, <2>1, <2>3, CountTypes DEF CountFinish
  <2> QED BY <2>2, <2>3
<1>6. ASSUME NEW r \in Requests, NEW fg \in BOOLEAN, RequestMerged(r, fg)
      PROVE  QueuedAgrees'
  BY <1>1, <1>6 DEF RequestMerged, requestVars, countVars
<1>7. ASSUME NEW r \in Requests, NEW t \in Requests, NEW p \in Prios,
             NEW fg \in BOOLEAN, MergedRequests(r, t, p, fg)
      PROVE  QueuedAgrees'
  BY <1>1, <1>7 DEF MergedRequests, countVars
<1>8. ASSUME NEW r \in Requests, Issue(r) \/ Requeue(r)
      PROVE  QueuedAgrees'
  BY <1>1, <1>8 DEF Issue, Requeue, countVars
<1>9. ASSUME NEW p \in Prios, NEW rtOpen \in BOOLEAN, NEW beOpen \in BOOLEAN,
             Dispatch(p, rtOpen, beOpen)
      PROVE  QueuedAgrees'
  BY <1>1, <1>9 DEF Dispatch, countVars
<1>10. CASE Tick
  BY <1>1, <1>10 DEF Tick, requestVars, countVars
<1>11. CASE UNCHANGED deadlineVars
  BY <1>1, <1>11 DEF deadlineVars, requestVars, countVars
<1> QED BY <1>2, <1>3, <1>4, <1>5, <1>6, <1>7, <1>8, <1>9, <1>10, <1>11, StepIs

(* dd_queued tells how many requests a queue has counted and not seen      *)
(* finished, through every wrap of its counters, merge and requeue.        *)
THEOREM QueuedAlwaysAgrees ==
  ASSUME PoolCovers, SpanCovers PROVE DeadlineSpec => []QueuedAgrees
<1>1. DeadlineInit => QueuedAgrees
  <2> SUFFICES ASSUME DeadlineInit, NEW p \in Prios
               PROVE  Queued(p) = Cardinality({r \in Requests : home[r] = p})
    BY DEF QueuedAgrees
  <2>1. {r \in Requests : home[r] = p} = {}
    BY NoneIsNoPrio DEF DeadlineInit
  <2>2. inserted[p] = 0 /\ completed[p] = 0 /\ CounterSpan \in Nat \ {0}
    BY DeadlineAssumption DEF DeadlineInit
  <2>3. (0 + CounterSpan - 0) % CounterSpan = 0
    BY <2>2, QueuedIs
  <2> QED BY <2>1, <2>2, <2>3, FS_EmptySet DEF Queued
<1>2. ListInv /\ RootInv /\ QueuedAgrees /\ [DeadlineNext]_deadlineVars => QueuedAgrees'
  BY CountStep
<1> QED BY <1>1, <1>2, RootsHold, PTL DEF DeadlineSpec
-----------------------------------------------------------------------------
(***************************************************************************)
(* ElevatorOrder, step by step.                                            *)
(***************************************************************************)
waiting == [p \in Prios |-> sort_list[p]["read"] \cup sort_list[p]["write"]]
served == {r \in Requests : phase[r] = "dispatched"}

LEMMA WaitingIs ==
  ASSUME NEW p \in Prios, NEW r
  PROVE  /\ waiting[p] = sort_list[p]["read"] \cup sort_list[p]["write"]
         /\ r \in waiting[p] <=> \E d \in Dirs : r \in sort_list[p][d]
BY DEF waiting, Dirs

LEMMA OrderStart == DeadlineInit => Order!OrderInit
<1> SUFFICES ASSUME DeadlineInit PROVE Order!OrderInit
  OBVIOUS
<1>1. \A p \in Prios : sort_list[p]["read"] \cup sort_list[p]["write"] = {}
  BY DEF DeadlineInit, Dirs
<1>2. [p \in Prios |-> sort_list[p]["read"] \cup sort_list[p]["write"]] = [p \in Prios |-> {}]
  BY <1>1
<1>3. {r \in Requests : phase[r] = "dispatched"} = {}
  BY DEF DeadlineInit
<1> QED BY <1>2, <1>3 DEF DeadlineInit, Order!OrderInit, Order!Prios, Prios

(* Steps that hand nothing over and link nothing.                          *)
LEMMA OrderStutter ==
  ASSUME UNCHANGED <<sort_list, dispatch, fifo_time, jiffies>>,
         \A r \in Requests : phase'[r] = "dispatched" <=> phase[r] = "dispatched"
  PROVE  UNCHANGED Order!orderVars
<1>1. served' = served
  BY DEF served
<1> QED BY <1>1 DEF Order!orderVars, served

LEMMA FinishReleases ==
  ASSUME ListInv, NEW r \in Requests, NEW to \in {"idle", "requeued"},
         phase' = [phase EXCEPT ![r] = to], UNCHANGED <<listVars, jiffies>>
  PROVE  Order!Release(r)
<1>1. phase \in [Requests -> Phases]
  BY DEF ListInv, DeadlineTypeOK
<1>2. served' = served \ {r}
  BY <1>1 DEF served
<1> QED BY <1>2 DEF Order!Release, served, listVars

LEMMA InsertArrives ==
  ASSUME ListInv, NEW r \in Requests, NEW fg \in BOOLEAN, Insert(r, fg)
  PROVE  \E p \in Prios : Order!Arrive(r, p) \/ Order!Return(r, p)
<1>1. PICK p \in Prios : p = SelectQueue(r, fg)
  BY SelectQueueType DEF ListInv
<1>2. /\ phase[r] \in {"new", "requeued"} /\ Classify(r, p)
      /\ phase' = [phase EXCEPT ![r] = "queued"]
      /\ LinkAtHead(r, p) \/ LinkByArrival(r, p)
  BY <1>1 DEF Insert
<1>3. /\ phase \in [Requests -> Phases] /\ dir[r] \in Dirs
      /\ sort_list \in [Prios -> [Dirs -> SUBSET Requests]]
  BY DEF ListInv, DeadlineTypeOK
<1>4. served' = served
  BY <1>2, <1>3 DEF served
<1>5. \A q \in Prios : r \notin waiting[q]
  BY <1>2, Unlinked, WaitingIs
<1>6. UNCHANGED jiffies
  BY <1>2 DEF Classify
<1>7. ASSUME LinkAtHead(r, p) PROVE Order!Return(r, p)
  <2>1. /\ dispatch' = [dispatch EXCEPT ![p] = <<r>> \o dispatch[p]]
        /\ fifo_time' = [fifo_time EXCEPT ![r] = jiffies] /\ waiting' = waiting
    BY <1>7 DEF LinkAtHead, waiting
  <2>2. Order!Return(r, p)
    BY <1>4, <1>5, <1>6, <2>1 DEF Order!Return, Order!Prios, Prios, served, waiting
  <2> QED BY <2>2
<1>8. ASSUME LinkByArrival(r, p) PROVE Order!Arrive(r, p)
  <2>1. /\ sort_list' = [sort_list EXCEPT ![p][dir[r]] = sort_list[p][dir[r]] \cup {r}]
        /\ fifo_time' = [fifo_time EXCEPT ![r] = jiffies] /\ UNCHANGED dispatch
    BY <1>8 DEF LinkByArrival
  <2>2. ASSUME NEW q \in Prios
        PROVE  waiting'[q] = IF q = p THEN waiting[p] \cup {r} ELSE waiting[q]
    <3>1. waiting'[q] = sort_list'[q]["read"] \cup sort_list'[q]["write"]
      BY DEF waiting
    <3>2. CASE q # p
      BY <1>3, <2>1, <3>1, <3>2, WaitingIs DEF Dirs
    <3>3. CASE q = p
      <4>1. \A d \in Dirs : sort_list'[p][d] = IF d = dir[r] THEN sort_list[p][d] \cup {r}
                                                              ELSE sort_list[p][d]
        BY <1>1, <1>3, <2>1
      <4>2. sort_list'[p]["read"] \cup sort_list'[p]["write"]
              = sort_list[p]["read"] \cup sort_list[p]["write"] \cup {r}
        BY <1>3, <4>1 DEF Dirs
      <4> QED BY <1>1, <3>1, <3>3, <4>2, WaitingIs
    <3> QED BY <3>2, <3>3
  <2>3. waiting' = [waiting EXCEPT ![p] = waiting[p] \cup {r}]
    BY <2>2 DEF waiting
  <2>4. Order!Arrive(r, p)
    BY <1>4, <1>5, <1>6, <2>1, <2>3 DEF Order!Arrive, Order!Prios, Prios, served, waiting
  <2> QED BY <2>4
<1> QED BY <1>2, <1>7, <1>8

LEMMA MergeAbsorbs ==
  ASSUME ListInv, NEW req \in Requests, NEW next \in Requests, NEW p \in Prios,
         NEW fg \in BOOLEAN, MergedRequests(req, next, p, fg)
  PROVE  Order!Absorb(req, next, p)
<1> DEFINE e == dir[req]
<1>1. /\ req # next /\ {req, next} \subseteq sort_list[p][e]
      /\ InheritPlace(req, next)
      /\ sort_list' = [sort_list EXCEPT ![p][e] = sort_list[p][e] \ {next}]
      /\ phase' = [phase EXCEPT ![next] = "merged"]
      /\ UNCHANGED <<dispatch, jiffies>>
  BY DEF MergedRequests
<1>2. /\ e \in Dirs /\ phase \in [Requests -> Phases]
      /\ sort_list \in [Prios -> [Dirs -> SUBSET Requests]]
      /\ fifo_time \in [Requests -> 0 .. MaxJiffies]
  BY DEF ListInv, DeadlineTypeOK
<1>3. Inherits(req, next, p, dir[req])
  BY <1>1, <1>2, InheritList
<1>4. fifo_time' = [fifo_time EXCEPT
        ![req] = IF fifo_time[next] < fifo_time[req] THEN fifo_time[next]
                                                     ELSE fifo_time[req]]
  <2>1. /\ fifo_time' \in [Requests -> 0 .. MaxJiffies]
        /\ \A r \in Requests \ {req} : fifo_time'[r] = fifo_time[r]
        /\ fifo_time'[req] = IF fifo_time[next] < fifo_time[req]
                               THEN fifo_time[next] ELSE fifo_time[req]
    BY <1>3 DEF Inherits
  <2> DEFINE v == IF fifo_time[next] < fifo_time[req] THEN fifo_time[next] ELSE fifo_time[req]
  <2>2. fifo_time'[req] = v
    BY <2>1
  <2> HIDE DEF v
  <2>3. fifo_time' = [fifo_time EXCEPT ![req] = v]
    BY <1>2, <2>1, <2>2
  <2> QED BY <2>3 DEF v
<1> HIDE DEF e
<1>5. /\ phase[next] = "queued"
      /\ \A d \in Dirs : next \in sort_list[p][d] => d = e
  BY <1>1, <1>2, ListFacts
<1>6. served' = served
  BY <1>1, <1>2, <1>5 DEF served
<1>7. \A d \in Dirs : sort_list'[p][d] = sort_list[p][d] \ {next}
  BY <1>1, <1>2, <1>5
<1>8. waiting'[p] = waiting[p] \ {next}
  <2>1. waiting'[p] = sort_list'[p]["read"] \cup sort_list'[p]["write"]
    BY DEF waiting
  <2>2. sort_list'[p]["read"] \cup sort_list'[p]["write"]
          = (sort_list[p]["read"] \cup sort_list[p]["write"]) \ {next}
    BY <1>7 DEF Dirs
  <2> QED BY <2>1, <2>2, WaitingIs
<1>9. \A q \in Prios \ {p} : waiting'[q] = waiting[q]
  BY <1>1, <1>2 DEF waiting, Dirs
<1>10. waiting' = [waiting EXCEPT ![p] = waiting[p] \ {next}]
  BY <1>8, <1>9 DEF waiting
<1>11. {req, next} \subseteq waiting[p]
  BY <1>1, <1>2, WaitingIs
<1> QED BY <1>1, <1>4, <1>6, <1>10, <1>11 DEF Order!Absorb, served, waiting

LEMMA WaitsIs ==
  ASSUME ListInv, ~HasWork("HP")
  PROVE  ~Order!Waits("HP")
<1>1. "HP" \in Prios
  BY DEF Prios
<1>2. dispatch["HP"] = << >> /\ \A d \in Dirs : fifo["HP"][d] = << >>
  BY DEF HasWork
<1>3. \A d \in Dirs : sort_list["HP"][d] = {}
  BY <1>1, <1>2, ListFacts, ElementsOf
<1>4. waiting["HP"] = {}
  BY <1>1, <1>3, WaitingIs DEF Dirs
<1> QED BY <1>2, <1>4 DEF Order!Waits, waiting

LEMMA DispatchServes ==
  ASSUME ListInv, NEW p \in Prios, NEW rtOpen \in BOOLEAN, NEW beOpen \in BOOLEAN,
         Dispatch(p, rtOpen, beOpen)
  PROVE  Order!ServeUrgent(p) \/ \E r \in Requests : Order!ServeOldest(r, p)
<1> DEFINE r == First(p)
<1>1. /\ HasWork(p) /\ RemoveRequest(r, p)
      /\ p # "HP" => ~HasWork("HP")
      /\ phase' = [phase EXCEPT ![r] = "dispatched"]
      /\ UNCHANGED <<fifo_time, jiffies>>
  BY DEF Dispatch, Chosen
<1>2. /\ r \in Requests
      /\ dispatch[p] # << >> => (r = Head(dispatch[p]) /\ r \in ToSet(dispatch[p]))
      /\ dispatch[p] = << >> => \E d \in Dirs : r \in sort_list[p][d]
      /\ dispatch[p] = << >> => \A f \in Dirs : \A s \in sort_list[p][f] :
                                  fifo_time[r] <= fifo_time[s]
  BY <1>1, FirstIsNext
<1> HIDE DEF r
<1>3. p = "HP" \/ ~Order!Waits("HP")
  BY <1>1, WaitsIs
<1>4. /\ phase \in [Requests -> Phases] /\ dispatch \in [Prios -> Seq(Requests)]
      /\ dispatch' \in [Prios -> Seq(Requests)]
  BY <1>1, <1>2, RemoveTypes DEF ListInv, DeadlineTypeOK
<1>5. served' = served \cup {r}
  BY <1>1, <1>2, <1>4 DEF served
<1>6. \A q \in Prios, d \in Dirs : sort_list'[q][d] = sort_list[q][d] \ {r}
  BY <1>1 DEF RemoveRequest
<1>7. \A q \in Prios : waiting'[q] = waiting[q] \ {r}
  <2> SUFFICES ASSUME NEW q \in Prios PROVE waiting'[q] = waiting[q] \ {r}
    OBVIOUS
  <2>1. waiting'[q] = sort_list'[q]["read"] \cup sort_list'[q]["write"]
    BY DEF waiting
  <2>2. sort_list'[q]["read"] \cup sort_list'[q]["write"]
          = (sort_list[q]["read"] \cup sort_list[q]["write"]) \ {r}
    BY <1>6 DEF Dirs
  <2> QED BY <2>1, <2>2, WaitingIs
<1>8. CASE dispatch[p] # << >>
  <2>1. r = Head(dispatch[p]) /\ r \in ToSet(dispatch[p])
    BY <1>2, <1>8
  <2>2. \A q \in Prios : r \notin waiting[q] /\ (q # p => r \notin ToSet(dispatch[q]))
    <3> SUFFICES ASSUME NEW q \in Prios
                 PROVE  r \notin waiting[q] /\ (q # p => r \notin ToSet(dispatch[q]))
      OBVIOUS
    <3>1. home[r] = p
      BY <2>1, ListFacts
    <3>2. \A d \in Dirs : r \notin sort_list[q][d]
      BY <2>1, <3>1, ListFacts
    <3>3. q # p => r \notin ToSet(dispatch[q])
      BY <3>1, ListFacts
    <3> QED BY <3>2, <3>3, WaitingIs
  <2>3. waiting' = waiting
    BY <1>7, <2>2 DEF waiting
  <2>4. dispatch'[p] = Tail(dispatch[p])
    <3>1. dispatch'[p] = RemoveFirst(dispatch[p], r)
      BY <1>1 DEF RemoveRequest
    <3> QED BY <1>8, <2>1, <3>1, ListFacts, RemoveHead
  <2>5. \A q \in Prios \ {p} : dispatch'[q] = dispatch[q]
    BY <1>1, <1>2, <2>2, RemoveFromDispatch
  <2>6. dispatch' = [dispatch EXCEPT ![p] = Tail(dispatch[p])]
    BY <1>4, <2>4, <2>5
  <2>7. Order!ServeUrgent(p)
    BY <1>1, <1>3, <1>5, <1>8, <2>1, <2>3, <2>6 DEF Order!ServeUrgent, served, waiting
  <2> QED BY <2>7
<1>9. CASE dispatch[p] = << >>
  <2>1. PICK d \in Dirs : r \in sort_list[p][d]
    BY <1>2, <1>9
  <2>2. r \in waiting[p] /\ home[r] = p
    BY <2>1, WaitingIs, ListFacts
  <2>3. \A s \in waiting[p] : fifo_time[r] <= fifo_time[s]
    BY <1>2, <1>9, WaitingIs
  <2>4. \A q \in Prios \ {p} : r \notin waiting[q]
    BY <2>2, WaitingIs, ListFacts
  <2>5. waiting' = [waiting EXCEPT ![p] = waiting[p] \ {r}]
    <3>1. \A q \in Prios \ {p} : waiting'[q] = waiting[q]
      BY <1>7, <2>4
    <3>2. waiting'[p] = waiting[p] \ {r}
      BY <1>7
    <3> QED BY <3>1, <3>2 DEF waiting
  <2>6. \A q \in Prios : r \notin ToSet(dispatch[q])
    BY <2>1, <2>2, ListFacts
  <2>7. dispatch' = dispatch
    <3>1. \A q \in Prios : dispatch'[q] = dispatch[q]
      BY <1>1, <1>2, <2>6, RemoveFromDispatch
    <3> QED BY <1>4, <3>1
  <2>8. Order!ServeOldest(r, p)
    BY <1>1, <1>3, <1>5, <1>9, <2>2, <2>3, <2>5, <2>7
    DEF Order!ServeOldest, served, waiting
  <2> QED BY <1>2, <2>8
<1> QED BY <1>8, <1>9

LEMMA OrderStep ==
  ASSUME ListInv, [DeadlineNext]_deadlineVars, ~wrong_root'
  PROVE  [Order!OrderNext]_Order!orderVars
<1>1. phase \in [Requests -> Phases] /\ Order!Prios = Prios
  BY DEF ListInv, DeadlineTypeOK, Order!Prios, Prios
<1>2. ASSUME NEW r \in Requests, NEW d \in Dirs, NEW i \in Prios, Prepare(r, d, i)
      PROVE  UNCHANGED Order!orderVars
  BY <1>1, <1>2, OrderStutter DEF Prepare, listVars
<1>3. ASSUME NEW r \in Requests, NEW fg \in BOOLEAN, Insert(r, fg)
      PROVE  Order!OrderNext
  BY <1>1, <1>3, InsertArrives DEF Order!OrderNext
<1>4. ASSUME NEW r \in Requests, NEW fg \in BOOLEAN, RequestMerged(r, fg)
      PROVE  UNCHANGED Order!orderVars
  BY <1>4, RequestMergedKeepsTrees, OrderStutter DEF RequestMerged, requestVars
<1>5. ASSUME NEW r \in Requests, NEW t \in Requests, NEW fg \in BOOLEAN,
             InsertMerged(r, t, fg)
      PROVE  UNCHANGED Order!orderVars
  <2>1. /\ phase[r] = "new" /\ RemoveRequest(r, SelectQueue(r, fg))
        /\ phase' = [phase EXCEPT ![r] = "merged"] /\ UNCHANGED <<fifo_time, jiffies>>
    BY <1>5 DEF InsertMerged, Classify
  <2>2. SelectQueue(r, fg) \in Prios
    BY SelectQueueType DEF ListInv
  <2>3. UNCHANGED <<sort_list, dispatch>>
    BY <2>1, <2>2, RemoveUnlinked
  <2> QED BY <1>1, <2>1, <2>3, OrderStutter
<1>6. ASSUME NEW r \in Requests, NEW t \in Requests, NEW p \in Prios,
             NEW fg \in BOOLEAN, MergedRequests(r, t, p, fg)
      PROVE  Order!OrderNext
  BY <1>1, <1>6, MergeAbsorbs DEF Order!OrderNext
<1>7. ASSUME NEW r \in Requests, Issue(r)
      PROVE  UNCHANGED Order!orderVars
  BY <1>7, OrderStutter DEF Issue, listVars
<1>8. ASSUME NEW r \in Requests, Requeue(r) \/ Finish(r)
      PROVE  Order!OrderNext
  <2>1. Order!Release(r)
    BY <1>8, FinishReleases DEF Requeue, Finish
  <2>2. "HP" \in Order!Prios
    BY DEF Order!Prios
  <2> QED BY <2>1, <2>2 DEF Order!OrderNext
<1>9. ASSUME NEW p \in Prios, NEW rtOpen \in BOOLEAN, NEW beOpen \in BOOLEAN,
             Dispatch(p, rtOpen, beOpen)
      PROVE  Order!OrderNext
  BY <1>1, <1>9, DispatchServes DEF Order!OrderNext
<1>10. CASE Tick
  BY <1>10 DEF Tick, Order!OrderNext, Order!OrderTick, requestVars, listVars
<1>11. CASE UNCHANGED deadlineVars
  BY <1>11, OrderStutter DEF deadlineVars, requestVars, listVars
<1> QED BY <1>2, <1>3, <1>4, <1>5, <1>6, <1>7, <1>8, <1>9, <1>10, <1>11, StepIs

(* The two FIFOs per queue, of which dd_dispatch_fifo compares the heads,  *)
(* hand requests over in the order that ElevatorOrder states of all of     *)
(* them, whatever the answers of the gate, with a meta for every request.  *)
THEOREM ElevatorImplementsOrder ==
  ASSUME PoolCovers PROVE DeadlineSpec => ImplementsOrder
<1>1. ListInv /\ RootInv /\ [DeadlineNext]_deadlineVars => RightRoot'
  BY RootStep DEF RootInv
<1>2. ListInv /\ [DeadlineNext]_deadlineVars /\ RightRoot'
        => [Order!OrderNext]_Order!orderVars
  BY OrderStep DEF RightRoot
<1> QED BY <1>1, <1>2, OrderStart, RootsHold, PTL DEF DeadlineSpec, ImplementsOrder, Order!OrderSpec
=============================================================================
