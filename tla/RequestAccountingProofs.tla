----------------------- MODULE RequestAccountingProofs -----------------------
(***************************************************************************)
(* Proofs about RequestAccounting: its invariants hold for every set of    *)
(* requests and every pool that is large enough for it.                    *)
(*                                                                         *)
(* The inductive invariant AccountingInv has four parts that need each     *)
(* other.  That a counter is the size of a set of requests (CountersExact) *)
(* makes it positive when a request in that set gives its place back, and  *)
(* makes the pool non-empty when a request without a meta asks for one:    *)
(* hence no anomaly.  That no anomaly occurs keeps every handler on its    *)
(* ordinary path, where a request's places follow its phase                *)
(* (MetaMatchesPhase).  And the phase excludes that a handler takes a      *)
(* place twice, which keeps the counters exact.                            *)
(***************************************************************************)
EXTENDS RequestAccounting, FiniteSetTheorems, TLAPS

AccountingTypes ==
  /\ phase \in [Requests -> Phases]
  /\ use_sched \in [Requests -> BOOLEAN]
  /\ priv \in [Requests -> BOOLEAN]
  /\ meta \in [Requests -> Meta]
  /\ pending \in [Classes -> Nat]
  /\ anomaly \in BOOLEAN

AccountingInv ==
  /\ AccountingTypes
  /\ CountersExact
  /\ MetaMatchesPhase
  /\ NoAnomaly

-----------------------------------------------------------------------------
(* One handler changes the meta of one request.  The counters stay exact   *)
(* if each of them moves by what that meta gains or loses.                 *)

One(b) == IF b THEN 1 ELSE 0
Waits(m, c) == m.queued /\ m.class = c

MetaStep(r, m) == meta' = [meta EXCEPT ![r] = m]
CounterStep(r, m) ==
  /\ current_depth' = current_depth + One(m.depth) - One(meta[r].depth)
  /\ bg_current_depth' = bg_current_depth + One(m.bg) - One(meta[r].bg)
  /\ issued_depth' = issued_depth + One(m.issued) - One(meta[r].issued)
  /\ pending' = [c \in Classes |->
       pending[c] + One(Waits(m, c)) - One(Waits(meta[r], c))]
  /\ meta_inuse' = meta_inuse + One(m.held) - One(meta[r].held)

(* A member more or less in a finite set.                                  *)
LEMMA CardinalityStep ==
  ASSUME NEW S, NEW T, NEW r, NEW in \in BOOLEAN, IsFiniteSet(S),
         T = IF in THEN S \cup {r} ELSE S \ {r}
  PROVE  /\ Cardinality(S) \in Nat
         /\ Cardinality(T) = Cardinality(S) + One(in) - One(r \in S)
<1>1. Cardinality(S) \in Nat /\ (r \in S => Cardinality(S) # 0)
  BY FS_CardinalityType, FS_EmptySet
<1>2. Cardinality(S \cup {r}) = IF r \in S THEN Cardinality(S) ELSE Cardinality(S) + 1
  BY FS_AddElement
<1>3. Cardinality(S \ {r}) = IF r \in S THEN Cardinality(S) - 1 ELSE Cardinality(S)
  BY FS_RemoveElement
<1> QED
  BY <1>1, <1>2, <1>3 DEF One

(* Every counted set is finite, so its size is a number that is positive   *)
(* as soon as some request is in it.                                       *)
LEMMA CountedSets ==
  ASSUME meta \in [Requests -> Meta], NEW c
  PROVE  /\ IsFiniteSet(Reserved) /\ IsFiniteSet(BgReserved)
         /\ IsFiniteSet(InDevice) /\ IsFiniteSet(Held)
         /\ IsFiniteSet(Waiting(c))
BY AccountingAssumption, FS_Subset DEF Reserved, BgReserved, InDevice, Held, Waiting

LEMMA CounterStepExact ==
  ASSUME AccountingTypes, CountersExact,
         NEW r \in Requests, NEW m \in Meta, MetaStep(r, m), CounterStep(r, m)
  PROVE  CountersExact' /\ pending' \in [Classes -> Nat]
<1>1. /\ Reserved' = IF m.depth THEN Reserved \cup {r} ELSE Reserved \ {r}
      /\ (r \in Reserved) = meta[r].depth
  BY DEF AccountingTypes, MetaStep, Meta, Reserved
<1>2. /\ BgReserved' = IF m.bg THEN BgReserved \cup {r} ELSE BgReserved \ {r}
      /\ (r \in BgReserved) = meta[r].bg
  BY DEF AccountingTypes, MetaStep, Meta, BgReserved
<1>3. /\ InDevice' = IF m.issued THEN InDevice \cup {r} ELSE InDevice \ {r}
      /\ (r \in InDevice) = meta[r].issued
  BY DEF AccountingTypes, MetaStep, Meta, InDevice
<1>4. /\ Held' = IF m.held THEN Held \cup {r} ELSE Held \ {r}
      /\ (r \in Held) = meta[r].held
  BY DEF AccountingTypes, MetaStep, Meta, Held
<1>5. ASSUME NEW c \in Classes
      PROVE  /\ Waiting(c)' = IF Waits(m, c) THEN Waiting(c) \cup {r} ELSE Waiting(c) \ {r}
             /\ (r \in Waiting(c)) = Waits(meta[r], c)
             /\ Waits(m, c) \in BOOLEAN
  BY DEF AccountingTypes, MetaStep, Meta, Waiting, Waits
<1>6. /\ m.depth \in BOOLEAN /\ m.bg \in BOOLEAN
      /\ m.issued \in BOOLEAN /\ m.held \in BOOLEAN
  BY DEF Meta
<1>7. meta \in [Requests -> Meta]
  BY DEF AccountingTypes
<1>8. current_depth' = Cardinality(Reserved)'
  <2>1. IsFiniteSet(Reserved)
    BY <1>7, CountedSets
  <2>2. /\ Cardinality(Reserved) \in Nat
        /\ Cardinality(Reserved') = Cardinality(Reserved) + One(m.depth) - One(r \in Reserved)
    <3>1. m.depth \in BOOLEAN /\ Reserved' = IF m.depth THEN Reserved \cup {r} ELSE Reserved \ {r}
      BY <1>1, <1>6
    <3> QED BY <2>1, <3>1, CardinalityStep
  <2> QED BY <1>1, <2>2 DEF CounterStep, CountersExact
<1>9. bg_current_depth' = Cardinality(BgReserved)'
  <2>1. IsFiniteSet(BgReserved)
    BY <1>7, CountedSets
  <2>2. /\ Cardinality(BgReserved) \in Nat
        /\ Cardinality(BgReserved') = Cardinality(BgReserved) + One(m.bg) - One(r \in BgReserved)
    <3>1. m.bg \in BOOLEAN /\ BgReserved' = IF m.bg THEN BgReserved \cup {r} ELSE BgReserved \ {r}
      BY <1>2, <1>6
    <3> QED BY <2>1, <3>1, CardinalityStep
  <2> QED BY <1>2, <2>2 DEF CounterStep, CountersExact
<1>10. issued_depth' = Cardinality(InDevice)'
  <2>1. IsFiniteSet(InDevice)
    BY <1>7, CountedSets
  <2>2. /\ Cardinality(InDevice) \in Nat
        /\ Cardinality(InDevice') = Cardinality(InDevice) + One(m.issued) - One(r \in InDevice)
    <3>1. m.issued \in BOOLEAN /\ InDevice' = IF m.issued THEN InDevice \cup {r} ELSE InDevice \ {r}
      BY <1>3, <1>6
    <3> QED BY <2>1, <3>1, CardinalityStep
  <2> QED BY <1>3, <2>2 DEF CounterStep, CountersExact
<1>11. meta_inuse' = Cardinality(Held)'
  <2>1. IsFiniteSet(Held)
    BY <1>7, CountedSets
  <2>2. /\ Cardinality(Held) \in Nat
        /\ Cardinality(Held') = Cardinality(Held) + One(m.held) - One(r \in Held)
    <3>1. m.held \in BOOLEAN /\ Held' = IF m.held THEN Held \cup {r} ELSE Held \ {r}
      BY <1>4, <1>6
    <3> QED BY <2>1, <3>1, CardinalityStep
  <2> QED BY <1>4, <2>2 DEF CounterStep, CountersExact
<1>12. ASSUME NEW c \in Classes
       PROVE  pending'[c] = Cardinality(Waiting(c))' /\ pending'[c] \in Nat
  <2>1. IsFiniteSet(Waiting(c))
    BY <1>7, CountedSets
  <2>2. /\ Cardinality(Waiting(c)) \in Nat
        /\ Cardinality(Waiting(c)') = Cardinality(Waiting(c)) + One(Waits(m, c)) - One(r \in Waiting(c))
    BY <1>5, <2>1, CardinalityStep
  <2>3. IsFiniteSet(Waiting(c)')
    BY <1>5, <2>1, FS_AddElement, FS_RemoveElement
  <2>4. Cardinality(Waiting(c)') \in Nat
    BY <2>3, FS_CardinalityType
  <2>5. pending'[c] = pending[c] + One(Waits(m, c)) - One(Waits(meta[r], c))
    BY DEF CounterStep
  <2> QED
    BY <1>5, <2>2, <2>4, <2>5 DEF CountersExact
<1>13. pending' \in [Classes -> Nat]
  BY <1>12 DEF CounterStep
<1> QED
  BY <1>8, <1>9, <1>10, <1>11, <1>12, <1>13 DEF CountersExact

(* What the exact counters tell the handlers: a place that is held can be  *)
(* given back, and the pool has a meta for a request that has none.        *)
LEMMA CountersPositive ==
  ASSUME AccountingTypes, CountersExact, NEW r \in Requests
  PROVE  /\ current_depth \in Nat /\ bg_current_depth \in Nat
         /\ issued_depth \in Nat /\ meta_inuse \in Nat
         /\ \A c \in Classes : pending[c] \in Nat
         /\ meta[r].depth => current_depth # 0
         /\ meta[r].bg => bg_current_depth # 0
         /\ meta[r].issued => issued_depth # 0
         /\ meta[r].held => meta_inuse # 0
         /\ meta[r].queued => pending[meta[r].class] # 0
         /\ ~meta[r].held => CanAlloc
<1>1. meta \in [Requests -> Meta] /\ meta[r].class \in Classes
  BY DEF AccountingTypes, Meta
<1>2. /\ current_depth \in Nat /\ (meta[r].depth => current_depth # 0)
  BY <1>1, CountedSets, FS_CardinalityType, FS_EmptySet DEF CountersExact, Reserved
<1>3. /\ bg_current_depth \in Nat /\ (meta[r].bg => bg_current_depth # 0)
  BY <1>1, CountedSets, FS_CardinalityType, FS_EmptySet DEF CountersExact, BgReserved
<1>4. /\ issued_depth \in Nat /\ (meta[r].issued => issued_depth # 0)
  BY <1>1, CountedSets, FS_CardinalityType, FS_EmptySet DEF CountersExact, InDevice
<1>5. /\ meta_inuse \in Nat /\ (meta[r].held => meta_inuse # 0)
  BY <1>1, CountedSets, FS_CardinalityType, FS_EmptySet DEF CountersExact, Held
<1>6. /\ \A c \in Classes : pending[c] \in Nat
      /\ meta[r].queued => pending[meta[r].class] # 0
  <2>1. \A c \in Classes : pending[c] \in Nat
    BY DEF AccountingTypes
  <2>2. ASSUME meta[r].queued PROVE pending[meta[r].class] # 0
    <3>1. r \in Waiting(meta[r].class)
      BY <2>2 DEF Waiting
    <3>2. IsFiniteSet(Waiting(meta[r].class))
      BY <1>1, CountedSets
    <3>3. Cardinality(Waiting(meta[r].class)) # 0
      BY <3>1, <3>2, FS_EmptySet
    <3> QED BY <1>1, <3>3 DEF CountersExact
  <2> QED BY <2>1, <2>2
<1>7. ASSUME ~meta[r].held PROVE CanAlloc
  <2>1. /\ Held \subseteq Requests /\ Held # Requests
    BY <1>7 DEF Held
  <2>2. /\ IsFiniteSet(Held) /\ Cardinality(Held) <= Cardinality(Requests)
        /\ Cardinality(Held) = Cardinality(Requests) => Held = Requests
    BY <2>1, AccountingAssumption, FS_Subset
  <2>3. Cardinality(Held) \in Nat /\ Cardinality(Requests) \in Nat
    BY <2>2, AccountingAssumption, FS_CardinalityType
  <2> QED
    BY <2>1, <2>2, <2>3, AccountingAssumption DEF CanAlloc, CountersExact
<1> QED
  BY <1>2, <1>3, <1>4, <1>5, <1>6, <1>7

(* MetaMatchesPhase speaks of each request alone, and a handler moves one. *)
PlacesFit(m, p, sched, has_priv) ==
  /\ m.queued <=> p = "queued"
  /\ m.depth <=> p \in {"dispatched", "issued"}
  /\ m.issued <=> p = "issued"
  /\ m.bg <=> m.depth /\ m.queue_class # "HP"
  /\ has_priv <=> m.held /\ sched
  /\ p \in {"idle", "new", "ended"} => ~m.held
  /\ p \in {"queued", "merged", "dispatched", "issued"} => m.held
  /\ p \in {"queued", "merged"} => sched

LEMMA MatchesStep ==
  ASSUME AccountingTypes, MetaMatchesPhase, NEW r \in Requests, NEW m, NEW p,
         MetaStep(r, m), phase' = [phase EXCEPT ![r] = p],
         \A s \in Requests \ {r} : priv'[s] = priv[s] /\ use_sched'[s] = use_sched[s],
         PlacesFit(m, p, use_sched'[r], priv'[r])
  PROVE  MetaMatchesPhase'
<1>1. \A s \in Requests : PlacesFit(meta[s], phase[s], use_sched[s], priv[s])
  BY DEF MetaMatchesPhase, PlacesFit
<1>2. ASSUME NEW s \in Requests
      PROVE  PlacesFit(meta'[s], phase'[s], use_sched'[s], priv'[s])
  <2>1. /\ meta'[s] = IF s = r THEN m ELSE meta[s]
        /\ phase'[s] = IF s = r THEN p ELSE phase[s]
    BY DEF AccountingTypes, MetaStep
  <2> QED BY <1>1, <2>1
<1> QED BY <1>2 DEF MetaMatchesPhase, PlacesFit

-----------------------------------------------------------------------------
(* Leaving the waiting count, and giving reservations back.                *)
LEMMA PendingDecStep ==
  ASSUME AccountingTypes, CountersExact, NEW r \in Requests, NEW m \in Meta, ~m.queued
  PROVE  /\ ~PendingFails(meta[r])
         /\ PendingDec(meta[r]) = [c \in Classes |->
              pending[c] + One(Waits(m, c)) - One(Waits(meta[r], c))]
<1>1. /\ pending \in [Classes -> Nat]
      /\ meta[r].queued => pending[meta[r].class] # 0
      /\ meta[r].class \in Classes
  BY CountersPositive DEF AccountingTypes, Meta
<1>2. ~PendingFails(meta[r])
  BY <1>1 DEF PendingFails
<1>3. /\ PendingDec(meta[r]) \in [Classes -> Nat]
      /\ \A c \in Classes :
           PendingDec(meta[r])[c] = pending[c] - One(Waits(meta[r], c))
  BY <1>1 DEF PendingDec, Dec, One, Waits
<1>4. \A c \in Classes : One(Waits(m, c)) = 0
  BY DEF One, Waits
<1>5. \A c \in Classes : /\ pending[c] \in Nat
                          /\ One(Waits(meta[r], c)) \in {0, 1}
  BY <1>1 DEF One
<1>6. \A c \in Classes : PendingDec(meta[r])[c] =
                            pending[c] + One(Waits(m, c)) - One(Waits(meta[r], c))
  BY <1>3, <1>4, <1>5
<1> QED BY <1>2, <1>3, <1>6

LEMMA ReleaseStep ==
  ASSUME AccountingTypes, CountersExact, NEW r \in Requests, NEW m \in Meta,
         ~m.depth, ~m.bg, ~m.issued, meta[r].bg => meta[r].depth,
         ReleaseCounters(meta[r])
  PROVE  /\ ~ReleaseFails(meta[r])
         /\ current_depth' = current_depth + One(m.depth) - One(meta[r].depth)
         /\ bg_current_depth' = bg_current_depth + One(m.bg) - One(meta[r].bg)
         /\ issued_depth' = issued_depth + One(m.issued) - One(meta[r].issued)
         /\ Released(meta[r]) = [meta[r] EXCEPT !.depth = FALSE, !.bg = FALSE,
                                                !.issued = FALSE]
<1>1. /\ current_depth \in Nat /\ bg_current_depth \in Nat /\ issued_depth \in Nat
      /\ meta[r].depth => current_depth # 0
      /\ meta[r].bg => bg_current_depth # 0
      /\ meta[r].issued => issued_depth # 0
  BY CountersPositive
<1>2. meta[r] \in Meta
  BY DEF AccountingTypes
<1>3. ~ReleaseFails(meta[r])
  BY <1>1 DEF ReleaseFails, DepthFails, IssuedFails
<1>4. /\ current_depth' = current_depth + One(m.depth) - One(meta[r].depth)
      /\ issued_depth' = issued_depth + One(m.issued) - One(meta[r].issued)
  BY <1>1 DEF ReleaseCounters, Dec, One
<1>5. bg_current_depth' = bg_current_depth + One(m.bg) - One(meta[r].bg)
  BY <1>1 DEF ReleaseCounters, ReleasesBg, Dec, One
<1>6. ReleasesBg(meta[r]) = meta[r].bg
  BY <1>1, <1>2 DEF ReleasesBg, Meta
<1>7. Released(meta[r]) = [meta[r] EXCEPT !.depth = FALSE, !.bg = FALSE, !.issued = FALSE]
  BY <1>2, <1>6 DEF Released, Meta
<1> QED BY <1>3, <1>4, <1>5, <1>7

(* One lemma per handler.                                                  *)

LEMMA PrepareKeeps ==
  ASSUME AccountingInv, NEW r \in Requests, NEW sched \in BOOLEAN, Prepare(r, sched)
  PROVE  AccountingInv'
<1> USE DEF AccountingInv, Prepare, Moves, counters
<1>1. AccountingTypes'
  BY DEF AccountingTypes, Phases
<1>2. CountersExact'
  BY DEF CountersExact, Reserved, BgReserved, InDevice, Waiting, Held
<1>3. MetaMatchesPhase'
  BY DEF MetaMatchesPhase, AccountingTypes
<1>4. NoAnomaly'
  BY DEF NoAnomaly
<1> QED BY <1>1, <1>2, <1>3, <1>4

LEMMA ClassifyKeeps ==
  ASSUME AccountingInv, NEW r \in Requests, NEW q \in QueueClasses, ClassifyRequest(r, q)
  PROVE  AccountingInv'
<1> DEFINE old == IF priv[r] THEN meta[r]
                  ELSE [NewMeta(ClassForQueue(q)) EXCEPT !.queue_class = q]
           m == [old EXCEPT !.queued = TRUE]
<1>1. /\ AccountingTypes /\ CountersExact /\ MetaMatchesPhase /\ NoAnomaly
      /\ phase[r] \in {"new", "requeued"} /\ use_sched[r]
  BY DEF AccountingInv, ClassifyRequest, Moves
<1>2. /\ meta[r] \in Meta /\ ~meta[r].queued /\ ~meta[r].depth /\ ~meta[r].issued
      /\ ~meta[r].bg /\ priv[r] = meta[r].held
  BY <1>1 DEF AccountingTypes, MetaMatchesPhase, Meta
<1>3. ~priv[r] => CanAlloc
  BY <1>1, <1>2, CountersPositive
<1>4. /\ old \in Meta /\ old.held /\ ~old.queued /\ ~old.depth /\ ~old.bg /\ ~old.issued
      /\ m \in Meta /\ m.held /\ m.queued /\ ~m.depth /\ ~m.bg /\ ~m.issued
      /\ m.class = old.class
  BY <1>2 DEF NewMeta, FreeMeta, ClassForQueue, Meta, Classes, QueueClasses
<1>5. /\ meta' = [meta EXCEPT ![r] = m]
      /\ pending' = [pending EXCEPT ![old.class] = @ + 1]
      /\ priv' = [priv EXCEPT ![r] = TRUE]
      /\ meta_inuse' = IF priv[r] THEN meta_inuse ELSE meta_inuse + 1
      /\ UNCHANGED <<anomaly, use_sched, current_depth, bg_current_depth, issued_depth>>
      /\ phase' = [phase EXCEPT ![r] = "queued"]
  BY <1>3, <1>4 DEF ClassifyRequest, PendingInc, Moves
<1>6. MetaStep(r, m)
  BY <1>5 DEF MetaStep
<1>7. CounterStep(r, m)
  <2>1. pending' = [c \in Classes |->
          pending[c] + One(Waits(m, c)) - One(Waits(meta[r], c))]
    <3>1. pending \in [Classes -> Nat]
      BY <1>1 DEF AccountingTypes
    <3>0. old.class \in Classes
      BY <1>4 DEF Meta
    <3>a. /\ pending' \in [Classes -> Nat]
          /\ \A c \in Classes :
               pending'[c] = IF c = old.class THEN pending[c] + 1 ELSE pending[c]
      <4>1. pending' = [pending EXCEPT ![old.class] = @ + 1]
        BY <1>5
      <4> HIDE DEF old
      <4> QED BY <3>1, <3>0, <4>1
    <3>2. ASSUME NEW c \in Classes
          PROVE  pending'[c] = pending[c] + One(Waits(m, c)) - One(Waits(meta[r], c))
      BY <1>2, <1>4, <3>a, <3>1, <3>0 DEF One, Waits
    <3> QED BY <3>a, <3>2
  <2>2. /\ current_depth \in Nat /\ bg_current_depth \in Nat
        /\ issued_depth \in Nat /\ meta_inuse \in Nat
    BY <1>1, CountersPositive
  <2>3. /\ current_depth' = current_depth + One(m.depth) - One(meta[r].depth)
        /\ bg_current_depth' = bg_current_depth + One(m.bg) - One(meta[r].bg)
        /\ issued_depth' = issued_depth + One(m.issued) - One(meta[r].issued)
    BY <1>2, <1>4, <1>5, <2>2 DEF One
  <2>4. meta_inuse' = meta_inuse + One(m.held) - One(meta[r].held)
    BY <1>2, <1>4, <1>5, <2>2 DEF One
  <2> QED
    BY <2>1, <2>3, <2>4 DEF CounterStep
<1>8. CountersExact' /\ pending' \in [Classes -> Nat]
  BY <1>1, <1>4, <1>6, <1>7, CounterStepExact
<1>9. AccountingTypes'
  BY <1>1, <1>4, <1>5, <1>8 DEF AccountingTypes, Phases
<1>10. MetaMatchesPhase'
  BY <1>1, <1>2, <1>4, <1>5 DEF MetaMatchesPhase, AccountingTypes
<1> QED
  BY <1>1, <1>5, <1>8, <1>9, <1>10 DEF AccountingInv, NoAnomaly

LEMMA UnqueueKeeps ==
  ASSUME AccountingInv, NEW r \in Requests, UnqueueRequest(r)
  PROVE  AccountingInv'
<1> DEFINE m == [meta[r] EXCEPT !.queued = FALSE]
<1>1. /\ AccountingTypes /\ CountersExact /\ MetaMatchesPhase /\ NoAnomaly
      /\ phase[r] = "queued"
  BY DEF AccountingInv, UnqueueRequest, Moves
<1>2. /\ meta[r] \in Meta /\ meta[r].held /\ priv[r]
      /\ ~meta[r].depth /\ ~meta[r].bg /\ ~meta[r].issued
      /\ m \in Meta /\ ~m.queued /\ m.held /\ ~m.depth /\ ~m.bg /\ ~m.issued
  <2>1. meta[r] \in Meta
    BY <1>1 DEF AccountingTypes
  <2>2. /\ meta[r].held /\ priv[r]
        /\ ~meta[r].depth /\ ~meta[r].bg /\ ~meta[r].issued
    BY <1>1, <2>1 DEF MetaMatchesPhase, Meta
  <2>3. m \in Meta /\ ~m.queued /\ m.held /\ ~m.depth /\ ~m.bg /\ ~m.issued
    BY <2>1, <2>2 DEF Meta
  <2> QED BY <2>1, <2>2, <2>3
<1> HIDE DEF m
<1>3. /\ meta' = [meta EXCEPT ![r] = m]
      /\ pending' = PendingDec(meta[r])
      /\ anomaly' = (anomaly \/ PendingFails(meta[r]))
      /\ phase' = [phase EXCEPT ![r] = "merged"]
      /\ UNCHANGED <<use_sched, priv, current_depth, bg_current_depth,
                     issued_depth, meta_inuse>>
  BY <1>1, <1>2 DEF UnqueueRequest, Moves, AccountingTypes, m
<1>4. /\ ~PendingFails(meta[r])
      /\ pending' = [c \in Classes |->
           pending[c] + One(Waits(m, c)) - One(Waits(meta[r], c))]
  BY <1>1, <1>2, <1>3, PendingDecStep
<1>5. MetaStep(r, m) /\ CounterStep(r, m)
  <2>1. /\ current_depth \in Nat /\ bg_current_depth \in Nat
        /\ issued_depth \in Nat /\ meta_inuse \in Nat
    BY <1>1, CountersPositive
  <2> QED BY <1>2, <1>3, <1>4, <2>1 DEF MetaStep, CounterStep, One
<1>6. CountersExact' /\ pending' \in [Classes -> Nat]
  BY <1>1, <1>2, <1>5, CounterStepExact
<1>7. AccountingTypes'
  BY <1>1, <1>2, <1>3, <1>4, <1>6 DEF AccountingTypes, Phases
<1>8. MetaMatchesPhase'
  BY <1>1, <1>2, <1>3 DEF MetaMatchesPhase, AccountingTypes, m
<1> QED BY <1>1, <1>3, <1>4, <1>6, <1>7, <1>8 DEF AccountingInv, NoAnomaly

LEMMA AccountDispatchKeeps ==
  ASSUME AccountingInv, NEW r \in Requests, AccountDispatch(r)
  PROVE  AccountingInv'
<1> DEFINE old == [meta[r] EXCEPT !.queued = FALSE]
           m == Accounted(old)
<1>1. /\ AccountingTypes /\ CountersExact /\ MetaMatchesPhase /\ NoAnomaly
      /\ phase[r] = "queued"
  BY DEF AccountingInv, AccountDispatch, Moves
<1>2. /\ meta[r] \in Meta /\ meta[r].held /\ meta[r].queued /\ priv[r]
      /\ ~meta[r].depth /\ ~meta[r].bg /\ ~meta[r].issued
  BY <1>1 DEF AccountingTypes, MetaMatchesPhase, Meta
<1>3. /\ m \in Meta /\ m.held /\ ~m.queued /\ m.depth /\ ~m.issued
      /\ m.bg <=> (old.queue_class # "HP")
      /\ ~old.depth
      /\ m.queue_class = old.queue_class
  BY <1>2 DEF Accounted, Meta
<1>4. /\ meta' = [meta EXCEPT ![r] = m]
      /\ pending' = PendingDec(meta[r])
      /\ AccountDepth(old)
      /\ anomaly' = (anomaly \/ PendingFails(meta[r]))
      /\ phase' = [phase EXCEPT ![r] = "dispatched"]
      /\ UNCHANGED <<use_sched, priv, issued_depth, meta_inuse>>
  BY <1>1, <1>2 DEF AccountDispatch, DispatchFails, AccountFails, Moves
<1>5. /\ current_depth' = current_depth + 1
      /\ bg_current_depth' = IF m.bg THEN bg_current_depth + 1 ELSE bg_current_depth
  BY <1>3, <1>4 DEF AccountDepth
<1> HIDE DEF m, old
<1>6. /\ ~PendingFails(meta[r])
      /\ pending' = [c \in Classes |->
           pending[c] + One(Waits(m, c)) - One(Waits(meta[r], c))]
  BY <1>1, <1>3, <1>4, PendingDecStep
<1>7. MetaStep(r, m) /\ CounterStep(r, m)
  <2>1. /\ current_depth \in Nat /\ bg_current_depth \in Nat
        /\ issued_depth \in Nat /\ meta_inuse \in Nat
    BY <1>1, CountersPositive
  <2>2. /\ current_depth' = current_depth + One(m.depth) - One(meta[r].depth)
        /\ bg_current_depth' = bg_current_depth + One(m.bg) - One(meta[r].bg)
    BY <1>2, <1>3, <1>5, <2>1 DEF One
  <2>3. /\ issued_depth' = issued_depth + One(m.issued) - One(meta[r].issued)
        /\ meta_inuse' = meta_inuse + One(m.held) - One(meta[r].held)
    BY <1>2, <1>3, <1>4, <2>1 DEF One
  <2> QED BY <1>4, <1>6, <2>2, <2>3 DEF MetaStep, CounterStep
<1>8. CountersExact' /\ pending' \in [Classes -> Nat]
  BY <1>1, <1>3, <1>7, CounterStepExact
<1>9. AccountingTypes'
  BY <1>1, <1>3, <1>4, <1>6, <1>8 DEF AccountingTypes, Phases
<1>10. MetaMatchesPhase'
  <2>1. /\ m.queue_class = meta[r].queue_class
        /\ m.bg <=> (m.queue_class # "HP")
        /\ priv[r] <=> (meta[r].held /\ use_sched[r])
    BY <1>1, <1>2, <1>3 DEF old, MetaMatchesPhase, Meta
  <2>2. PlacesFit(m, "dispatched", use_sched[r], priv[r])
    BY <1>2, <1>3, <2>1 DEF PlacesFit
  <2> QED BY <1>1, <1>4, <2>2, MatchesStep DEF MetaStep
<1> QED BY <1>1, <1>4, <1>6, <1>8, <1>9, <1>10 DEF AccountingInv, NoAnomaly

LEMMA RecordIssueKeeps ==
  ASSUME AccountingInv, NEW r \in Requests, NEW q \in QueueClasses, RecordIssue(r, q)
  PROVE  AccountingInv'
<1> DEFINE old == IF meta[r].held THEN meta[r] ELSE NewMeta(ClassForQueue(q))
           m == [Accounted(old) EXCEPT !.issued = TRUE]
<1>1. /\ AccountingTypes /\ CountersExact /\ MetaMatchesPhase /\ NoAnomaly
      /\ phase[r] \in {"new", "dispatched", "requeued"}
  BY DEF AccountingInv, RecordIssue, Moves
<1>2. /\ meta[r] \in Meta /\ ~meta[r].queued /\ ~meta[r].issued
      /\ meta[r].depth <=> (phase[r] = "dispatched")
      /\ meta[r].bg <=> (meta[r].depth /\ meta[r].queue_class # "HP")
      /\ meta[r].depth => meta[r].held
      /\ priv[r] <=> (meta[r].held /\ use_sched[r])
  BY <1>1 DEF AccountingTypes, MetaMatchesPhase, Meta
<1>3. ~meta[r].held => CanAlloc
  BY <1>1, <1>2, CountersPositive
<1>4. /\ old \in Meta /\ old.held /\ ~old.queued /\ ~old.issued
      /\ old.depth = meta[r].depth /\ old.bg = meta[r].bg
      /\ old.bg <=> (old.depth /\ old.queue_class # "HP")
  BY <1>2 DEF NewMeta, FreeMeta, ClassForQueue, Meta, Classes, QueueClasses
<1>5. /\ meta' = [meta EXCEPT ![r] = m]
      /\ AccountDepth(old)
      /\ issued_depth' = IF old.issued THEN issued_depth ELSE issued_depth + 1
      /\ meta_inuse' = IF meta[r].held THEN meta_inuse ELSE meta_inuse + 1
      /\ priv' = IF meta[r].held THEN priv ELSE [priv EXCEPT ![r] = use_sched[r]]
      /\ phase' = [phase EXCEPT ![r] = "issued"]
      /\ UNCHANGED <<anomaly, use_sched, pending>>
  BY <1>3 DEF RecordIssue, Moves
<1>6. /\ m \in Meta /\ m.held /\ ~m.queued /\ m.depth /\ m.issued
      /\ m.bg <=> (m.queue_class # "HP")
      /\ m.queue_class = old.queue_class
  BY <1>4 DEF Accounted, Meta
<1> HIDE DEF m, old
<1>7. MetaStep(r, m) /\ CounterStep(r, m)
  <2>1. /\ current_depth \in Nat /\ bg_current_depth \in Nat
        /\ issued_depth \in Nat /\ meta_inuse \in Nat
        /\ pending \in [Classes -> Nat]
    BY <1>1, CountersPositive DEF AccountingTypes
  <2>2. /\ current_depth' = current_depth + One(m.depth) - One(meta[r].depth)
        /\ bg_current_depth' = bg_current_depth + One(m.bg) - One(meta[r].bg)
    <3>1. /\ current_depth' = IF old.depth THEN current_depth ELSE current_depth + 1
          /\ bg_current_depth' = IF old.depth \/ old.queue_class = "HP"
                                   THEN bg_current_depth ELSE bg_current_depth + 1
      BY <1>5 DEF AccountDepth
    <3>2. One(m.depth) = 1 /\ One(meta[r].depth) = IF old.depth THEN 1 ELSE 0
      BY <1>4, <1>6 DEF One
    <3>3. /\ One(m.bg) = IF old.queue_class # "HP" THEN 1 ELSE 0
          /\ One(meta[r].bg) = IF old.depth /\ old.queue_class # "HP" THEN 1 ELSE 0
      BY <1>4, <1>6 DEF One
    <3> QED BY <2>1, <3>1, <3>2, <3>3
  <2>3. /\ issued_depth' = issued_depth + One(m.issued) - One(meta[r].issued)
        /\ meta_inuse' = meta_inuse + One(m.held) - One(meta[r].held)
    BY <1>2, <1>4, <1>5, <1>6, <2>1 DEF One
  <2>4. pending' = [c \in Classes |->
          pending[c] + One(Waits(m, c)) - One(Waits(meta[r], c))]
    BY <1>2, <1>5, <1>6, <2>1 DEF One, Waits
  <2> QED BY <1>5, <2>2, <2>3, <2>4 DEF MetaStep, CounterStep
<1>8. CountersExact' /\ pending' \in [Classes -> Nat]
  BY <1>1, <1>6, <1>7, CounterStepExact
<1>9. AccountingTypes'
  BY <1>1, <1>5, <1>6, <1>8 DEF AccountingTypes, Phases
<1>10. MetaMatchesPhase'
  <2>1. priv'[r] = use_sched[r] /\ \A s \in Requests \ {r} : priv'[s] = priv[s]
    BY <1>1, <1>2, <1>5 DEF AccountingTypes
  <2>2. PlacesFit(m, "issued", use_sched[r], use_sched[r])
    BY <1>6 DEF PlacesFit
  <2>3. use_sched' = use_sched
    BY <1>5
  <2> QED BY <1>1, <1>5, <2>1, <2>2, <2>3, MatchesStep DEF MetaStep
<1> QED BY <1>1, <1>5, <1>8, <1>9, <1>10 DEF AccountingInv, NoAnomaly

LEMMA RecordRequeueKeeps ==
  ASSUME AccountingInv, NEW r \in Requests, RecordRequeue(r)
  PROVE  AccountingInv'
<1> DEFINE m == [meta[r] EXCEPT !.depth = FALSE, !.bg = FALSE, !.issued = FALSE]
<1>1. /\ AccountingTypes /\ CountersExact /\ MetaMatchesPhase /\ NoAnomaly
      /\ phase[r] \in {"new", "dispatched", "issued"}
      /\ phase' = [phase EXCEPT ![r] = "requeued"]
      /\ UNCHANGED <<use_sched, priv, pending, meta_inuse>>
  BY DEF AccountingInv, RecordRequeue, Moves
<1>2. /\ meta[r] \in Meta /\ ~meta[r].queued
      /\ meta[r].bg => meta[r].depth
      /\ ~meta[r].held => ~meta[r].depth /\ ~meta[r].issued
  BY <1>1 DEF AccountingTypes, MetaMatchesPhase
<1>m. /\ m \in Meta /\ ~m.queued /\ ~m.depth /\ ~m.bg /\ ~m.issued
      /\ m.held = meta[r].held /\ m.queue_class = meta[r].queue_class
  BY <1>2 DEF Meta
<1> HIDE DEF m
<1>3. CASE meta[r].held
  <2>1. /\ ReleaseCounters(meta[r])
        /\ anomaly' = (anomaly \/ ReleaseFails(meta[r]))
        /\ meta' = [meta EXCEPT ![r] = Released(meta[r])]
    BY <1>3 DEF RecordRequeue
  <2>2. /\ ~ReleaseFails(meta[r])
        /\ current_depth' = current_depth + One(m.depth) - One(meta[r].depth)
        /\ bg_current_depth' = bg_current_depth + One(m.bg) - One(meta[r].bg)
        /\ issued_depth' = issued_depth + One(m.issued) - One(meta[r].issued)
        /\ Released(meta[r]) = m
    BY <1>1, <1>2, <1>m, <2>1, ReleaseStep DEF m
  <2>3. MetaStep(r, m) /\ CounterStep(r, m)
    <3>1. meta_inuse \in Nat /\ pending \in [Classes -> Nat]
      BY <1>1, CountersPositive DEF AccountingTypes
    <3>2. pending' = [c \in Classes |->
            pending[c] + One(Waits(m, c)) - One(Waits(meta[r], c))]
      BY <1>1, <1>2, <1>m, <3>1 DEF One, Waits
    <3>3. meta_inuse' = meta_inuse + One(m.held) - One(meta[r].held)
      BY <1>1, <1>2, <1>m, <3>1 DEF One
    <3> QED BY <2>1, <2>2, <3>2, <3>3 DEF MetaStep, CounterStep
  <2>4. CountersExact' /\ pending' \in [Classes -> Nat]
    BY <1>1, <1>2, <1>m, <2>3, CounterStepExact
  <2>5. AccountingTypes'
    BY <1>1, <1>2, <1>m, <2>1, <2>2, <2>4 DEF AccountingTypes, Phases
  <2>6. MetaMatchesPhase'
    BY <1>1, <1>2, <1>m, <1>3, <2>1, <2>2 DEF MetaMatchesPhase, AccountingTypes
  <2> QED BY <1>1, <2>1, <2>2, <2>4, <2>5, <2>6 DEF AccountingInv, NoAnomaly
<1>4. CASE ~meta[r].held
  <2>1. UNCHANGED <<meta, current_depth, bg_current_depth, issued_depth, anomaly>>
    BY <1>4 DEF RecordRequeue
  <2>2. AccountingTypes' /\ NoAnomaly'
    BY <1>1, <2>1 DEF AccountingTypes, NoAnomaly, Phases
  <2>3. CountersExact'
    BY <1>1, <2>1 DEF CountersExact, Reserved, BgReserved, InDevice, Waiting, Held
  <2>4. MetaMatchesPhase'
    BY <1>1, <1>2, <1>m, <1>4, <2>1 DEF MetaMatchesPhase, AccountingTypes
  <2> QED BY <2>2, <2>3, <2>4 DEF AccountingInv
<1> QED BY <1>3, <1>4

(* Both ways a request ends give everything back at once.                  *)
LEMMA ReleaseAndFreeKeeps ==
  ASSUME AccountingInv, NEW r \in Requests, NEW p \in {"ended", "idle"},
         phase' = [phase EXCEPT ![r] = p], UNCHANGED use_sched,
         meta[r].held, ReleaseAndFree(r)
  PROVE  AccountingInv'
<1>1. /\ AccountingTypes /\ CountersExact /\ MetaMatchesPhase /\ NoAnomaly
      /\ FreeMeta \in Meta
      /\ meta[r].bg => meta[r].depth
  BY DEF AccountingInv, FreeMeta, Meta, Classes, QueueClasses, MetaMatchesPhase
<1>2. /\ ~FreeMeta.queued /\ ~FreeMeta.depth /\ ~FreeMeta.bg
      /\ ~FreeMeta.issued /\ ~FreeMeta.held
  BY DEF FreeMeta
<1>3. meta_inuse \in Nat /\ meta_inuse # 0
  BY <1>1, CountersPositive
<1>4. /\ ReleaseCounters(meta[r])
      /\ anomaly' = (anomaly \/ ReleaseFails(meta[r]) \/ FreeFails(meta[r]))
      /\ meta' = [meta EXCEPT ![r] = FreeMeta]
      /\ pending' = PendingDec(meta[r])
      /\ priv' = [priv EXCEPT ![r] = FALSE]
      /\ meta_inuse' = meta_inuse - 1
  BY <1>3 DEF ReleaseAndFree
<1>5. /\ ~PendingFails(meta[r])
      /\ pending' = [c \in Classes |->
           pending[c] + One(Waits(FreeMeta, c)) - One(Waits(meta[r], c))]
  BY <1>1, <1>2, <1>4, PendingDecStep
<1>6. /\ ~ReleaseFails(meta[r])
      /\ current_depth' = current_depth + One(FreeMeta.depth) - One(meta[r].depth)
      /\ bg_current_depth' = bg_current_depth + One(FreeMeta.bg) - One(meta[r].bg)
      /\ issued_depth' = issued_depth + One(FreeMeta.issued) - One(meta[r].issued)
  BY <1>1, <1>2, <1>4, ReleaseStep
<1>7. meta_inuse' = meta_inuse + One(FreeMeta.held) - One(meta[r].held)
  BY <1>2, <1>3, <1>4 DEF One
<1>8. CountersExact' /\ pending' \in [Classes -> Nat]
  BY <1>1, <1>4, <1>5, <1>6, <1>7, CounterStepExact DEF MetaStep, CounterStep
<1>9. NoAnomaly'
  BY <1>1, <1>3, <1>4, <1>5, <1>6 DEF NoAnomaly, FreeFails
<1>10. AccountingTypes'
  BY <1>1, <1>4, <1>8, <1>9 DEF AccountingTypes, Phases, NoAnomaly
<1>11. MetaMatchesPhase'
  <2>1. priv'[r] = FALSE /\ \A s \in Requests \ {r} : priv'[s] = priv[s]
    BY <1>1, <1>4 DEF AccountingTypes
  <2>2. PlacesFit(FreeMeta, p, use_sched[r], FALSE)
    BY <1>2 DEF PlacesFit
  <2> QED BY <1>1, <1>4, <2>1, <2>2, MatchesStep DEF MetaStep
<1> QED BY <1>1, <1>8, <1>9, <1>10, <1>11 DEF AccountingInv

(* A request that holds nothing may move between phases that hold nothing. *)
LEMMA NothingHeldKeeps ==
  ASSUME AccountingInv, NEW r \in Requests, NEW p \in {"ended", "idle"},
         phase' = [phase EXCEPT ![r] = p], ~meta[r].held,
         UNCHANGED <<use_sched, priv, meta, counters>>
  PROVE  AccountingInv'
<1>1. /\ AccountingTypes /\ CountersExact /\ MetaMatchesPhase /\ NoAnomaly
      /\ UNCHANGED <<use_sched, priv, meta, current_depth, bg_current_depth,
                     issued_depth, pending, meta_inuse, anomaly>>
  BY DEF AccountingInv, counters
<1>2. CountersExact'
  BY <1>1 DEF CountersExact, Reserved, BgReserved, InDevice, Waiting, Held
<1>3. AccountingTypes' /\ NoAnomaly'
  BY <1>1 DEF AccountingTypes, Phases, NoAnomaly
<1>4. MetaMatchesPhase'
  <2>1. /\ ~meta[r].queued /\ ~meta[r].depth /\ ~meta[r].issued /\ ~meta[r].bg
        /\ ~priv[r]
    BY <1>1 DEF MetaMatchesPhase
  <2>2. PlacesFit(meta[r], p, use_sched[r], priv[r])
    BY <2>1 DEF PlacesFit
  <2>3. meta' = [meta EXCEPT ![r] = meta[r]]
    BY <1>1 DEF AccountingTypes
  <2> QED BY <1>1, <2>2, <2>3, MatchesStep DEF MetaStep
<1> QED BY <1>2, <1>3, <1>4 DEF AccountingInv

LEMMA RecordFinalCompleteKeeps ==
  ASSUME AccountingInv, NEW r \in Requests, RecordFinalComplete(r)
  PROVE  AccountingInv'
<1>1. phase' = [phase EXCEPT ![r] = "ended"] /\ UNCHANGED use_sched
  BY DEF RecordFinalComplete, Moves
<1>2. CASE meta[r].held
  BY <1>1, <1>2, ReleaseAndFreeKeeps DEF RecordFinalComplete
<1>3. CASE ~meta[r].held
  BY <1>1, <1>3, NothingHeldKeeps DEF RecordFinalComplete
<1> QED BY <1>2, <1>3

LEMMA FinishKeeps ==
  ASSUME AccountingInv, NEW r \in Requests, FinishRequest(r)
  PROVE  AccountingInv'
<1>1. /\ phase[r] \in {"new", "merged", "ended"}
      /\ phase' = [phase EXCEPT ![r] = "idle"] /\ UNCHANGED use_sched
  BY DEF FinishRequest, Moves
<1>2. meta[r].held <=> use_sched[r] /\ priv[r]
  BY <1>1 DEF AccountingInv, MetaMatchesPhase
<1>3. CASE meta[r].held
  BY <1>1, <1>2, <1>3, ReleaseAndFreeKeeps DEF FinishRequest
<1>4. CASE ~meta[r].held
  BY <1>1, <1>2, <1>4, NothingHeldKeeps DEF FinishRequest
<1> QED BY <1>3, <1>4

-----------------------------------------------------------------------------
(* The inductive invariant.                                                *)

LEMMA AccountingInitInv ==
  ASSUME AccountingInit
  PROVE  AccountingInv
<1>1. AccountingTypes /\ NoAnomaly
  BY DEF AccountingInit, AccountingTypes, NoAnomaly, Phases, NoPending, Classes,
         FreeMeta, Meta, QueueClasses
<1>2. CountersExact
  <2>1. /\ Reserved = {} /\ BgReserved = {} /\ InDevice = {} /\ Held = {}
        /\ \A c \in Classes : Waiting(c) = {}
    BY DEF AccountingInit, FreeMeta, Reserved, BgReserved, InDevice, Held, Waiting
  <2> QED BY <2>1, FS_EmptySet DEF AccountingInit, NoPending, CountersExact
<1>3. MetaMatchesPhase
  BY DEF AccountingInit, FreeMeta, MetaMatchesPhase
<1> QED BY <1>1, <1>2, <1>3 DEF AccountingInv

LEMMA AccountingStepInv ==
  ASSUME AccountingInv, [AccountingNext]_accountingVars
  PROVE  AccountingInv'
<1>1. CASE AccountingNext
  <2>1. PICK r \in Requests :
          \/ \E sched \in BOOLEAN : Prepare(r, sched)
          \/ \E q \in QueueClasses : ClassifyRequest(r, q) \/ RecordIssue(r, q)
          \/ UnqueueRequest(r)
          \/ AccountDispatch(r)
          \/ RecordRequeue(r)
          \/ RecordFinalComplete(r)
          \/ FinishRequest(r)
    BY <1>1 DEF AccountingNext
  <2> QED BY <2>1, PrepareKeeps, ClassifyKeeps, RecordIssueKeeps, UnqueueKeeps,
             AccountDispatchKeeps, RecordRequeueKeeps, RecordFinalCompleteKeeps,
             FinishKeeps
<1>2. CASE UNCHANGED accountingVars
  BY <1>2 DEF accountingVars, blockVars, counters, AccountingInv, AccountingTypes,
              CountersExact, MetaMatchesPhase, NoAnomaly,
              Reserved, BgReserved, InDevice, Waiting, Held
<1> QED BY <1>1, <1>2

LEMMA AccountingInvHolds == AccountingSpec => []AccountingInv
<1>1. AccountingInit => AccountingInv
  BY AccountingInitInv
<1>2. AccountingInv /\ [AccountingNext]_accountingVars => AccountingInv'
  BY AccountingStepInv
<1> QED BY <1>1, <1>2, PTL DEF AccountingSpec

(* A counter is the size of a set of requests, so it never exceeds the     *)
(* number of requests.                                                     *)
LEMMA AccountingInvTypeOK ==
  ASSUME AccountingInv
  PROVE  AccountingTypeOK
<1> DEFINE Count == 0 .. Cardinality(Requests)
<1>1. AccountingTypes /\ CountersExact
  BY DEF AccountingInv
<1>2. ASSUME NEW S \in SUBSET Requests
      PROVE  Cardinality(S) \in Count
  <2>1. IsFiniteSet(S) /\ Cardinality(S) <= Cardinality(Requests)
    BY AccountingAssumption, FS_Subset
  <2>2. Cardinality(S) \in Nat /\ Cardinality(Requests) \in Nat
    BY <2>1, AccountingAssumption, FS_CardinalityType
  <2> QED BY <2>1, <2>2
<1>3. /\ current_depth \in Count /\ bg_current_depth \in Count
      /\ issued_depth \in Count /\ meta_inuse \in Count
  BY <1>1, <1>2 DEF CountersExact, Reserved, BgReserved, InDevice, Held
<1>4. pending \in [Classes -> Count]
  <2>1. \A c \in Classes : pending[c] \in Count
    BY <1>1, <1>2 DEF CountersExact, Waiting
  <2> QED BY <1>1, <2>1 DEF AccountingTypes
<1> QED BY <1>1, <1>3, <1>4 DEF AccountingTypes, AccountingTypeOK

LEMMA AccountingInvExitClean ==
  ASSUME AccountingInv
  PROVE  ExitClean
<1> SUFFICES ASSUME \A r \in Requests : phase[r] = "idle"
             PROVE  /\ current_depth = 0 /\ bg_current_depth = 0 /\ issued_depth = 0
                    /\ pending = NoPending
                    /\ meta_inuse = 0
  BY DEF ExitClean
<1>1. AccountingTypes /\ CountersExact /\ MetaMatchesPhase
  BY DEF AccountingInv
<1>2. /\ Reserved = {} /\ BgReserved = {} /\ InDevice = {} /\ Held = {}
      /\ \A c \in Classes : Waiting(c) = {}
  BY <1>1 DEF MetaMatchesPhase, Reserved, BgReserved, InDevice, Held, Waiting
<1>3. \A c \in Classes : pending[c] = 0
  BY <1>1, <1>2, FS_EmptySet DEF CountersExact
<1>4. pending = NoPending
  BY <1>1, <1>3 DEF AccountingTypes, NoPending
<1> QED BY <1>1, <1>2, <1>4, FS_EmptySet DEF CountersExact

-----------------------------------------------------------------------------
(* The theorems.                                                           *)

(* Type correctness of the accounting; in particular no counter of the     *)
(* context ever exceeds the number of requests of the queue.               *)
THEOREM AccountingTypeCorrect == AccountingSpec => []AccountingTypeOK
BY AccountingInvHolds, AccountingInvTypeOK, PTL

(* current_depth, bg_current_depth, issued_depth, pending_fg, pending_bg   *)
(* and meta_inuse always are the numbers of requests holding such a place. *)
THEOREM AccountingCountersExact == AccountingSpec => []CountersExact
<1>1. AccountingInv => CountersExact
  BY DEF AccountingInv
<1> QED BY <1>1, AccountingInvHolds, PTL

(* What each request holds is what its phase in the block layer calls for. *)
THEOREM AccountingMetaMatches == AccountingSpec => []MetaMatchesPhase
<1>1. AccountingInv => MetaMatchesPhase
  BY DEF AccountingInv
<1> QED BY <1>1, AccountingInvHolds, PTL

(* depth_anomalies stays 0: no underflow, no double reservation, and with  *)
(* a pool as large as the tag sets no failed allocation.                   *)
THEOREM AccountingNoAnomaly == AccountingSpec => []NoAnomaly
<1>1. AccountingInv => NoAnomaly
  BY DEF AccountingInv
<1> QED BY <1>1, AccountingInvHolds, PTL

(* The WARN_ONs of queue_exit never fire once all requests are returned.   *)
THEOREM AccountingExitClean == AccountingSpec => []ExitClean
BY AccountingInvHolds, AccountingInvExitClean, PTL

(* Types, phases and the clean exit together, as the runs check them.      *)
THEOREM AccountingMetaConsistent == AccountingSpec => []MetaConsistent
<1>1. AccountingInv => MetaConsistent
  BY AccountingInvTypeOK, AccountingInvExitClean DEF AccountingInv, MetaConsistent
<1> QED BY <1>1, AccountingInvHolds, PTL
=============================================================================
