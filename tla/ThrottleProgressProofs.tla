------------------------ MODULE ThrottleProgressProofs ------------------------
(***************************************************************************)
(* More proofs about Throttle, for every value of its constants:           *)
(*   1. the feedback sample and the type invariant: FeedbackMatchesRequest *)
(*      and TypeOK;                                                        *)
(*   2. the invariants that progress rests on: PendingHasResolver and      *)
(*      NoLostWakeup.                                                      *)
(***************************************************************************)
EXTENDS ThrottleProofs

-----------------------------------------------------------------------------
(***************************************************************************)
(* The feedback sample of Throttle and the type invariant, for every value *)
(* of its constants: feedback_meta names a live request that was           *)
(* dispatched under the decision in force, or nothing, and no counter      *)
(* exceeds its array.                                                      *)
(*                                                                         *)
(* The binding is made at dispatch, moves on at issue and must be undone   *)
(* by whichever handler takes the request or the decision away.  Every     *)
(* step but those two is Steady: it keeps the binding as it is or undoes   *)
(* it.  That the request's meta is still held then follows from its phase  *)
(* and from what the accounting says of that phase.                        *)
(*                                                                         *)
(* Of the types, the bounds of the counters need an argument.  No vote     *)
(* exceeds FeedbackMax because only a bound sample votes and none is bound *)
(* at the limit (SampleInv); and no more completions are inside            *)
(* schedule_inference than decisions were started (ScheduleInv).           *)
(***************************************************************************)

(* FeedbackMatchesRequest without the meta, of a control record c and the  *)
(* block layer's phases ph.                                                *)
Sample(c, ph) ==
  /\ c.bound # None <=> c.feedback \in {"issue", "complete"}
  /\ c.bound # None =>
       /\ c.active /\ c.valid /\ ~c.pending
       /\ c.bound_to = c.applied
       /\ c.votes < FeedbackMax
       /\ ph[c.bound] = IF c.feedback = "issue" THEN "dispatched" ELSE "issued"

Loose(c) == c.bound = None /\ c.feedback \in {"none", "dispatch"}
SameSample(c, d) ==
  /\ d.bound = c.bound /\ d.feedback = c.feedback
  /\ d.bound_to = c.bound_to /\ d.applied = c.applied /\ d.votes = c.votes
  /\ d.active = c.active /\ d.valid = c.valid /\ d.pending = c.pending
Steady(c, d) == Loose(d) \/ SameSample(c, d)

LEMMA SteadyRefl == \A c : Steady(c, c)
BY DEF Steady, SameSample

LEMMA SteadyTrans ==
  ASSUME NEW c, NEW d, NEW e, Steady(c, d), Steady(d, e)
  PROVE  Steady(c, e)
BY DEF Steady, SameSample, Loose

LEMMA SteadyFallback == \A c, d : Steady(c, Fallback(d))
BY DEF Steady, Loose, Fallback, Quiet

LEMMA SteadyFallbackIf == \A c, failed : Steady(c, FallbackIf(failed, c))
BY SteadyFallback, SteadyRefl DEF FallbackIf

LEMMA SteadyOpen ==
  ASSUME NEW c \in ControlShape
  PROVE  Steady(c, [c EXCEPT !.gate = "none"])
BY DEF ControlShape, Steady, SameSample

LEMMA SteadyRelease ==
  ASSUME NEW c \in ControlShape, NEW m
  PROVE  Steady(c, AfterRelease(c, m))
BY SteadyFallback, SteadyRefl, SteadyOpen DEF AfterRelease, GateReleased

LEMMA SteadyInvalidated ==
  ASSUME NEW c \in ControlShape, NEW r
  PROVE  /\ Steady(c, Invalidated(c, r))
         /\ c.bound = r /\ r # None => Loose(Invalidated(c, r))
<1>1. CASE c.bound # r
  BY <1>1, SteadyRefl DEF Invalidated
<1>2. CASE c.bound = r
  <2>1. Loose(Invalidated(c, r))
    BY <1>2 DEF Invalidated, Unbound, ControlShape, Loose
  <2> QED BY <2>1 DEF Steady
<1> QED BY <1>1, <1>2

(* A steady step keeps the sample, if the bound request does not move.     *)
LEMMA SampleLoose == \A c, ph : Loose(c) => Sample(c, ph)
BY DEF Loose, Sample

LEMMA SampleSteady ==
  ASSUME NEW c, NEW d, NEW ph, NEW next, Sample(c, ph), Steady(c, d),
         c.bound # None => next[c.bound] = ph[c.bound]
  PROVE  Sample(d, next)
<1>1. CASE Loose(d)
  BY <1>1, SampleLoose
<1>2. CASE SameSample(c, d)
  BY <1>2 DEF SameSample, Sample
<1> QED BY <1>1, <1>2 DEF Steady

(* A handler moves its own request only; here it is not the bound one.      *)
LEMMA OthersStay ==
  ASSUME AccountingTypes, ctl \in ControlShape, NEW r \in Requests,
         NEW from, NEW to, Moves(r, from, to), ctl.bound # r
  PROVE  ctl.bound # None => phase'[ctl.bound] = phase[ctl.bound]
BY DEF AccountingTypes, ControlShape, Moves

SampleInv == Sample(ctl, phase)

LEMMA SampleStep ==
  ASSUME SampleInv, Steady(ctl, ctl'), UNCHANGED phase
  PROVE  SampleInv'
BY SampleSteady DEF SampleInv

LEMMA SampleMoves ==
  ASSUME SampleInv, AccountingTypes, ctl \in ControlShape, NEW r \in Requests,
         NEW from, NEW to, Moves(r, from, to), Steady(ctl, ctl'),
         ctl.bound = r => Loose(ctl')
  PROVE  SampleInv'
<1>1. CASE ctl.bound = r
  BY <1>1, SampleLoose DEF SampleInv
<1>2. CASE ctl.bound # r
  <2>1. ctl.bound # None => phase'[ctl.bound] = phase[ctl.bound]
    BY <1>2, OthersStay
  <2> QED BY <2>1, SampleSteady DEF SampleInv
<1> QED BY <1>1, <1>2

(* A bound request is in the driver or in the device.                      *)
LEMMA BoundPhase ==
  ASSUME SampleInv, NEW r \in Requests, ctl.bound = r
  PROVE  phase[r] \in {"dispatched", "issued"}
BY ThrottleAssumption DEF SampleInv, Sample

-----------------------------------------------------------------------------
(* The handlers of requests.                                               *)

LEMMA SampleIssue ==
  ASSUME AccountingInv, ControlInv, SampleInv,
         NEW r \in Requests, NEW q \in Queues, IssueRequest(r, q)
  PROVE  SampleInv'
<1>1. ctl \in ControlShape /\ AccountingTypes
  BY DEF ControlInv, Good, AccountingInv
<1>2. Moves(r, {"new", "dispatched", "requeued"}, "issued")
  BY DEF IssueRequest, RecordIssue
<1>3. CASE ctl' = Fallback(ctl)
  BY <1>3, SteadyFallback, SampleLoose DEF SampleInv, Loose, Fallback, Quiet
<1>4. CASE ctl.bound = r /\ ctl' # Fallback(ctl)
  <2>1. phase[r] = "dispatched" /\ ctl.feedback = "issue" /\ ctl.bound_to = ctl.applied
    BY <1>2, <1>4, ThrottleAssumption DEF SampleInv, Sample, Moves
  <2>2. ctl' = [ctl EXCEPT !.feedback = "complete"]
    BY <1>4, <2>1 DEF IssueRequest
  <2>3. phase'[r] = "issued"
    BY <1>1, <1>2 DEF Moves, AccountingTypes
  <2>4. /\ ctl'.bound = r /\ ctl'.feedback = "complete"
        /\ ctl'.bound_to = ctl.bound_to /\ ctl'.applied = ctl.applied
        /\ ctl'.votes = ctl.votes /\ ctl'.active = ctl.active
        /\ ctl'.valid = ctl.valid /\ ctl'.pending = ctl.pending
    BY <1>1, <1>4, <2>2 DEF ControlShape
  <2>5. r # None
    BY ThrottleAssumption
  <2> QED BY <1>4, <2>3, <2>4, <2>5 DEF SampleInv, Sample
<1>5. CASE ctl.bound # r /\ ctl' # Fallback(ctl)
  <2>1. ctl' = ctl
    BY <1>5 DEF IssueRequest
  <2> QED BY <1>1, <1>2, <1>5, <2>1, SteadyRefl, SampleMoves
<1> QED BY <1>3, <1>4, <1>5

(* Releasing what an unbound request held.                                 *)
LEMMA ReleasedSample ==
  ASSUME ControlInv, NEW r \in Requests, NEW m, NEW failed
  PROVE  LET c == AfterRelease(Invalidated(ctl, r), m)
         IN  /\ Steady(ctl, FallbackIf(failed, c)) /\ Steady(ctl, c)
             /\ ctl.bound = r => Loose(c) /\ Loose(FallbackIf(failed, c))
<1> DEFINE b == Invalidated(ctl, r)
           c == AfterRelease(b, m)
<1>1. ctl \in ControlShape /\ b \in ControlShape
  BY InvalidatedTame DEF ControlInv, Good, Tame
<1>2. Steady(ctl, b) /\ (ctl.bound = r => Loose(b))
  BY <1>1, SteadyInvalidated, ThrottleAssumption
<1> HIDE DEF b
<1>3. Steady(b, c) /\ (Loose(b) => Loose(c))
  BY <1>1, SteadyRelease DEF Steady, SameSample, Loose
<1> HIDE DEF c
<1>4. Steady(c, FallbackIf(failed, c)) /\ (Loose(c) => Loose(FallbackIf(failed, c)))
  BY SteadyFallbackIf DEF Steady, SameSample, Loose
<1>5. Steady(ctl, c)
  BY <1>2, <1>3, SteadyTrans
<1>6. Steady(ctl, FallbackIf(failed, c))
  BY <1>4, <1>5, SteadyTrans
<1> QED BY <1>2, <1>3, <1>4, <1>5, <1>6 DEF b, c

LEMMA SampleRequeue ==
  ASSUME AccountingInv, ControlInv, SampleInv,
         NEW r \in Requests, RequeueRequest(r)
  PROVE  SampleInv'
<1>1. ctl \in ControlShape /\ AccountingTypes
  BY DEF ControlInv, Good, AccountingInv
<1>2. Moves(r, {"new", "dispatched", "issued"}, "requeued")
  BY DEF RequeueRequest, RecordRequeue
<1>3. CASE meta[r].held
  <2>1. ctl' = AfterRelease(Invalidated(ctl, r), meta[r])
    BY <1>3 DEF RequeueRequest
  <2>2. Steady(ctl, ctl') /\ (ctl.bound = r => Loose(ctl'))
    BY <2>1, ReleasedSample
  <2> QED BY <1>1, <1>2, <2>2, SampleMoves
<1>4. CASE ~meta[r].held
  <2>1. ctl' = ctl
    BY <1>4 DEF RequeueRequest
  <2>2. ctl.bound # r
    BY <1>4, BoundPhase DEF AccountingInv, MetaMatchesPhase
  <2> QED BY <1>1, <1>2, <2>1, <2>2, SteadyRefl, SampleMoves
<1> QED BY <1>3, <1>4

LEMMA SampleReturn ==
  ASSUME AccountingInv, ControlInv, SampleInv,
         NEW r \in Requests, ReturnRequest(r)
  PROVE  SampleInv'
<1>1. ctl \in ControlShape /\ AccountingTypes
  BY DEF ControlInv, Good, AccountingInv
<1>2. Moves(r, {"new", "merged", "ended"}, "idle")
  BY DEF ReturnRequest, FinishRequest
<1>3. ctl.bound # r
  BY <1>2, BoundPhase DEF Moves
<1>4. \/ ctl' = ctl
      \/ ctl' = FallbackIf(meta_inuse = 0, AfterRelease(Invalidated(ctl, r), meta[r]))
  BY DEF ReturnRequest
<1>5. Steady(ctl, ctl')
  BY <1>4, SteadyRefl, ReleasedSample
<1> QED BY <1>1, <1>2, <1>3, <1>5, SampleMoves

(* A final completion takes the vote and unbinds the request, or unbinds   *)
(* it without a vote; a new decision starts with no sample.                *)
LEMMA SampleComplete ==
  ASSUME AccountingInv, ControlInv, SampleInv, NEW r \in Requests,
         NEW slow \in BOOLEAN, NEW tight \in BOOLEAN, NEW mean_slow \in BOOLEAN,
         NEW source \in Sources, NEW level \in Levels,
         CompleteRequest(r, slow, tight, mean_slow, source, level)
  PROVE  SampleInv'
<1> DEFINE m == meta[r]
           c1 == IF Sampling(r) THEN Sampled(ctl, slow, tight) ELSE ctl
           trigger == Sampling(r) /\ ~c1.active /\ ~c1.pending /\ WindowSlow(c1)
           c2 == [Unbound(c1) EXCEPT !.votes = @ + 1,
                                     !.slow_votes = IF slow THEN @ + 1 ELSE @]
           last == Voting(r) /\ c2.votes = FeedbackMax
           again == last /\ MeanSlow(c2, mean_slow)
           recovered == last /\ ~again
           c3 == IF ~Voting(r) THEN Invalidated(c1, r)
                 ELSE IF recovered THEN Fallback(c2)
                 ELSE IF again THEN c2
                 ELSE [c2 EXCEPT !.feedback = "dispatch"]
           c4 == FallbackIf(meta_inuse = 0, AfterRelease(c3, m))
           starts == (trigger \/ again) /\ CanStart(c4, source)
           gives_up == again /\ ~starts
<1>1. ctl \in ControlShape /\ AccountingTypes
  BY DEF ControlInv, Good, AccountingInv
<1>2. Moves(r, {"new", "dispatched", "issued", "requeued"}, "ended")
  BY DEF CompleteRequest, RecordFinalComplete
<1>3. CASE ~m.held
  <2>1. ctl' = ctl
    BY <1>3 DEF CompleteRequest
  <2>2. ctl.bound # r
    BY <1>3, BoundPhase DEF AccountingInv, MetaMatchesPhase
  <2> QED BY <1>1, <1>2, <2>1, <2>2, SteadyRefl, SampleMoves
<1>4. CASE m.held
  <2>1. ctl' = IF starts THEN Started(c4, source, level) ELSE FallbackIf(gives_up, c4)
    BY <1>4 DEF CompleteRequest
  <2>2. Steady(ctl, c1) /\ c1.bound = ctl.bound /\ c1 \in ControlShape /\ Good(c1)
    <3>1. Steady(ctl, Sampled(ctl, slow, tight)) /\ Sampled(ctl, slow, tight).bound = ctl.bound
      BY <1>1 DEF Sampled, ControlShape, Steady, SameSample
    <3>2. Good(ctl) /\ Good(Sampled(ctl, slow, tight))
      BY SampledTame DEF ControlInv, Tame
    <3> QED BY <3>1, <3>2, SteadyRefl DEF Good
  <2>3. Loose(c2) /\ c2 \in ControlShape
    <3>1. PICK v \in Nat, sv \in Nat :
            c2 = [c1 EXCEPT !.bound = None, !.bound_to = 0, !.feedback = "none",
                            !.votes = v, !.slow_votes = sv]
      <4> HIDE DEF c1
      <4>1. c1.votes + 1 \in Nat /\ c1.slow_votes \in Nat /\ c1.slow_votes + 1 \in Nat
        BY <2>2 DEF ControlShape
      <4>2. CASE slow
        BY <2>2, <4>1, <4>2 DEF Unbound, ControlShape
      <4>3. CASE ~slow
        BY <2>2, <4>1, <4>3 DEF Unbound, ControlShape
      <4> QED BY <4>2, <4>3
    <3> HIDE DEF c1, c2
    <3> QED BY <2>2, <3>1 DEF ControlShape, Loose
  <2>4. Steady(c1, c3) /\ (ctl.bound = r => Loose(c3)) /\ c3 \in ControlShape
    <3> HIDE DEF c1, c2
    <3>1. CASE ~Voting(r)
      <4>1. c3 = Invalidated(c1, r)
        BY <3>1
      <4>2. c3 \in ControlShape
        BY <2>2, <4>1, InvalidatedTame DEF Tame, Good
      <4> QED BY <2>2, <4>1, <4>2, SteadyInvalidated, ThrottleAssumption
    <3>2. CASE Voting(r)
      <4>1. Loose(Fallback(c2)) /\ Fallback(c2) \in ControlShape
        BY <2>3, FallbackShape DEF Loose, Fallback, Quiet
      <4>2. /\ Loose([c2 EXCEPT !.feedback = "dispatch"])
            /\ [c2 EXCEPT !.feedback = "dispatch"] \in ControlShape
        BY <2>3 DEF Loose, ControlShape
      <4> QED BY <2>3, <3>2, <4>1, <4>2 DEF Steady
    <3> QED BY <3>1, <3>2
  <2>5. Steady(c3, c4) /\ (Loose(c3) => Loose(c4)) /\ c4 \in ControlShape
    <3> HIDE DEF c3, m
    <3>1. Steady(c3, AfterRelease(c3, m)) /\ AfterRelease(c3, m) \in ControlShape
      BY <2>4, SteadyRelease, AfterReleaseShape
    <3>2. Steady(AfterRelease(c3, m), c4) /\ c4 \in ControlShape
      BY <3>1, SteadyFallbackIf, FallbackShape DEF FallbackIf
    <3> HIDE DEF c4
    <3>3. Steady(c3, c4)
      BY <3>1, <3>2, SteadyTrans
    <3> QED BY <3>2, <3>3 DEF Steady, SameSample, Loose
  <2>6. Steady(ctl, c4) /\ (ctl.bound = r => Loose(c4))
    <3> HIDE DEF c1, c3, c4
    <3> QED BY <2>2, <2>4, <2>5, SteadyTrans
  <2>7. CASE starts
    <3> HIDE DEF c4, starts
    <3>1. Loose(ctl')
      BY <2>1, <2>5, <2>7 DEF Started, NoFeedback, Unbound, ControlShape, Loose
    <3> QED BY <3>1, SampleLoose DEF SampleInv
  <2>8. CASE ~starts
    <3> HIDE DEF c4, starts, gives_up
    <3>1. Steady(c4, ctl') /\ (Loose(c4) => Loose(ctl'))
      BY <2>1, <2>8, SteadyFallbackIf DEF Steady, SameSample, Loose
    <3>2. Steady(ctl, ctl') /\ (ctl.bound = r => Loose(ctl'))
      BY <2>6, <3>1, SteadyTrans
    <3> QED BY <1>1, <1>2, <3>2, SampleMoves
  <2> QED BY <2>7, <2>8
<1> QED BY <1>3, <1>4

LEMMA SampleRequest ==
  ASSUME AccountingInv, ControlInv, SampleInv, RequestNext
  PROVE  SampleInv'
<1>1. ctl \in ControlShape /\ AccountingTypes
  BY DEF ControlInv, Good, AccountingInv
<1>2. ASSUME NEW r \in Requests, NEW sched, PrepareRequest(r, sched) PROVE SampleInv'
  <2>1. Moves(r, {"idle"}, "new") /\ ctl' = ctl
    BY <1>2 DEF PrepareRequest, Prepare
  <2>2. ctl.bound # r
    BY <2>1, BoundPhase DEF Moves
  <2> QED BY <1>1, <2>1, <2>2, SteadyRefl, SampleMoves
<1>3. ASSUME NEW r \in Requests, NEW q, InsertRequest(r, q) PROVE SampleInv'
  <2>1. /\ Moves(r, {"new", "requeued"}, "queued")
        /\ \E failed : ctl' = FallbackIf(failed, ctl)
    BY <1>3 DEF InsertRequest, ClassifyRequest
  <2>2. ctl.bound # r
    BY <2>1, BoundPhase DEF Moves
  <2>3. Steady(ctl, ctl')
    BY <2>1, SteadyFallbackIf
  <2> QED BY <1>1, <2>1, <2>2, <2>3, SampleMoves
<1>4. ASSUME NEW r \in Requests, MergeRequest(r) PROVE SampleInv'
  <2>1. Moves(r, {"queued"}, "merged") /\ ctl' = ctl
    BY <1>4 DEF MergeRequest, UnqueueRequest
  <2>2. ctl.bound # r
    BY <2>1, BoundPhase DEF Moves
  <2> QED BY <1>1, <2>1, <2>2, SteadyRefl, SampleMoves
<1>5. ASSUME NEW r \in Requests, DemoRefuse(r) PROVE SampleInv'
  <2>1. UNCHANGED <<ctl, phase>>
    BY <1>5 DEF DemoRefuse, accountingVars, blockVars
  <2> QED BY <2>1, SteadyRefl, SampleStep
<1> QED
  BY <1>2, <1>3, <1>4, <1>5, SampleIssue, SampleRequeue, SampleReturn, SampleComplete
     DEF RequestNext

-----------------------------------------------------------------------------
(* The dispatch path binds the request it has picked.                      *)

LEMMA SampleBind ==
  ASSUME AccountingInv, ControlInv, LockInv, SampleInv,
         NEW d \in Dispatchers, AccountPicked(d)
  PROVE  SampleInv'
<1> DEFINE c == FallbackIf(~priv[pick] \/ AccountFails(meta[pick]), ctl)
<1>1. /\ ctl \in ControlShape /\ AccountingTypes
      /\ pick \in Requests /\ pick # None
  BY ThrottleAssumption DEF ControlInv, Good, AccountingInv, AccountPicked, LockInv
<1>2. Moves(pick, {"queued"}, "dispatched")
  BY DEF AccountPicked, AccountDispatch
<1>3. ctl.bound # pick
  BY <1>1, <1>2, BoundPhase DEF Moves
<1>4. Steady(ctl, c) /\ c \in ControlShape
  BY <1>1, SteadyFallbackIf, FallbackShape DEF FallbackIf
<1>5. \/ ctl' = c
      \/ /\ InForce(c) /\ c.votes < FeedbackMax
         /\ ctl' = [c EXCEPT !.bound = pick, !.feedback = "issue",
                             !.bound_to = c.applied]
  BY DEF AccountPicked
<1> HIDE DEF c
<1>6. CASE ctl' = c
  BY <1>1, <1>2, <1>3, <1>4, <1>6, SampleMoves
<1>7. CASE /\ InForce(c) /\ c.votes < FeedbackMax
           /\ ctl' = [c EXCEPT !.bound = pick, !.feedback = "issue",
                               !.bound_to = c.applied]
  <2>1. /\ ctl'.bound = pick /\ ctl'.feedback = "issue" /\ ctl'.bound_to = c.applied
        /\ ctl'.applied = c.applied /\ ctl'.votes = c.votes
        /\ ctl'.active = c.active /\ ctl'.valid = c.valid /\ ctl'.pending = c.pending
    BY <1>4, <1>7 DEF ControlShape
  <2>2. phase'[pick] = "dispatched"
    BY <1>1, <1>2 DEF Moves, AccountingTypes
  <2>3. ctl'.active /\ ctl'.valid /\ ~ctl'.pending /\ ctl'.votes < FeedbackMax
    BY <1>7, <2>1 DEF InForce
  <2> QED BY <1>1, <2>1, <2>2, <2>3 DEF SampleInv, Sample
<1> QED BY <1>5, <1>6, <1>7

(* Nor do the marks that the dispatch path and the runners set.            *)
LEMMA SteadyMarks ==
  ASSUME ControlInv
  PROVE  /\ \A x : Steady(ctl, [ctl EXCEPT !.gate = x])
         /\ \A x : Steady(ctl, [ctl EXCEPT !.running = x])
         /\ \A x : Steady(ctl, [ctl EXCEPT !.timed_out = x])
         /\ \A x : Steady(ctl, [ctl EXCEPT !.state_valid = x])
<1>1. ctl \in ControlShape
  BY DEF ControlInv, Good
<1> QED BY <1>1 DEF ControlShape, Steady, SameSample

LEMMA SampleDispatch ==
  ASSUME AccountingInv, ControlInv, LockInv, SampleInv,
         NEW d \in Dispatchers, DispatchNext(d)
  PROVE  SampleInv'
<1>1. CASE AccountPicked(d)
  BY <1>1, SampleBind
<1>2. CASE ~AccountPicked(d)
  <2>1. UNCHANGED phase
    BY <1>2 DEF DispatchNext, HasWork, HasWorkGate, DispatchModel, ArmModelTimer,
                PickRequest, accountingVars, blockVars
  <2>2. \/ ctl' \in {ctl, Fallback(ctl), [ctl EXCEPT !.running = TRUE]}
        \/ \E reason : ctl' = [ctl EXCEPT !.gate = reason]
    BY <1>2 DEF DispatchNext, HasWork, HasWorkGate, DispatchModel, ArmModelTimer,
                PickRequest, CloseGate
  <2>3. Steady(ctl, ctl')
    BY <2>2, SteadyRefl, SteadyFallback, SteadyMarks
  <2> QED BY <2>1, <2>3, SampleStep
<1> QED BY <1>1, <1>2

-----------------------------------------------------------------------------
(* Timers, runners and the switch.                                         *)

LEMMA SampleTimers ==
  ASSUME ControlInv,
         \/ ScheduleNext \/ TimerFires \/ TimeoutWork \/ OtherQueueUsesThread
         \/ AdminNext \/ (\E on \in BOOLEAN : SetEnabled(on)) \/ UNCHANGED vars
  PROVE  Steady(ctl, ctl') /\ UNCHANGED phase
<1>1. UNCHANGED phase
  BY DEF ScheduleNext, ArmTimer, QueueInference, QueueingFailed, TimerFires,
         TimeoutWork, OtherQueueUsesThread, AdminNext, ResetContext,
         ResetCancelsTimer, ResetCancelsWorks, SwitchDone, SetEnabled, vars,
         accountingVars, blockVars
<1>2. \/ ctl' = ctl \/ ctl' = Fallback(ctl)
      \/ ctl' = [ctl EXCEPT !.timed_out = TRUE]
  BY DEF ScheduleNext, ArmTimer, QueueInference, QueueingFailed, TimerFires,
         TimeoutWork, OtherQueueUsesThread, AdminNext, ResetContext,
         ResetCancelsTimer, ResetCancelsWorks, SwitchDone, SetEnabled, vars, FallbackIf
<1>3. Steady(ctl, ctl')
  BY <1>2, SteadyRefl, SteadyFallback, SteadyMarks
<1> QED BY <1>1, <1>3

(* A pending decision has no sample yet, so that applying it binds none.   *)
LEMMA SampleRunners ==
  ASSUME ControlInv, SampleInv, RunnerNext("wq") \/ ThreadNext
  PROVE  Steady(ctl, ctl') /\ UNCHANGED phase
<1>1. UNCHANGED phase
  BY DEF RunnerNext, ThreadNext, ReadDecision, ApplyDecision, ProviderError,
         CancelTimer, ThreadPicksUp, ThreadSnapshots, ThreadReleases,
         accountingVars, blockVars
<1>2. ctl \in ControlShape
  BY DEF ControlInv, Good
<1>3. CASE \E w \in Runners, level \in Levels : ApplyDecision(w, level) /\ StillWanted(w)
  <2>1. ctl.bound = None
    BY <1>3 DEF StillWanted, SampleInv, Sample
  <2>2. ctl'.feedback = "dispatch" /\ ctl'.bound = ctl.bound
    BY <1>2, <1>3 DEF ApplyDecision, ControlShape
  <2> QED BY <1>1, <2>1, <2>2 DEF Steady, Loose
<1>4. CASE ~\E w \in Runners, level \in Levels : ApplyDecision(w, level) /\ StillWanted(w)
  <2>1. \/ ctl' = ctl \/ ctl' = Fallback(ctl)
        \/ ctl' = [ctl EXCEPT !.running = FALSE]
        \/ ctl' = [ctl EXCEPT !.state_valid = TRUE]
    BY <1>4 DEF RunnerNext, ThreadNext, ReadDecision, ApplyDecision, ProviderError,
                CancelTimer, ThreadPicksUp, ThreadSnapshots, ThreadReleases,
                StopRunning, Runners, FallbackIf
  <2>2. Steady(ctl, ctl')
    BY <2>1, SteadyRefl, SteadyFallback, SteadyMarks
  <2> QED BY <1>1, <2>2
<1> QED BY <1>3, <1>4

LEMMA SampleNext ==
  ASSUME AccountingInv, ControlInv, LockInv, SampleInv, [ThrottleNext]_vars
  PROVE  SampleInv'
<1>1. CASE RequestNext
  BY <1>1, SampleRequest
<1>2. CASE \E d \in Dispatchers : DispatchNext(d)
  BY <1>2, SampleDispatch
<1>3. CASE ~RequestNext /\ ~\E d \in Dispatchers : DispatchNext(d)
  <2>1. Steady(ctl, ctl') /\ UNCHANGED phase
    BY <1>3, SampleTimers, SampleRunners DEF ThrottleNext
  <2> QED BY <2>1, SampleStep
<1> QED BY <1>1, <1>2, <1>3

LEMMA SampleInvHolds == Spec => []SampleInv
<1>1. Init => SampleInv
  BY DEF Init, SampleInv, Sample, Quiet
<1>2. Spec => []AccountingInv
  BY ThrottleImplementsAccounting, AccountingInvHolds, PTL
<1> QED BY <1>1, <1>2, SampleNext, ControlInvHolds, LockInvHolds, PTL DEF Spec

(* feedback_meta never outlives its request or its decision: while it is   *)
(* set, the request it names holds its meta, is where feedback_state says, *)
(* and was dispatched under the decision in force.                         *)
THEOREM ThrottleFeedbackMatches == Spec => []FeedbackMatchesRequest
<1>1. Spec => []AccountingInv
  BY ThrottleImplementsAccounting, AccountingInvHolds, PTL
<1>2. AccountingInv /\ ControlInv /\ SampleInv => FeedbackMatchesRequest
  <2> SUFFICES ASSUME AccountingInv, ControlInv, SampleInv
               PROVE  FeedbackMatchesRequest
    OBVIOUS
  <2>1. ctl.bound # None => meta[ctl.bound].held
    BY BoundPhase DEF AccountingInv, MetaMatchesPhase, ControlInv, Good, ControlShape
  <2> QED BY <2>1 DEF SampleInv, Sample, FeedbackMatchesRequest
<1> QED BY <1>1, <1>2, SampleInvHolds, ControlInvHolds, PTL

-----------------------------------------------------------------------------
(* The type invariant: the counters of the control fields.                 *)


Bounded(c) ==
  /\ c.limit <= QueueMax
  /\ c.decision <= MaxDecision /\ c.applied <= MaxDecision /\ c.bound_to <= MaxDecision
  /\ c.votes <= FeedbackMax /\ c.slow_votes <= c.votes
  /\ c.samples <= Window /\ c.slow <= Window

(* c is what a handler has made of the control fields so far, without a    *)
(* new decision.                                                           *)
Kept(c) == c \in ControlShape /\ Bounded(c) /\ c.decision = ctl.decision

LEMMA BoundedControl == \A c \in ControlShape : Bounded(c) => c \in Control
<1> TAKE c \in ControlShape
<1> HAVE Bounded(c)
<1>1. /\ c.limit \in 0 .. QueueMax
      /\ c.decision \in 0 .. MaxDecision /\ c.applied \in 0 .. MaxDecision
      /\ c.bound_to \in 0 .. MaxDecision
      /\ c.votes \in 0 .. FeedbackMax /\ c.slow_votes \in 0 .. FeedbackMax
      /\ c.samples \in 0 .. Window /\ c.slow \in 0 .. Window
  BY ThrottleAssumption DEF Bounded, ControlShape
<1> QED BY <1>1 DEF ControlShape, Control

LEMMA KeptFallback == ASSUME NEW c, Kept(c) PROVE Kept(Fallback(c))
<1>1. Fallback(c) \in ControlShape
  BY FallbackShape DEF Kept
<1>2. Fallback(c).decision = c.decision /\ Bounded(Fallback(c))
  BY ThrottleAssumption DEF Kept, Bounded, Fallback, Quiet
<1> QED BY <1>1, <1>2 DEF Kept

LEMMA KeptFallbackIf == ASSUME NEW c, Kept(c), NEW failed PROVE Kept(FallbackIf(failed, c))
BY KeptFallback DEF FallbackIf

(* A change of other fields.                                               *)
LEMMA KeptOther ==
  ASSUME NEW c, Kept(c), NEW d \in ControlShape,
         d.limit = c.limit, d.decision = c.decision, d.applied = c.applied,
         d.bound_to \in {0, c.bound_to, c.applied},
         d.votes = c.votes, d.slow_votes = c.slow_votes,
         d.samples = c.samples, d.slow = c.slow
  PROVE  Kept(d)
BY ThrottleAssumption DEF Kept, Bounded

LEMMA KeptRelease == ASSUME NEW c, Kept(c), NEW m PROVE Kept(AfterRelease(c, m))
<1> DEFINE d == [c EXCEPT !.gate = "none"]
<1>1. /\ d \in ControlShape
      /\ d.limit = c.limit /\ d.decision = c.decision /\ d.applied = c.applied
      /\ d.bound_to = c.bound_to /\ d.votes = c.votes /\ d.slow_votes = c.slow_votes
      /\ d.samples = c.samples /\ d.slow = c.slow
  BY DEF Kept, ControlShape
<1> HIDE DEF d
<1>2. Kept(d)
  BY <1>1, KeptOther
<1> QED BY <1>2, KeptFallback DEF AfterRelease, GateReleased, d

LEMMA KeptInvalidated == ASSUME NEW c, Kept(c), Good(c), NEW r PROVE Kept(Invalidated(c, r))
<1> DEFINE d == Invalidated(c, r)
<1>1. /\ d.limit = c.limit /\ d.decision = c.decision /\ d.applied = c.applied
      /\ d.bound_to \in {0, c.bound_to} /\ d.votes = c.votes
      /\ d.slow_votes = c.slow_votes /\ d.samples = c.samples /\ d.slow = c.slow
  BY DEF Kept, ControlShape, Invalidated, Unbound
<1>2. d \in ControlShape
  BY InvalidatedTame DEF Tame, Good
<1> HIDE DEF d
<1>3. Kept(d)
  BY <1>1, <1>2, KeptOther
<1> QED BY <1>3 DEF d

LEMMA KeptSampled ==
  ASSUME NEW c, Kept(c), Good(c), NEW slow \in BOOLEAN, NEW tight \in BOOLEAN
  PROVE  Kept(Sampled(c, slow, tight))
<1> DEFINE n == IF c.samples < Window THEN c.samples + 1 ELSE Window
           run == IF ~slow THEN 0 ELSE IF c.slow < Window THEN c.slow + 1 ELSE Window
           full == tight /\ n = Window
           d == [c EXCEPT !.samples = n, !.slow = run, !.tight = full]
<1>1. n \in Nat /\ run \in Nat /\ n <= Window /\ run <= Window
  BY ThrottleAssumption DEF Kept, ControlShape
<1>2. Sampled(c, slow, tight) = d
  BY DEF Sampled
<1>3. Sampled(c, slow, tight) \in ControlShape
  BY SampledTame DEF Tame, Good
<1> HIDE DEF n, run, full
<1>4. /\ d.limit = c.limit /\ d.decision = c.decision /\ d.applied = c.applied
      /\ d.bound_to = c.bound_to /\ d.votes = c.votes /\ d.slow_votes = c.slow_votes
      /\ d.samples = n /\ d.slow = run
  BY DEF Kept, ControlShape
<1> HIDE DEF d
<1>5. Bounded(d)
  BY <1>1, <1>4 DEF Kept, Bounded
<1> QED BY <1>2, <1>3, <1>4, <1>5 DEF Kept

LEMMA KeptVoted ==
  ASSUME NEW c, Kept(c), c.votes < FeedbackMax, NEW slow \in BOOLEAN
  PROVE  Kept([Unbound(c) EXCEPT !.votes = @ + 1,
                                 !.slow_votes = IF slow THEN @ + 1 ELSE @])
<1> DEFINE d == [Unbound(c) EXCEPT !.votes = @ + 1,
                                   !.slow_votes = IF slow THEN @ + 1 ELSE @]
<1>1. PICK v \in Nat, sv \in Nat :
        /\ v <= FeedbackMax /\ sv <= v
        /\ d = [c EXCEPT !.bound = None, !.bound_to = 0, !.feedback = "none",
                         !.votes = v, !.slow_votes = sv]
  <2>1. /\ c.votes + 1 \in Nat /\ c.slow_votes \in Nat /\ c.slow_votes + 1 \in Nat
        /\ c.votes + 1 <= FeedbackMax
        /\ c.slow_votes <= c.votes + 1 /\ c.slow_votes + 1 <= c.votes + 1
    BY ThrottleAssumption DEF Kept, Bounded, ControlShape
  <2>2. CASE slow
    BY <2>1, <2>2 DEF Kept, Unbound, ControlShape
  <2>3. CASE ~slow
    BY <2>1, <2>3 DEF Kept, Unbound, ControlShape
  <2> QED BY <2>2, <2>3
<1> HIDE DEF d
<1>2. /\ d \in ControlShape
      /\ d.limit = c.limit /\ d.decision = c.decision /\ d.applied = c.applied
      /\ d.bound_to = 0 /\ d.votes = v /\ d.slow_votes = sv
      /\ d.samples = c.samples /\ d.slow = c.slow
  BY <1>1 DEF Kept, ControlShape
<1>3. Bounded(d)
  BY <1>1, <1>2, ThrottleAssumption DEF Kept, Bounded
<1>4. Kept(d)
  BY <1>2, <1>3 DEF Kept
<1> QED BY <1>4 DEF d

LEMMA TargetDepthBound == \A level \in AllLevels : TargetDepth(level) <= QueueMax
<1> TAKE level \in AllLevels
<1>1. CASE level = "NO"
  BY <1>1, ThrottleAssumption DEF TargetDepth
<1>2. CASE level # "NO"
  <2> DEFINE n == QueueMax * Ratio[level]
             ceil == (n + 99) \div 100
  <2>1. QueueMax \in Nat /\ Ratio[level] \in Nat
    BY <1>2, ThrottleAssumption
  <2>2. n \in Nat
    BY <2>1
  <2>3. ceil \in Nat
    <3> HIDE DEF n
    <3> QED BY <2>2
  <2>4. TargetDepth(level) = IF ceil < QueueMax THEN ceil ELSE QueueMax
    BY <1>2 DEF TargetDepth
  <2> HIDE DEF ceil
  <2> QED BY <2>1, <2>3, <2>4
<1> QED BY <1>1, <1>2

-----------------------------------------------------------------------------
(* The counters of the control fields, and of the completions that are     *)
(* still to schedule their decision.                                       *)

ScheduleInv ==
  /\ scheduling \in [ScheduleSteps -> Nat]
  /\ scheduling["timer"] + scheduling["work"] + scheduling["failed"] <= ctl.decision

BoundInv == Bounded(ctl) /\ ScheduleInv

LEMMA BoundKept ==
  ASSUME BoundInv, Kept(ctl'), UNCHANGED scheduling
  PROVE  BoundInv'
BY DEF BoundInv, ScheduleInv, Kept

LEMMA KeptNow == ASSUME ControlInv, BoundInv PROVE Kept(ctl) /\ Good(ctl)
BY DEF ControlInv, Good, BoundInv, Kept

\* d has the counters of c, or is bound to its latest decision.
SameCounters(c, d) ==
  /\ d.limit = c.limit /\ d.decision = c.decision /\ d.applied = c.applied
  /\ d.bound_to \in {c.bound_to, c.applied}
  /\ d.votes = c.votes /\ d.slow_votes = c.slow_votes
  /\ d.samples = c.samples /\ d.slow = c.slow

LEMMA MarkedCounters ==
  ASSUME NEW c \in ControlShape, NEW x, NEW y
  PROVE  /\ SameCounters(c, [c EXCEPT !.gate = x])
         /\ SameCounters(c, [c EXCEPT !.running = x])
         /\ SameCounters(c, [c EXCEPT !.timed_out = x])
         /\ SameCounters(c, [c EXCEPT !.state_valid = x])
         /\ SameCounters(c, [c EXCEPT !.feedback = x])
         /\ SameCounters(c, [c EXCEPT !.bound = x, !.feedback = y, !.bound_to = c.applied])
<1>1. SameCounters(c, [c EXCEPT !.gate = x])
  BY DEF ControlShape, SameCounters
<1>2. SameCounters(c, [c EXCEPT !.running = x])
  BY DEF ControlShape, SameCounters
<1>3. SameCounters(c, [c EXCEPT !.timed_out = x])
  BY DEF ControlShape, SameCounters
<1>4. SameCounters(c, [c EXCEPT !.state_valid = x])
  BY DEF ControlShape, SameCounters
<1>5. SameCounters(c, [c EXCEPT !.feedback = x])
  BY DEF ControlShape, SameCounters
<1>6. SameCounters(c, [c EXCEPT !.bound = x, !.feedback = y, !.bound_to = c.applied])
  BY DEF ControlShape, SameCounters
<1> QED BY <1>1, <1>2, <1>3, <1>4, <1>5, <1>6

LEMMA KeptCounters ==
  ASSUME NEW c, Kept(c), NEW d \in ControlShape, SameCounters(c, d)
  PROVE  Kept(d)
BY KeptOther DEF SameCounters

\* d has another mark or binding than c: none of them is a counter.
Marked(c, d) ==
  \/ \E x : d = [c EXCEPT !.gate = x]
  \/ \E x : d = [c EXCEPT !.running = x]
  \/ \E x : d = [c EXCEPT !.timed_out = x]
  \/ \E x : d = [c EXCEPT !.state_valid = x]
  \/ \E x : d = [c EXCEPT !.feedback = x]
  \/ \E x, y : d = [c EXCEPT !.bound = x, !.feedback = y, !.bound_to = c.applied]

LEMMA KeptMarks ==
  ASSUME NEW c, Kept(c), NEW d \in ControlShape, Marked(c, d)
  PROVE  Kept(d)
<1>1. c \in ControlShape
  BY DEF Kept
<1>2. CASE \E x : d = [c EXCEPT !.gate = x]
  BY Zenon, <1>1, <1>2, MarkedCounters, KeptCounters
<1>3. CASE \E x : d = [c EXCEPT !.running = x]
  BY Zenon, <1>1, <1>3, MarkedCounters, KeptCounters
<1>4. CASE \E x : d = [c EXCEPT !.timed_out = x]
  BY Zenon, <1>1, <1>4, MarkedCounters, KeptCounters
<1>5. CASE \E x : d = [c EXCEPT !.state_valid = x]
  BY Zenon, <1>1, <1>5, MarkedCounters, KeptCounters
<1>6. CASE \E x : d = [c EXCEPT !.feedback = x]
  BY Zenon, <1>1, <1>6, MarkedCounters, KeptCounters
<1>7. CASE \E x, y : d = [c EXCEPT !.bound = x, !.feedback = y, !.bound_to = c.applied]
  BY Zenon, <1>1, <1>7, MarkedCounters, KeptCounters
<1> QED BY Zenon, <1>2, <1>3, <1>4, <1>5, <1>6, <1>7 DEF Marked

LEMMA StartedBounded ==
  ASSUME NEW c, Kept(c), c.decision < MaxDecision, NEW source, NEW level
  PROVE  /\ Bounded(Started(c, source, level))
         /\ Started(c, source, level).decision = ctl.decision + 1
<1> DEFINE d == Started(c, source, level)
<1>1. /\ d.limit = c.limit /\ d.decision = c.decision + 1 /\ d.applied = c.applied
      /\ d.bound_to = 0 /\ d.votes = 0 /\ d.slow_votes = 0
      /\ d.samples = c.samples /\ d.slow = c.slow
  BY DEF Kept, ControlShape, Started, NoFeedback, Unbound
<1>2. c.decision \in Nat
  BY DEF Kept, ControlShape
<1> HIDE DEF d
<1>3. Bounded(d) /\ d.decision = ctl.decision + 1
  BY <1>1, <1>2, ThrottleAssumption DEF Kept, Bounded
<1> QED BY <1>3 DEF d

(* One completion more is to schedule its decision, one decision more was  *)
(* started.                                                                *)
LEMMA ScheduleStarted ==
  ASSUME BoundInv, ctl.decision \in Nat, Bounded(ctl'), ctl'.decision = ctl.decision + 1,
         \/ UNCHANGED scheduling
         \/ scheduling' = [scheduling EXCEPT !["timer"] = @ + 1]
  PROVE  BoundInv'
<1>1. CASE UNCHANGED scheduling
  BY <1>1 DEF BoundInv, ScheduleInv, ScheduleSteps
<1>2. CASE scheduling' = [scheduling EXCEPT !["timer"] = @ + 1]
  <2>1. /\ scheduling' \in [ScheduleSteps -> Nat]
        /\ scheduling'["timer"] = scheduling["timer"] + 1
        /\ scheduling'["work"] = scheduling["work"]
        /\ scheduling'["failed"] = scheduling["failed"]
    BY <1>2 DEF BoundInv, ScheduleInv, ScheduleSteps
  <2>2. /\ scheduling["timer"] \in Nat /\ scheduling["work"] \in Nat
        /\ scheduling["failed"] \in Nat
    BY DEF BoundInv, ScheduleInv, ScheduleSteps
  <2> QED BY <2>1, <2>2 DEF BoundInv, ScheduleInv
<1> QED BY <1>1, <1>2

LEMMA ScheduleMoves ==
  ASSUME BoundInv, Kept(ctl'), NEW from \in ScheduleSteps,
         NEW to \in (ScheduleSteps \cup {"done"}) \ {from}, Schedules(from, to)
  PROVE  BoundInv'
<1>1. /\ scheduling["timer"] \in Nat /\ scheduling["work"] \in Nat
      /\ scheduling["failed"] \in Nat
  BY DEF BoundInv, ScheduleInv, ScheduleSteps
<1>2. \A step \in ScheduleSteps :
        scheduling'[step] = scheduling[step] + (IF step = to THEN 1 ELSE 0)
                                             - (IF step = from THEN 1 ELSE 0)
  BY DEF Schedules
<1>3. scheduling' \in [ScheduleSteps -> Nat]
  <2>1. ASSUME NEW step \in ScheduleSteps PROVE scheduling'[step] \in Nat
    <3>1. scheduling[step] \in Nat
      BY DEF BoundInv, ScheduleInv
    <3> QED BY <1>2, <3>1 DEF Schedules
  <2> QED BY <2>1 DEF Schedules
<1>4. scheduling'["timer"] + scheduling'["work"] + scheduling'["failed"]
        <= scheduling["timer"] + scheduling["work"] + scheduling["failed"]
  BY <1>1, <1>2 DEF ScheduleSteps
<1>5. ctl.decision \in Nat /\ ctl'.decision = ctl.decision /\ Bounded(ctl')
  BY DEF Kept, ControlShape
<1>6. /\ scheduling'["timer"] \in Nat /\ scheduling'["work"] \in Nat
      /\ scheduling'["failed"] \in Nat
  BY <1>3 DEF ScheduleSteps
<1> QED BY <1>1, <1>3, <1>4, <1>5, <1>6 DEF BoundInv, ScheduleInv

(* Only a completion starts a decision; only a bound sample has voted.     *)
LEMMA BoundComplete ==
  ASSUME ControlInv, SampleInv, BoundInv, NEW r \in Requests,
         NEW slow \in BOOLEAN, NEW tight \in BOOLEAN, NEW mean_slow \in BOOLEAN,
         NEW source \in Sources, NEW level \in Levels,
         CompleteRequest(r, slow, tight, mean_slow, source, level)
  PROVE  BoundInv'
<1> DEFINE m == meta[r]
           c1 == IF Sampling(r) THEN Sampled(ctl, slow, tight) ELSE ctl
           trigger == Sampling(r) /\ ~c1.active /\ ~c1.pending /\ WindowSlow(c1)
           c2 == [Unbound(c1) EXCEPT !.votes = @ + 1,
                                     !.slow_votes = IF slow THEN @ + 1 ELSE @]
           last == Voting(r) /\ c2.votes = FeedbackMax
           again == last /\ MeanSlow(c2, mean_slow)
           recovered == last /\ ~again
           c3 == IF ~Voting(r) THEN Invalidated(c1, r)
                 ELSE IF recovered THEN Fallback(c2)
                 ELSE IF again THEN c2
                 ELSE [c2 EXCEPT !.feedback = "dispatch"]
           c4 == FallbackIf(meta_inuse = 0, AfterRelease(c3, m))
           starts == (trigger \/ again) /\ CanStart(c4, source)
           gives_up == again /\ ~starts
<1>1. Kept(ctl) /\ Good(ctl)
  BY KeptNow
<1>2. CASE ~m.held
  BY <1>1, <1>2, BoundKept DEF CompleteRequest
<1>3. CASE m.held
  <2>1. /\ starts => c4.decision < MaxDecision
        /\ ctl' = IF starts THEN Started(c4, source, level) ELSE FallbackIf(gives_up, c4)
        /\ scheduling' = IF starts /\ source = "FIXED"
                           THEN [scheduling EXCEPT !["timer"] = @ + 1] ELSE scheduling
    BY Zenon, <1>3 DEF CompleteRequest
  <2>2. Kept(c1) /\ Good(c1) /\ c1.votes = ctl.votes
    <3>1. Kept(Sampled(ctl, slow, tight))
      BY <1>1, KeptSampled
    <3>2. Good(Sampled(ctl, slow, tight))
      BY <1>1, SampledTame DEF Tame
    <3>3. Sampled(ctl, slow, tight).votes = ctl.votes
      BY <1>1 DEF Sampled, Kept, ControlShape
    <3> QED BY <1>1, <3>1, <3>2, <3>3
  <2>3. Voting(r) => Kept(c2)
    <3> SUFFICES ASSUME Voting(r) PROVE Kept(c2)
      OBVIOUS
    <3>1. ctl.votes < FeedbackMax
      BY ThrottleAssumption DEF Voting, SampleInv, Sample
    <3> HIDE DEF c1
    <3>2. Kept(c1) /\ c1.votes < FeedbackMax
      BY <2>2, <3>1
    <3> QED BY Zenon, <3>2, KeptVoted
  <2>4. Kept(c3)
    <3> HIDE DEF c1, c2
    <3>1. CASE ~Voting(r)
      BY <2>2, <3>1, KeptInvalidated
    <3>2. CASE Voting(r)
      <4>1. Kept(c2) /\ Kept(Fallback(c2))
        BY <2>3, <3>2, KeptFallback
      <4> DEFINE d == [c2 EXCEPT !.feedback = "dispatch"]
      <4>2. d \in ControlShape
        BY <4>1 DEF Kept, ControlShape
      <4>3. Kept(d)
        <5>1. Marked(c2, d)
          BY Zenon DEF Marked
        <5> HIDE DEF d
        <5> QED BY <4>1, <4>2, <5>1, KeptMarks
      <4> HIDE DEF d
      <4>4. c3 \in {Fallback(c2), c2, d}
        BY <3>2 DEF d
      <4> QED BY <4>1, <4>3, <4>4
    <3> QED BY <3>1, <3>2
  <2>5. Kept(c4)
    <3> HIDE DEF c3, m
    <3> QED BY <2>4, KeptRelease, KeptFallbackIf
  <2>6. CASE starts
    <3> HIDE DEF c4, starts
    <3> QED BY <1>1, <2>1, <2>5, <2>6, StartedBounded, ScheduleStarted
            DEF Kept, ControlShape
  <2>7. CASE ~starts
    <3> HIDE DEF c4, starts, gives_up
    <3> QED BY <2>1, <2>5, <2>7, KeptFallbackIf, BoundKept
  <2> QED BY <2>6, <2>7
<1> QED BY <1>2, <1>3

(* What the other steps may make of the control fields.                    *)
Minor(d) ==
  \/ d = ctl \/ d = Fallback(ctl)
  \/ \E x : d = [ctl EXCEPT !.gate = x]
  \/ \E x : d = [ctl EXCEPT !.running = x]
  \/ \E x : d = [ctl EXCEPT !.timed_out = x]
  \/ \E x : d = [ctl EXCEPT !.state_valid = x]
  \/ \E x : d = [ctl EXCEPT !.feedback = x]

LEMMA KeptMinor ==
  ASSUME ControlInv, ControlInv', BoundInv, Minor(ctl')
  PROVE  Kept(ctl')
<1>1. Kept(ctl) /\ ctl' \in ControlShape
  BY KeptNow DEF ControlInv, Good
<1>2. ctl' = ctl \/ ctl' = Fallback(ctl) \/ Marked(ctl, ctl')
  BY Zenon DEF Minor, Marked
<1> QED BY <1>1, <1>2, KeptFallback, KeptMarks

LEMMA BoundRequest ==
  ASSUME ControlInv, ControlInv', SampleInv, BoundInv, RequestNext
  PROVE  BoundInv'
<1>1. Kept(ctl) /\ Good(ctl)
  BY KeptNow
<1>2. ASSUME NEW r \in Requests, RequeueRequest(r) \/ ReturnRequest(r)
      PROVE  BoundInv'
  <2> DEFINE c == AfterRelease(Invalidated(ctl, r), meta[r])
  <2>1. Kept(c)
    BY <1>1, KeptInvalidated, KeptRelease
  <2>2. UNCHANGED scheduling /\ (ctl' = ctl \/ ctl' = c \/ ctl' = Fallback(c))
    BY <1>2 DEF RequeueRequest, ReturnRequest, workVars, FallbackIf
  <2> HIDE DEF c
  <2> QED BY <1>1, <2>1, <2>2, KeptFallback, BoundKept
<1>3. ASSUME NEW r \in Requests, NEW q, InsertRequest(r, q) \/ IssueRequest(r, q)
      PROVE  BoundInv'
  <2>1. UNCHANGED scheduling /\ Minor(ctl')
    BY <1>3 DEF InsertRequest, IssueRequest, workVars, FallbackIf, Minor
  <2> QED BY <2>1, KeptMinor, BoundKept
<1>4. ASSUME NEW r \in Requests, NEW sched,
             PrepareRequest(r, sched) \/ MergeRequest(r) \/ DemoRefuse(r)
      PROVE  BoundInv'
  <2>1. UNCHANGED <<ctl, scheduling>>
    BY <1>4 DEF PrepareRequest, MergeRequest, DemoRefuse, workVars
  <2> QED BY <1>1, <2>1, BoundKept
<1> QED BY <1>2, <1>3, <1>4, BoundComplete DEF RequestNext

LEMMA BoundDispatch ==
  ASSUME ControlInv, ControlInv', BoundInv, NEW d \in Dispatchers, DispatchNext(d)
  PROVE  BoundInv'
<1>1. UNCHANGED scheduling
  BY DEF DispatchNext, HasWork, HasWorkGate, DispatchModel, ArmModelTimer,
         PickRequest, AccountPicked, workVars
<1>2. CASE ~AccountPicked(d)
  <2>1. Minor(ctl')
    BY <1>2 DEF DispatchNext, HasWork, HasWorkGate, DispatchModel, ArmModelTimer,
                PickRequest, CloseGate, Minor
  <2> QED BY <1>1, <2>1, KeptMinor, BoundKept
<1>3. CASE AccountPicked(d)
  <2>1. PICK c : /\ c = ctl \/ c = Fallback(ctl)
                 /\ \/ ctl' = c
                    \/ ctl' = [c EXCEPT !.bound = pick, !.feedback = "issue",
                                        !.bound_to = c.applied]
    <3>1. PICK c : c = FallbackIf(~priv[pick] \/ AccountFails(meta[pick]), ctl)
      OBVIOUS
    <3>2. c = ctl \/ c = Fallback(ctl)
      BY <3>1 DEF FallbackIf
    <3>3. \/ ctl' = c
          \/ ctl' = [c EXCEPT !.bound = pick, !.feedback = "issue", !.bound_to = c.applied]
      BY Zenon, <1>3, <3>1 DEF AccountPicked
    <3> QED BY Zenon, <3>2, <3>3
  <2>2. Kept(c)
    BY <2>1, KeptNow, KeptFallback
  <2>3. ctl' \in ControlShape
    BY DEF ControlInv, Good
  <2>4. ctl' = c \/ Marked(c, ctl')
    BY Zenon, <2>1 DEF Marked
  <2>5. Kept(ctl')
    BY <2>2, <2>3, <2>4, KeptMarks
  <2> QED BY <1>1, <2>5, BoundKept
<1> QED BY <1>2, <1>3

LEMMA BoundTimers ==
  ASSUME ControlInv, ControlInv', BoundInv,
         \/ ScheduleNext \/ TimerFires \/ TimeoutWork \/ OtherQueueUsesThread
         \/ AdminNext \/ (\E on \in BOOLEAN : SetEnabled(on)) \/ UNCHANGED vars
  PROVE  BoundInv'
<1>1. Minor(ctl')
  BY DEF ScheduleNext, ArmTimer, QueueInference, QueueingFailed, TimerFires,
         TimeoutWork, OtherQueueUsesThread, AdminNext, ResetContext,
         ResetCancelsTimer, ResetCancelsWorks, SwitchDone, SetEnabled, vars,
         FallbackIf, Minor
<1>2. Kept(ctl')
  BY <1>1, KeptMinor
<1>3. CASE ScheduleNext
  <2>1. \E from \in ScheduleSteps : \E to \in (ScheduleSteps \cup {"done"}) \ {from} :
          Schedules(from, to)
    BY <1>3 DEF ScheduleNext, ArmTimer, QueueInference, QueueingFailed, ScheduleSteps
  <2> QED BY <1>2, <2>1, ScheduleMoves
<1>4. CASE ~ScheduleNext
  <2>1. UNCHANGED scheduling
    BY <1>4 DEF TimerFires, TimeoutWork, OtherQueueUsesThread, AdminNext, ResetContext,
                ResetCancelsTimer, ResetCancelsWorks, SwitchDone, SetEnabled, vars,
                workVars
  <2> QED BY <1>2, <2>1, BoundKept
<1> QED BY <1>3, <1>4

LEMMA BoundRunners ==
  ASSUME ControlInv, ControlInv', BoundInv, RunnerNext("wq") \/ ThreadNext
  PROVE  BoundInv'
<1>1. UNCHANGED scheduling
  BY DEF RunnerNext, ThreadNext, ReadDecision, ApplyDecision, ProviderError,
         CancelTimer, ThreadPicksUp, ThreadSnapshots, ThreadReleases, workVars
<1>2. CASE \E w \in Runners, level \in Levels : ApplyDecision(w, level) /\ StillWanted(w)
  <2>1. PICK w \in Runners, level \in Levels : ApplyDecision(w, level) /\ StillWanted(w)
    BY <1>2
  <2>2. Kept(ctl) /\ ctl' \in ControlShape
    BY KeptNow DEF ControlInv, Good
  <2>3. PICK limit \in Nat : limit = TargetDepth(level) /\ limit <= QueueMax
    BY TargetDepthNat, TargetDepthBound, ThrottleAssumption
  <2>4. ctl' = [ctl EXCEPT !.limit = limit, !.valid = TRUE,
                  !.applied = ctl.decision, !.pending = FALSE,
                  !.timed_out = FALSE, !.running = FALSE,
                  !.feedback = "dispatch", !.gate = "none"]
    BY <2>1, <2>3 DEF ApplyDecision, StillWanted
  <2>5. /\ ctl'.limit = limit /\ ctl'.decision = ctl.decision
        /\ ctl'.applied = ctl.decision
        /\ ctl'.bound_to = ctl.bound_to /\ ctl'.votes = ctl.votes
        /\ ctl'.slow_votes = ctl.slow_votes
        /\ ctl'.samples = ctl.samples /\ ctl'.slow = ctl.slow
    BY <2>2, <2>4 DEF Kept, ControlShape
  <2>6. Kept(ctl')
    BY <2>2, <2>3, <2>5 DEF Kept, Bounded
  <2> QED BY <1>1, <2>6, BoundKept
<1>3. CASE ~\E w \in Runners, level \in Levels : ApplyDecision(w, level) /\ StillWanted(w)
  <2>1. Minor(ctl')
    BY <1>3 DEF RunnerNext, ThreadNext, ReadDecision, ApplyDecision, ProviderError,
                CancelTimer, ThreadPicksUp, ThreadSnapshots, ThreadReleases,
                StopRunning, Runners, FallbackIf, Minor
  <2> QED BY <1>1, <2>1, KeptMinor, BoundKept
<1> QED BY <1>2, <1>3

LEMMA BoundNext ==
  ASSUME ControlInv, ControlInv', SampleInv, BoundInv, [ThrottleNext]_vars
  PROVE  BoundInv'
BY BoundRequest, BoundDispatch, BoundTimers, BoundRunners DEF ThrottleNext

LEMMA BoundInvHolds == Spec => []BoundInv
<1>1. Init => BoundInv
  BY ThrottleAssumption DEF Init, BoundInv, Bounded, ScheduleInv, Quiet, ScheduleSteps
<1> QED BY <1>1, BoundNext, ControlInvHolds, SampleInvHolds, PTL DEF Spec

-----------------------------------------------------------------------------
(* The runners' decision numbers, and the variables without a counter.     *)

RunnerInv == \A w \in Runners : infer[w].decision <= MaxDecision

LEMMA RunnerMovesBounded ==
  ASSUME ControlInv, RunnerInv, NEW w \in Runners, NEW i, i.decision <= MaxDecision,
         infer' = [infer EXCEPT ![w] = i]
  PROVE  RunnerInv'
BY DEF ControlInv, RunnersFresh, RunnerInv

LEMMA RunnerGotoBounded ==
  ASSUME ControlInv, RunnerInv, NEW w \in Runners, NEW pc, Goto(w, pc)
  PROVE  RunnerInv'
<1>1. infer[w] \in Inference
  BY DEF ControlInv, RunnersFresh
<1>2. [infer[w] EXCEPT !.pc = pc].decision = infer[w].decision
  BY <1>1 DEF Inference
<1>3. infer' = [infer EXCEPT ![w] = [infer[w] EXCEPT !.pc = pc]]
  BY DEF Goto
<1> QED BY <1>2, <1>3, RunnerMovesBounded DEF RunnerInv

LEMMA RunnerNextBounded ==
  ASSUME ControlInv, BoundInv, RunnerInv, NEW w \in Runners, RunnerNext(w)
  PROVE  RunnerInv'
<1>1. [Asleep EXCEPT !.pc = WhenDone(w)].decision <= MaxDecision
  BY ThrottleAssumption DEF Asleep
<1>2. \/ infer' = [infer EXCEPT ![w] = [Asleep EXCEPT !.pc = WhenDone(w)]]
      \/ Goto(w, "cancel_timer")
      \/ infer' = [infer EXCEPT ![w] =
           [pc |-> "apply", decision |-> ctl.decision,
            source |-> ctl.source, level |-> ctl.level]]
  BY DEF RunnerNext, ReadDecision, ApplyDecision, ProviderError, CancelTimer, StopRunning
<1>3. ctl.decision <= MaxDecision
  BY DEF BoundInv, Bounded
<1> QED BY <1>1, <1>2, <1>3, RunnerMovesBounded, RunnerGotoBounded

LEMMA RunnerInvNext ==
  ASSUME ControlInv, BoundInv, RunnerInv, [ThrottleNext]_vars
  PROVE  RunnerInv'
<1>1. CASE ThreadNext \/ RunnerNext("wq")
  <2>1. [Asleep EXCEPT !.pc = WhenDone("thread")].decision <= MaxDecision
    BY ThrottleAssumption DEF Asleep
  <2>2. CASE ThreadPicksUp \/ ThreadSnapshots \/ ThreadReleases
    <3>1. \/ \E pc : Goto("thread", pc)
          \/ infer' = [infer EXCEPT !["thread"] =
                         [Asleep EXCEPT !.pc = WhenDone("thread")]]
      BY <2>2 DEF ThreadPicksUp, ThreadSnapshots, ThreadReleases, StopRunning
    <3> QED BY <2>1, <3>1, RunnerMovesBounded, RunnerGotoBounded DEF Runners
  <2> QED BY <1>1, <2>2, RunnerNextBounded DEF ThreadNext, Runners
<1>2. CASE ~ThreadNext /\ ~RunnerNext("wq")
  <2>1. CASE RequestNext
    BY <2>1, RequestFrame DEF RunnerInv
  <2>2. CASE ~RequestNext
    <3>1. UNCHANGED infer
      BY <1>2, <2>2 DEF ThrottleNext, DispatchNext, HasWork, HasWorkGate, DispatchModel,
           ArmModelTimer, PickRequest, AccountPicked, ScheduleNext, ArmTimer,
           QueueInference, QueueingFailed, TimerFires, TimeoutWork, OtherQueueUsesThread,
           AdminNext, ResetContext, ResetCancelsTimer, ResetCancelsWorks, SwitchDone,
           SetEnabled, vars, workVars
    <3> QED BY <3>1 DEF RunnerInv
  <2> QED BY <2>1, <2>2
<1> QED BY <1>1, <1>2

(* Sessions are counted by the reset, for which set_enabled has left room. *)
SessionInv ==
  /\ session \in 0 .. MaxSession
  /\ admin.pc = "reset" /\ admin.enable => session < MaxSession
  /\ issue_session \in [Requests -> 0 .. MaxSession]
  /\ refused \subseteq Requests

(* What a handler marks its request with.                                  *)
RequestMarks(r) ==
  /\ \/ issue_session' = issue_session
     \/ issue_session' = [issue_session EXCEPT ![r] = 0]
     \/ issue_session' = [issue_session EXCEPT ![r] = session]
  /\ refused' = refused \/ refused' = refused \cup {r} \/ refused' = refused \ {r}

LEMMA RequestMarked == RequestNext => \E r \in Requests : RequestMarks(r)
<1>1. ASSUME NEW r, NEW sched, PrepareRequest(r, sched) PROVE RequestMarks(r)
  BY <1>1 DEF PrepareRequest, requestVars, RequestMarks
<1>2. ASSUME NEW r, NEW q, InsertRequest(r, q) PROVE RequestMarks(r)
  BY <1>2 DEF InsertRequest, requestVars, RequestMarks
<1>3. ASSUME NEW r, NEW q, IssueRequest(r, q) PROVE RequestMarks(r)
  BY <1>3 DEF IssueRequest, RequestMarks
<1>4. ASSUME NEW r, MergeRequest(r) PROVE RequestMarks(r)
  BY <1>4 DEF MergeRequest, requestVars, RequestMarks
<1>5. ASSUME NEW r, RequeueRequest(r) PROVE RequestMarks(r)
  BY <1>5 DEF RequeueRequest, RequestMarks
<1>6. ASSUME NEW r, DemoRefuse(r) PROVE RequestMarks(r)
  BY <1>6 DEF DemoRefuse, RequestMarks
<1>7. ASSUME NEW r, NEW slow, NEW tight, NEW mean_slow, NEW source, NEW level,
             CompleteRequest(r, slow, tight, mean_slow, source, level)
      PROVE  RequestMarks(r)
  BY <1>7 DEF CompleteRequest, RequestMarks
<1>8. ASSUME NEW r, ReturnRequest(r) PROVE RequestMarks(r)
  BY <1>8 DEF ReturnRequest, requestVars, RequestMarks
<1> QED BY <1>1, <1>2, <1>3, <1>4, <1>5, <1>6, <1>7, <1>8 DEF RequestNext

LEMMA SessionNext ==
  ASSUME ControlInv, SessionInv, [ThrottleNext]_vars
  PROVE  SessionInv'
<1>1. admin \in [pc : {"idle", "reset", "timer", "works", "last"}, enable : BOOLEAN]
  BY DEF ControlInv, SwitchInv
<1>2. session \in Nat /\ MaxSession \in Nat
  BY ThrottleAssumption DEF SessionInv
<1>3. CASE RequestNext
  <2>1. UNCHANGED <<session, admin>>
    BY <1>3, RequestFrame DEF configVars
  <2>2. /\ issue_session' \in [Requests -> 0 .. MaxSession]
        /\ refused' \subseteq Requests
    <3>1. \E r \in Requests : RequestMarks(r)
      BY <1>3, RequestMarked
    <3> QED BY <1>2, <3>1 DEF SessionInv, RequestMarks
  <2> QED BY <2>1, <2>2 DEF SessionInv
<1>4. CASE ResetContext
  <2>1. UNCHANGED <<issue_session, refused>> /\ admin'.pc = "timer"
    BY <1>1, <1>4 DEF ResetContext, requestVars
  <2>2. session' \in 0 .. MaxSession
    BY <1>2, <1>4 DEF ResetContext, SessionInv
  <2> QED BY <2>1, <2>2 DEF SessionInv
<1>5. CASE \E on \in BOOLEAN : SetEnabled(on)
  <2>1. PICK on \in BOOLEAN : /\ on => session < MaxSession
                              /\ admin' = [pc |-> "reset", enable |-> on]
    BY <1>5 DEF SetEnabled
  <2>2. UNCHANGED <<session, issue_session, refused>>
    BY <1>5 DEF SetEnabled, requestVars
  <2> QED BY <2>1, <2>2 DEF SessionInv
<1>6. CASE ResetCancelsTimer \/ ResetCancelsWorks \/ SwitchDone
  <2>1. UNCHANGED <<session, issue_session, refused>> /\ admin'.pc # "reset"
    BY <1>1, <1>6 DEF ResetCancelsTimer, ResetCancelsWorks, SwitchDone, requestVars
  <2> QED BY <2>1 DEF SessionInv
<1>7. CASE ~RequestNext /\ ~AdminNext /\ ~\E on \in BOOLEAN : SetEnabled(on)
  <2>1. UNCHANGED <<session, admin, issue_session, refused>>
    BY <1>7 DEF ThrottleNext, DispatchNext, HasWork, HasWorkGate, DispatchModel,
         ArmModelTimer, PickRequest, AccountPicked, ScheduleNext, ArmTimer,
         QueueInference, QueueingFailed, TimerFires, TimeoutWork, OtherQueueUsesThread,
         RunnerNext, ThreadNext, ReadDecision, ApplyDecision, ProviderError,
         CancelTimer, ThreadPicksUp, ThreadSnapshots, ThreadReleases,
         vars, configVars, requestVars
  <2> QED BY <2>1 DEF SessionInv
<1> QED BY <1>3, <1>4, <1>5, <1>6, <1>7 DEF AdminNext

WorkInv ==
  /\ kick \in BOOLEAN
  /\ pick \in Requests \cup {None}
  /\ timer \in BOOLEAN /\ timeout_work \in BOOLEAN /\ inference_work \in BOOLEAN
  /\ slot \in {"free", "queued", "running", "other"}

LEMMA WorkNext ==
  ASSUME WorkInv, [ThrottleNext]_vars
  PROVE  WorkInv'
<1>1. CASE RequestNext
  <2>1. UNCHANGED <<timer, timeout_work, inference_work, slot>> /\ kick' \in BOOLEAN
    <3>1. ASSUME NEW r, NEW sched,
                 PrepareRequest(r, sched) \/ MergeRequest(r) \/ DemoRefuse(r)
          PROVE  UNCHANGED <<kick, workVars>>
      BY <3>1 DEF PrepareRequest, MergeRequest, DemoRefuse, dispatchVars
    <3>2. ASSUME NEW r, NEW q,
                 \/ InsertRequest(r, q) \/ IssueRequest(r, q)
                 \/ RequeueRequest(r) \/ ReturnRequest(r)
          PROVE  UNCHANGED workVars /\ kick' \in BOOLEAN
      BY <3>2 DEF WorkInv, InsertRequest, IssueRequest, RequeueRequest, ReturnRequest, KickIf
    <3>3. ASSUME NEW r, NEW slow, NEW tight, NEW mean_slow, NEW source, NEW level,
                 CompleteRequest(r, slow, tight, mean_slow, source, level)
          PROVE  UNCHANGED <<timer, timeout_work, inference_work, slot>> /\ kick' \in BOOLEAN
      BY <3>3 DEF WorkInv, CompleteRequest, KickIf
    <3>4. \/ UNCHANGED workVars /\ (kick' \in BOOLEAN \/ kick' = kick)
          \/ UNCHANGED <<timer, timeout_work, inference_work, slot>> /\ kick' \in BOOLEAN
      BY <1>1, <3>1, <3>2, <3>3 DEF RequestNext
    <3> QED BY <3>4 DEF WorkInv, workVars
  <2>2. UNCHANGED pick
    BY <1>1, RequestFrame
  <2> QED BY <2>1, <2>2 DEF WorkInv
<1>2. CASE \E d \in Dispatchers : DispatchNext(d)
  <2>1. UNCHANGED <<timeout_work, inference_work>> /\ timer' \in BOOLEAN
    BY <1>2 DEF DispatchNext, HasWork, HasWorkGate, DispatchModel, ArmModelTimer,
         PickRequest, AccountPicked, workVars, WorkInv
  <2>2. slot' = slot \/ slot' = "queued"
    BY <1>2 DEF DispatchNext, HasWork, HasWorkGate, DispatchModel, ArmModelTimer,
         PickRequest, AccountPicked, workVars
  <2>3. kick' \in BOOLEAN
    BY <1>2 DEF DispatchNext, HasWork, HasWorkGate, DispatchModel, ArmModelTimer,
         PickRequest, AccountPicked, WorkInv, KickIf
  <2>4. pick' \in Requests \cup {None}
    BY <1>2 DEF DispatchNext, HasWork, HasWorkGate, DispatchModel, ArmModelTimer,
         PickRequest, AccountPicked, WorkInv, QueuedIn
  <2> QED BY <2>1, <2>2, <2>3, <2>4 DEF WorkInv
<1>3. CASE ~RequestNext /\ ~\E d \in Dispatchers : DispatchNext(d)
  <2>1. UNCHANGED pick
    BY <1>3 DEF ThrottleNext, ScheduleNext, ArmTimer, QueueInference, QueueingFailed,
         TimerFires, TimeoutWork, OtherQueueUsesThread, RunnerNext, ThreadNext,
         ReadDecision, ApplyDecision, ProviderError, CancelTimer, ThreadPicksUp,
         ThreadSnapshots, ThreadReleases, AdminNext, ResetContext, ResetCancelsTimer,
         ResetCancelsWorks, SwitchDone, SetEnabled, vars, dispatchVars
  <2>2. slot' \in {"free", "queued", "running", "other"}
    BY <1>3 DEF ThrottleNext, ScheduleNext, ArmTimer, QueueInference, QueueingFailed,
         TimerFires, TimeoutWork, OtherQueueUsesThread, RunnerNext, ThreadNext,
         ReadDecision, ApplyDecision, ProviderError, CancelTimer, ThreadPicksUp,
         ThreadSnapshots, ThreadReleases, AdminNext, ResetContext, ResetCancelsTimer,
         ResetCancelsWorks, SwitchDone, SetEnabled, vars, workVars, WorkInv
  <2>3. /\ kick' \in BOOLEAN /\ timer' \in BOOLEAN
        /\ timeout_work' \in BOOLEAN /\ inference_work' \in BOOLEAN
    <3>1. CASE ScheduleNext
      BY <3>1 DEF ScheduleNext, ArmTimer, QueueInference, QueueingFailed, KickIf,
                  dispatchVars, WorkInv
    <3>2. CASE TimerFires
      <4>1. timer' = FALSE /\ timeout_work' = (timeout_work \/ ctl.pending)
            /\ UNCHANGED <<kick, inference_work>>
        BY <3>2 DEF TimerFires, dispatchVars
      <4> QED BY <4>1 DEF WorkInv
    <3>3. CASE TimeoutWork \/ OtherQueueUsesThread
      BY <3>3 DEF TimeoutWork, OtherQueueUsesThread, KickIf, dispatchVars, WorkInv
    <3>4. CASE RunnerNext("wq") \/ ThreadNext
      BY <3>4 DEF RunnerNext, ThreadNext, ReadDecision, ApplyDecision, ProviderError,
                  CancelTimer, ThreadPicksUp, ThreadSnapshots, ThreadReleases, KickIf,
                  dispatchVars, WorkInv
    <3>5. CASE AdminNext \/ (\E on \in BOOLEAN : SetEnabled(on)) \/ UNCHANGED vars
      BY <3>5 DEF AdminNext, ResetContext, ResetCancelsTimer, ResetCancelsWorks,
                  SwitchDone, SetEnabled, vars, workVars, dispatchVars, WorkInv
    <3> QED BY <1>3, <3>1, <3>2, <3>3, <3>4, <3>5 DEF ThrottleNext
  <2> QED BY <2>1, <2>2, <2>3 DEF WorkInv
<1> QED BY <1>1, <1>2, <1>3

-----------------------------------------------------------------------------

LEMMA ThrottleTyped ==
  ASSUME AccountingTypeOK, LockInv, ControlInv, BoundInv, RunnerInv, SessionInv, WorkInv
  PROVE  ThrottleTypeOK
<1>1. ctl \in Control
  BY BoundedControl DEF ControlInv, Good, BoundInv
<1>2. scheduling \in [ScheduleSteps -> 0 .. MaxDecision]
  <2>1. ctl.decision \in Nat /\ ctl.decision <= MaxDecision
    BY DEF ControlInv, Good, ControlShape, BoundInv, Bounded
  <2>2. /\ scheduling["timer"] \in Nat /\ scheduling["work"] \in Nat
        /\ scheduling["failed"] \in Nat
        /\ scheduling["timer"] + scheduling["work"] + scheduling["failed"] <= ctl.decision
    BY DEF BoundInv, ScheduleInv, ScheduleSteps
  <2>3. \A step \in ScheduleSteps : scheduling[step] \in 0 .. MaxDecision
    BY <2>1, <2>2, ThrottleAssumption DEF ScheduleSteps
  <2> QED BY <2>3 DEF BoundInv, ScheduleInv
<1>3. infer \in [Runners ->
       [pc : {"idle", "run", "read", "apply", "cancel_timer", "release"},
        decision : 0 .. MaxDecision, source : {"FIXED", "MODEL"}, level : AllLevels]]
  <2>1. ASSUME NEW w \in Runners
        PROVE  infer[w] \in
                 [pc : {"idle", "run", "read", "apply", "cancel_timer", "release"},
                  decision : 0 .. MaxDecision, source : {"FIXED", "MODEL"},
                  level : AllLevels]
    <3>1. infer[w] \in Inference /\ infer[w].decision <= MaxDecision
      BY DEF ControlInv, RunnersFresh, RunnerInv
    <3>2. infer[w].decision \in 0 .. MaxDecision
      BY <3>1, ThrottleAssumption DEF Inference
    <3> QED BY <3>1, <3>2 DEF Inference
  <2> QED BY <2>1 DEF ControlInv, RunnersFresh
<1>4. {timer, timeout_work, inference_work} \subseteq BOOLEAN /\ kick \in BOOLEAN
  BY DEF WorkInv
<1>5. /\ dpc \in [Dispatchers -> {"idle", "has_work", "has_work_gate", "model",
                                "arm_timer", "pick", "account"}]
      /\ pick \in Requests \cup {None}
      /\ slot \in {"free", "queued", "running", "other"}
  BY DEF LockInv, DispatchSteps, WorkInv
<1>6. /\ enabled \in BOOLEAN
      /\ admin \in [pc : {"idle", "reset", "timer", "works", "last"}, enable : BOOLEAN]
  BY DEF ControlInv, SwitchInv
<1>7. /\ session \in 0 .. MaxSession
      /\ issue_session \in [Requests -> 0 .. MaxSession]
      /\ refused \subseteq Requests
  BY DEF SessionInv
<1> QED BY <1>1, <1>2, <1>3, <1>4, <1>5, <1>6, <1>7 DEF ThrottleTypeOK

LEMMA ThrottleTypesHold == Spec => []ThrottleTypeOK
<1>1. Init => RunnerInv /\ SessionInv /\ WorkInv
  <2> SUFFICES ASSUME Init PROVE RunnerInv /\ SessionInv /\ WorkInv
    OBVIOUS
  <2>1. RunnerInv
    BY ThrottleAssumption DEF Init, RunnerInv, Asleep
  <2>2. SessionInv
    BY ThrottleAssumption DEF Init, SessionInv
  <2>3. WorkInv
    BY DEF Init, WorkInv
  <2> QED BY <2>1, <2>2, <2>3
<1>2. Spec => []AccountingTypeOK
  BY ThrottleImplementsAccounting, AccountingTypeCorrect, PTL
<1> QED BY <1>1, <1>2, ThrottleTyped, RunnerInvNext, SessionNext, WorkNext,
           LockInvHolds, ControlInvHolds, BoundInvHolds, PTL DEF Spec

(* Every field of the throttle keeps its type, the votes and the window    *)
(* never exceed their arrays, and feedback_meta names the live request it  *)
(* was bound to.                                                           *)
THEOREM ThrottleFeedbackConsistent == Spec => []FeedbackConsistent
BY ThrottleTypesHold, ThrottleFeedbackMatches, PTL DEF FeedbackConsistent

-----------------------------------------------------------------------------
(***************************************************************************)
(* The two invariants that progress of Throttle rests on, for every value  *)
(* of its constants: a decision that waits for its inference has somebody  *)
(* on the way who ends it (PendingHasResolver), and a request that waits   *)
(* in the elevator has a run of the queues to come or a closed gate whose  *)
(* opening brings one (NoLostWakeup).                                      *)
(*                                                                         *)
(* The timer is no part of the first argument, as any runner cancels it,   *)
(* whosever decision it was armed for: the chain of a FIXED decision is    *)
(* the completion that schedules it, the work item and its runner; that of *)
(* a MODEL decision is the thread's slot and its runner; and a decision    *)
(* that timed out has its timeout work queued.                             *)
(***************************************************************************)

Scheduled == \E step \in ScheduleSteps : scheduling[step] > 0
(* A runner is about to apply what is pending.                             *)
Applying(inf, c) == \E w \in Runners : inf[w].pc = "apply" /\ inf[w].decision = c.decision
ThreadBusy(inf) == inf["thread"].pc # "idle"

FixedChain ==
  Scheduled \/ inference_work \/ Applying(infer, ctl) \/ ctl.timed_out
ModelChain ==
  \/ slot = "queued" \/ infer["thread"].pc \in {"run", "read"}
  \/ infer["thread"].pc = "apply" /\ infer["thread"].decision = ctl.decision
  \/ ctl.timed_out

ResolverInv ==
  /\ ctl.timed_out => timeout_work
  /\ ThreadBusy(infer) => slot = "running"
  /\ ctl.pending /\ ctl.source = "FIXED" => ctl.state_valid /\ FixedChain
  /\ ctl.running => ModelChain

(* d leaves the pending decision of c as it is, or nothing is pending.     *)
Same(c, d) ==
  \/ ~d.pending /\ ~d.running /\ ~d.timed_out
  \/ /\ d.pending = c.pending /\ d.source = c.source /\ d.decision = c.decision
     /\ d.state_valid = c.state_valid /\ d.timed_out = c.timed_out
     /\ d.running = c.running

LEMMA SameRefl == \A c : Same(c, c)
BY DEF Same

LEMMA SameTrans ==
  ASSUME NEW c, NEW d, NEW e, Same(c, d), Same(d, e)
  PROVE  Same(c, e)
BY DEF Same

LEMMA SameFallback == \A c, d : Same(c, Fallback(d))
BY DEF Same, Fallback, Quiet

LEMMA SameFallbackIf == \A c, failed : Same(c, FallbackIf(failed, c))
BY SameFallback, SameRefl DEF FallbackIf

LEMMA SameRelease ==
  ASSUME NEW c \in ControlShape, NEW m
  PROVE  Same(c, AfterRelease(c, m))
<1>1. Same(c, [c EXCEPT !.gate = "none"])
  BY DEF ControlShape, Same
<1> QED BY <1>1, SameFallback, SameRefl DEF AfterRelease, GateReleased

LEMMA SameInvalidated ==
  ASSUME NEW c \in ControlShape, NEW r
  PROVE  Same(c, Invalidated(c, r))
BY DEF ControlShape, Same, Invalidated, Unbound

LEMMA SameSampled ==
  ASSUME NEW c \in ControlShape, NEW slow, NEW tight
  PROVE  Same(c, Sampled(c, slow, tight))
BY DEF ControlShape, Same, Sampled

LEMMA SameVoted ==
  ASSUME NEW c \in ControlShape, NEW slow \in BOOLEAN
  PROVE  LET d == [Unbound(c) EXCEPT !.votes = @ + 1,
                                     !.slow_votes = IF slow THEN @ + 1 ELSE @]
         IN  d \in ControlShape /\ Same(c, d)
<1> DEFINE d == [Unbound(c) EXCEPT !.votes = @ + 1,
                                   !.slow_votes = IF slow THEN @ + 1 ELSE @]
<1>1. PICK v \in Nat, sv \in Nat :
        d = [c EXCEPT !.bound = None, !.bound_to = 0, !.feedback = "none",
                      !.votes = v, !.slow_votes = sv]
  <2>1. c.votes + 1 \in Nat /\ c.slow_votes \in Nat /\ c.slow_votes + 1 \in Nat
    BY DEF ControlShape
  <2>2. CASE slow
    BY <2>1, <2>2 DEF Unbound, ControlShape
  <2>3. CASE ~slow
    BY <2>1, <2>3 DEF Unbound, ControlShape
  <2> QED BY <2>2, <2>3
<1> HIDE DEF d
<1>2. d \in ControlShape
  BY <1>1 DEF ControlShape
<1>3. Same(c, d)
  BY <1>1 DEF ControlShape, Same
<1> QED BY <1>2, <1>3 DEF d

(* A step that leaves the pending decision and its chain alone.            *)
LEMMA ResolverStep ==
  ASSUME ResolverInv, Same(ctl, ctl'), UNCHANGED <<inference_work, infer, slot>>,
         Scheduled => Scheduled', timeout_work => timeout_work'
  PROVE  ResolverInv'
<1>1. CASE ~ctl'.pending /\ ~ctl'.running /\ ~ctl'.timed_out
  BY <1>1 DEF ResolverInv, ThreadBusy
<1>2. CASE /\ ctl'.pending = ctl.pending /\ ctl'.source = ctl.source
           /\ ctl'.decision = ctl.decision /\ ctl'.state_valid = ctl.state_valid
           /\ ctl'.timed_out = ctl.timed_out /\ ctl'.running = ctl.running
  <2>1. FixedChain => FixedChain'
    BY <1>2 DEF FixedChain, Applying
  <2>2. ModelChain => ModelChain'
    BY <1>2 DEF ModelChain
  <2> QED BY <1>2, <2>1, <2>2 DEF ResolverInv, ThreadBusy
<1> QED BY <1>1, <1>2 DEF Same

LEMMA ResolverStill ==
  ASSUME ResolverInv, Same(ctl, ctl'),
         UNCHANGED <<inference_work, infer, slot, scheduling, timeout_work>>
  PROVE  ResolverInv'
BY ResolverStep DEF Scheduled

-----------------------------------------------------------------------------
(* The handlers of requests: only a completion starts a decision, and puts *)
(* itself at the head of the chain.                                        *)

LEMMA ResolverComplete ==
  ASSUME ControlInv, ResolverInv, NEW r \in Requests,
         NEW slow \in BOOLEAN, NEW tight \in BOOLEAN, NEW mean_slow \in BOOLEAN,
         NEW source \in Sources, NEW level \in Levels, scheduling \in [ScheduleSteps -> Nat],
         CompleteRequest(r, slow, tight, mean_slow, source, level)
  PROVE  ResolverInv'
<1> DEFINE m == meta[r]
           c1 == IF Sampling(r) THEN Sampled(ctl, slow, tight) ELSE ctl
           trigger == Sampling(r) /\ ~c1.active /\ ~c1.pending /\ WindowSlow(c1)
           c2 == [Unbound(c1) EXCEPT !.votes = @ + 1,
                                     !.slow_votes = IF slow THEN @ + 1 ELSE @]
           last == Voting(r) /\ c2.votes = FeedbackMax
           again == last /\ MeanSlow(c2, mean_slow)
           recovered == last /\ ~again
           c3 == IF ~Voting(r) THEN Invalidated(c1, r)
                 ELSE IF recovered THEN Fallback(c2)
                 ELSE IF again THEN c2
                 ELSE [c2 EXCEPT !.feedback = "dispatch"]
           c4 == FallbackIf(meta_inuse = 0, AfterRelease(c3, m))
           starts == (trigger \/ again) /\ CanStart(c4, source)
           gives_up == again /\ ~starts
<1>1. ctl \in ControlShape /\ Good(ctl)
  BY DEF ControlInv, Good
<1>2. UNCHANGED <<inference_work, infer, slot, timeout_work>>
  BY DEF CompleteRequest
<1>3. CASE ~m.held
  <2>1. UNCHANGED <<ctl, scheduling>>
    BY <1>3 DEF CompleteRequest
  <2> QED BY <1>2, <2>1, SameRefl, ResolverStill
<1>4. CASE m.held
  <2>1. /\ ctl' = IF starts THEN Started(c4, source, level) ELSE FallbackIf(gives_up, c4)
        /\ scheduling' = IF starts /\ source = "FIXED"
                           THEN [scheduling EXCEPT !["timer"] = @ + 1] ELSE scheduling
    BY <1>4 DEF CompleteRequest
  <2>2. Good(c1) /\ Same(ctl, c1)
    <3>1. Good(Sampled(ctl, slow, tight)) /\ Same(ctl, Sampled(ctl, slow, tight))
      BY <1>1, SampledTame, SameSampled DEF Tame
    <3> QED BY <1>1, <3>1, SameRefl
  <2>3. c2 \in ControlShape /\ Same(ctl, c2)
    <3> HIDE DEF c1
    <3>1. c2 \in ControlShape /\ Same(c1, c2)
      BY <2>2, SameVoted DEF Good
    <3> HIDE DEF c2
    <3> QED BY <2>2, <3>1, SameTrans
  <2>4. c3 \in ControlShape /\ Same(ctl, c3)
    <3> HIDE DEF c1, c2
    <3>1. CASE ~Voting(r)
      <4>1. Invalidated(c1, r) \in ControlShape /\ Same(c1, Invalidated(c1, r))
        BY <2>2, InvalidatedTame, SameInvalidated DEF Good, Tame
      <4> QED BY <2>2, <3>1, <4>1, SameTrans
    <3>2. Fallback(c2) \in ControlShape /\ Same(ctl, Fallback(c2))
      BY <2>3, FallbackShape, SameFallback
    <3>3. [c2 EXCEPT !.feedback = "dispatch"] \in ControlShape
      BY <2>3 DEF ControlShape
    <3>4. Same(c2, [c2 EXCEPT !.feedback = "dispatch"])
      BY <2>3 DEF ControlShape, Same
    <3>5. Same(ctl, [c2 EXCEPT !.feedback = "dispatch"])
      BY <2>3, <3>4, SameTrans
    <3> QED BY <2>3, <3>1, <3>2, <3>3, <3>5
  <2>5. c4 \in ControlShape /\ Same(ctl, c4)
    <3> HIDE DEF c3, m
    <3>1. AfterRelease(c3, m) \in ControlShape /\ Same(ctl, AfterRelease(c3, m))
      BY <2>4, AfterReleaseShape, SameRelease, SameTrans
    <3> QED BY <3>1, FallbackShape, SameFallback DEF FallbackIf
  <2>6. CASE ~starts
    <3> HIDE DEF c4, starts, gives_up
    <3>1. Same(ctl, ctl') /\ UNCHANGED scheduling
      BY <2>1, <2>5, <2>6, SameFallback DEF FallbackIf
    <3> QED BY <1>2, <3>1, ResolverStill
  <2>7. CASE starts
    <3> HIDE DEF c4, starts
    <3>1. /\ ctl'.running = FALSE /\ ctl'.timed_out = FALSE /\ ctl'.source = source
          /\ ctl'.state_valid = (source = "FIXED")
      BY <2>1, <2>5, <2>7 DEF Started, NoFeedback, Unbound, ControlShape
    <3>2. source = "FIXED" => Scheduled'
      <4> SUFFICES ASSUME source = "FIXED" PROVE Scheduled'
        OBVIOUS
      <4>1. scheduling["timer"] \in Nat /\ scheduling'["timer"] = scheduling["timer"] + 1
        BY <2>1, <2>7 DEF ScheduleSteps
      <4>2. scheduling'["timer"] > 0
        BY <4>1
      <4> QED BY <4>2 DEF Scheduled, ScheduleSteps
    <3> QED BY <1>2, <3>1, <3>2 DEF ResolverInv, ThreadBusy, FixedChain
  <2> QED BY <2>6, <2>7
<1> QED BY <1>3, <1>4

LEMMA ResolverRequest ==
  ASSUME ControlInv, BoundInv, ResolverInv, RequestNext
  PROVE  ResolverInv'
<1>1. ctl \in ControlShape
  BY DEF ControlInv, Good
<1>2. ASSUME NEW r \in Requests, NEW sched \in BOOLEAN, PrepareRequest(r, sched)
      PROVE  ResolverInv'
  BY <1>2, SameRefl, ResolverStill DEF PrepareRequest, workVars
<1>3. ASSUME NEW r \in Requests, NEW q \in Queues, InsertRequest(r, q) PROVE ResolverInv'
  <2>1. Same(ctl, ctl')
    BY <1>3, SameFallback, SameRefl DEF InsertRequest, FallbackIf
  <2> QED BY <1>3, <2>1, ResolverStill DEF InsertRequest, workVars
<1>4. ASSUME NEW r \in Requests, NEW q \in Queues, IssueRequest(r, q) PROVE ResolverInv'
  <2>1. \/ ctl' = Fallback(ctl) \/ ctl' = ctl
        \/ ctl' = [ctl EXCEPT !.feedback = "complete"]
    BY <1>4 DEF IssueRequest
  <2>2. Same(ctl, [ctl EXCEPT !.feedback = "complete"])
    BY <1>1 DEF ControlShape, Same
  <2>3. Same(ctl, ctl')
    BY <2>1, <2>2, SameFallback, SameRefl
  <2> QED BY <1>4, <2>3, ResolverStill DEF IssueRequest, workVars
<1>5. ASSUME NEW r \in Requests, MergeRequest(r) \/ DemoRefuse(r) PROVE ResolverInv'
  BY <1>5, SameRefl, ResolverStill DEF MergeRequest, DemoRefuse, workVars
<1>6. ASSUME NEW r \in Requests, RequeueRequest(r) \/ ReturnRequest(r)
      PROVE  ResolverInv'
  <2> DEFINE c == Invalidated(ctl, r)
  <2>1. c \in ControlShape /\ Same(ctl, c)
    BY <1>1, InvalidatedTame, SameInvalidated DEF ControlInv, Good, Tame
  <2> HIDE DEF c
  <2>2. Same(ctl, AfterRelease(c, meta[r]))
    BY <2>1, SameRelease, SameTrans
  <2>3. \/ ctl' = ctl \/ ctl' = AfterRelease(c, meta[r])
        \/ ctl' = Fallback(AfterRelease(c, meta[r]))
    BY <1>6 DEF RequeueRequest, ReturnRequest, FallbackIf, c
  <2>4. Same(ctl, ctl')
    BY <2>2, <2>3, SameFallback, SameRefl
  <2> QED BY <1>6, <2>4, ResolverStill DEF RequeueRequest, ReturnRequest, workVars
<1>7. ASSUME NEW r \in Requests, NEW slow \in BOOLEAN, NEW tight \in BOOLEAN,
             NEW mean_slow \in BOOLEAN, NEW source \in Sources, NEW level \in Levels,
             CompleteRequest(r, slow, tight, mean_slow, source, level)
      PROVE  ResolverInv'
  BY <1>7, ResolverComplete DEF BoundInv, ScheduleInv
<1> QED
  BY <1>2, <1>3, <1>4, <1>5, <1>6, <1>7 DEF RequestNext

-----------------------------------------------------------------------------
(* The dispatch path hands a MODEL decision to the thread, whose slot is   *)
(* free only while the thread is idle.                                     *)

LEMMA SameClosed == ASSUME ctl \in ControlShape, CloseGate PROVE Same(ctl, ctl')
<1>1. \A g : Same(ctl, [ctl EXCEPT !.gate = g])
  BY DEF ControlShape, Same
<1> QED BY <1>1, SameRefl DEF CloseGate

LEMMA ResolverDispatch ==
  ASSUME ControlInv, ResolverInv, NEW d \in Dispatchers, DispatchNext(d)
  PROVE  ResolverInv'
<1>1. ctl \in ControlShape
  BY DEF ControlInv, Good
<1>2. CASE HasWork(d) \/ ArmModelTimer(d)
  <2>1. UNCHANGED <<ctl, inference_work, infer, slot, scheduling, timeout_work>>
    BY <1>2 DEF HasWork, ArmModelTimer, workVars
  <2> QED BY <2>1, SameRefl, ResolverStill
<1>3. CASE HasWorkGate(d) \/ PickRequest(d)
  <2>1. UNCHANGED <<inference_work, infer, slot, scheduling, timeout_work>>
    BY <1>3 DEF HasWorkGate, PickRequest, workVars
  <2>2. CloseGate \/ UNCHANGED ctl
    BY <1>3 DEF HasWorkGate, PickRequest
  <2> QED BY <1>1, <2>1, <2>2, SameClosed, SameRefl, ResolverStill
<1>4. CASE DispatchModel(d)
  <2>1. UNCHANGED <<inference_work, infer, scheduling, timeout_work>>
    BY <1>4 DEF DispatchModel
  <2>2. CASE UNCHANGED slot
    <3>1. ctl' = ctl \/ ctl' = Fallback(ctl)
      BY <1>4, <2>2 DEF DispatchModel
    <3> QED BY <2>1, <2>2, <3>1, SameRefl, SameFallback, ResolverStill
  <2>3. CASE ~UNCHANGED slot
    <3>1. /\ slot = "free" /\ slot' = "queued" /\ ctl.source = "MODEL"
          /\ ctl' = [ctl EXCEPT !.running = TRUE]
      BY <1>4, <2>3 DEF DispatchModel, ModelNeeded
    <3>2. ctl'.source = "MODEL" /\ ctl'.timed_out = ctl.timed_out
      BY <1>1, <3>1 DEF ControlShape
    <3> QED BY <2>1, <3>1, <3>2 DEF ResolverInv, ThreadBusy, ModelChain
  <2> QED BY <2>2, <2>3
<1>5. CASE AccountPicked(d)
  <2>1. UNCHANGED <<inference_work, infer, slot, scheduling, timeout_work>>
    BY <1>5 DEF AccountPicked, workVars
  <2>2. PICK c : /\ c = ctl \/ c = Fallback(ctl)
                 /\ \/ ctl' = c
                    \/ ctl' = [c EXCEPT !.bound = pick, !.feedback = "issue",
                                        !.bound_to = c.applied]
    <3>1. FallbackIf(~priv[pick] \/ AccountFails(meta[pick]), ctl) \in {ctl, Fallback(ctl)}
      BY DEF FallbackIf
    <3> QED BY <1>5, <3>1 DEF AccountPicked
  <2>3. c \in ControlShape /\ Same(ctl, c)
    BY <1>1, <2>2, FallbackShape, SameFallback, SameRefl
  <2>4. Same(c, ctl')
    <3>1. CASE ctl' = c
      BY <3>1, SameRefl
    <3>2. CASE ctl' = [c EXCEPT !.bound = pick, !.feedback = "issue", !.bound_to = c.applied]
      <4>1. c \in ControlShape
        BY <2>3
      <4> QED BY <3>2, <4>1 DEF ControlShape, Same
    <3> QED BY <2>2, <3>1, <3>2
  <2> QED BY <2>1, <2>3, <2>4, SameTrans, ResolverStill
<1> QED BY <1>2, <1>3, <1>4, <1>5 DEF DispatchNext

-----------------------------------------------------------------------------
(* The chain of a FIXED decision: scheduled, queued, taken up.             *)

LEMMA ResolverSchedule ==
  ASSUME ControlInv, BoundInv, ResolverInv, ScheduleNext
  PROVE  ResolverInv'
<1>1. /\ scheduling["timer"] \in Nat /\ scheduling["work"] \in Nat
      /\ scheduling["failed"] \in Nat
  BY DEF BoundInv, ScheduleInv, ScheduleSteps
<1>2. CASE ArmTimer
  <2>1. UNCHANGED <<ctl, inference_work, infer, slot, timeout_work>>
    BY <1>2 DEF ArmTimer
  <2>2. scheduling'["work"] = scheduling["work"] + 1
    BY <1>1, <1>2 DEF ArmTimer, Schedules, ScheduleSteps
  <2>3. Scheduled'
    <3>1. scheduling'["work"] > 0
      BY <1>1, <2>2
    <3> QED BY <3>1 DEF Scheduled, ScheduleSteps
  <2> QED BY <2>1, <2>3, SameRefl, ResolverStep
<1>3. CASE QueueInference
  <2>1. UNCHANGED <<ctl, infer, slot, timeout_work>> /\ inference_work' = TRUE
    BY <1>3 DEF QueueInference
  <2> QED BY <2>1 DEF ResolverInv, ThreadBusy, FixedChain, ModelChain
<1>4. CASE QueueingFailed
  <2>1. UNCHANGED <<inference_work, infer, slot, timeout_work>>
        /\ ctl' = FallbackIf(ctl.pending, ctl)
    BY <1>4 DEF QueueingFailed
  <2>2. ~ctl'.pending /\ ~ctl'.running /\ ~ctl'.timed_out
    BY <2>1 DEF FallbackIf, Fallback, Quiet, ControlInv, Good, Consistent
  <2> QED BY <2>1, <2>2 DEF ResolverInv, ThreadBusy
<1> QED BY <1>2, <1>3, <1>4 DEF ScheduleNext

LEMMA ResolverTimers ==
  ASSUME ControlInv, ResolverInv, TimerFires \/ TimeoutWork \/ OtherQueueUsesThread
  PROVE  ResolverInv'
<1>1. ctl \in ControlShape
  BY DEF ControlInv, Good
<1>2. CASE TimerFires
  <2>1. UNCHANGED <<inference_work, infer, slot, scheduling>>
    BY <1>2 DEF TimerFires
  <2>2. CASE ~ctl.pending
    <3>1. UNCHANGED ctl /\ ~ctl.running /\ ~ctl.timed_out
      BY <1>2, <2>2 DEF TimerFires, ControlInv, Good, Consistent
    <3> QED BY <2>1, <2>2, <3>1 DEF ResolverInv, ThreadBusy
  <2>3. CASE ctl.pending
    <3>1. ctl' = [ctl EXCEPT !.timed_out = TRUE] /\ timeout_work'
      BY <1>2, <2>3 DEF TimerFires
    <3>2. /\ ctl'.timed_out /\ ctl'.pending = ctl.pending /\ ctl'.source = ctl.source
          /\ ctl'.state_valid = ctl.state_valid
      BY <1>1, <3>1 DEF ControlShape
    <3> QED BY <2>1, <3>1, <3>2 DEF ResolverInv, ThreadBusy, FixedChain, ModelChain
  <2> QED BY <2>2, <2>3
<1>3. CASE TimeoutWork
  <2>1. UNCHANGED <<inference_work, infer, slot, scheduling>>
        /\ ctl' = FallbackIf(ctl.pending /\ ctl.timed_out, ctl)
    BY <1>3 DEF TimeoutWork
  <2>2. ctl.timed_out => ctl.pending
    BY DEF ControlInv, Good, Consistent
  <2>3. CASE ctl.timed_out
    BY <2>1, <2>2, <2>3 DEF FallbackIf, Fallback, Quiet, ResolverInv, ThreadBusy
  <2>4. CASE ~ctl.timed_out
    <3>1. UNCHANGED <<ctl, inference_work, infer, slot, scheduling>>
      BY <2>1, <2>4 DEF FallbackIf
    <3> QED BY <2>4, <3>1 DEF ResolverInv, ThreadBusy, FixedChain, Applying,
                               ModelChain, Scheduled
  <2> QED BY <2>3, <2>4
<1>4. CASE OtherQueueUsesThread
  <2>1. UNCHANGED <<ctl, inference_work, infer, scheduling, timeout_work>>
        /\ slot \notin {"queued", "running"}
    BY <1>4 DEF OtherQueueUsesThread
  <2> QED BY <2>1 DEF ResolverInv, ThreadBusy, FixedChain, Applying, ModelChain, Scheduled
<1> QED BY <1>2, <1>3, <1>4

-----------------------------------------------------------------------------
(* The runners: what one gives up, or finds overtaken, was not to be ended *)
(* by it.                                                                  *)

LEMMA GoesOn ==
  ASSUME ControlInv, NEW w \in Runners,
         NEW pc \in {"idle", "run", "read", "cancel_timer"}, Goto(w, pc)
  PROVE  /\ infer'[w].pc = pc
         /\ \A v \in Runners \ {w} : infer'[v] = infer[v]
<1>1. infer \in [Runners -> Inference] /\ infer[w] \in Inference
  BY DEF ControlInv, RunnersFresh
<1>2. infer' = [infer EXCEPT ![w] = [infer[w] EXCEPT !.pc = pc]]
  BY DEF Goto
<1>3. [infer[w] EXCEPT !.pc = pc].pc = pc
  BY <1>1 DEF Inference
<1> QED BY <1>1, <1>2, <1>3

LEMMA GoesToSleep ==
  ASSUME ControlInv, NEW w \in Runners,
         infer' = [infer EXCEPT ![w] = [Asleep EXCEPT !.pc = WhenDone(w)]]
  PROVE  /\ infer'[w].pc = WhenDone(w)
         /\ \A v \in Runners \ {w} : infer'[v] = infer[v]
<1>1. infer \in [Runners -> Inference]
  BY DEF ControlInv, RunnersFresh
<1>2. [Asleep EXCEPT !.pc = WhenDone(w)].pc = WhenDone(w)
  BY DEF Asleep
<1> QED BY <1>1, <1>2

(* w gives up a result that is not wanted, or had none.                    *)
LEMMA ResolverGivesUp ==
  ASSUME ControlInv, ResolverInv, NEW w \in Runners,
         infer[w].pc = "apply" => ~StillWanted(w),
         w = "thread" => infer[w].pc # "idle",
         infer' = [infer EXCEPT ![w] = [Asleep EXCEPT !.pc = WhenDone(w)]],
         \/ ctl' = [ctl EXCEPT !.running = FALSE]
         \/ ctl' = ctl /\ infer[w].pc \notin {"run", "read"},
         UNCHANGED <<slot, scheduling, timeout_work>>,
         inference_work' = inference_work
           \/ (ctl.pending /\ ctl.source = "FIXED" => ctl.timed_out)
  PROVE  ResolverInv'
<1>1. /\ infer'[w].pc = WhenDone(w)
      /\ \A v \in Runners \ {w} : infer'[v] = infer[v]
  BY GoesToSleep
<1>2. /\ ctl'.pending = ctl.pending /\ ctl'.source = ctl.source
      /\ ctl'.decision = ctl.decision /\ ctl'.state_valid = ctl.state_valid
      /\ ctl'.timed_out = ctl.timed_out
      /\ ctl'.running => ctl'.running = ctl.running
  BY DEF ControlInv, Good, ControlShape
<1>3. ThreadBusy(infer') => slot' = "running"
  BY <1>1 DEF ResolverInv, ThreadBusy, WhenDone, Runners
<1>4. ctl'.pending /\ ctl'.source = "FIXED" => ctl'.state_valid /\ FixedChain'
  <2> SUFFICES ASSUME ctl.pending, ctl.source = "FIXED", ~ctl.timed_out
               PROVE  ctl.state_valid /\ FixedChain'
    BY <1>2 DEF FixedChain, ResolverInv
  <2>1. ctl.state_valid /\ FixedChain /\ UNCHANGED inference_work
    BY DEF ResolverInv
  <2>2. Applying(infer, ctl) => Applying(infer', ctl')
    <3> SUFFICES ASSUME NEW v \in Runners, infer[v].pc = "apply",
                        infer[v].decision = ctl.decision
                 PROVE  Applying(infer', ctl')
      BY DEF Applying
    <3>1. v # w
      BY DEF StillWanted
    <3> QED BY <1>1, <1>2, <3>1 DEF Applying
  <2> QED BY <2>1, <2>2 DEF FixedChain, Scheduled
<1>5. ctl'.running => ModelChain'
  <2> SUFFICES ASSUME ctl'.running PROVE ModelChain'
    OBVIOUS
  <2>1. ctl.running /\ ctl.pending /\ ctl' = ctl /\ infer[w].pc \notin {"run", "read"}
    BY <1>2 DEF ControlInv, Good, ControlShape, Consistent
  <2>2. CASE ctl.timed_out
    BY <1>2, <2>2 DEF ModelChain
  <2>3. CASE ~ctl.timed_out
    <3>1. ModelChain
      BY <2>1 DEF ResolverInv
    <3>2. CASE w = "thread"
      BY <2>1, <2>3, <3>1, <3>2 DEF ModelChain, StillWanted
    <3>3. CASE w # "thread"
      BY <1>1, <2>1, <2>3, <3>1, <3>3 DEF ModelChain, Runners
    <3> QED BY <3>2, <3>3
  <2> QED BY <2>2, <2>3
<1>6. ctl'.timed_out => timeout_work'
  BY <1>2 DEF ResolverInv
<1> QED BY <1>3, <1>4, <1>5, <1>6 DEF ResolverInv

(* Nothing is pending after the step.                                      *)
LEMMA ResolverDone ==
  ASSUME ~ctl'.pending, ~ctl'.running, ~ctl'.timed_out, ThreadBusy(infer') => slot' = "running"
  PROVE  ResolverInv'
BY DEF ResolverInv

LEMMA ResolverRead ==
  ASSUME ControlInv, ResolverInv, NEW w \in Runners, ReadDecision(w)
  PROVE  ResolverInv'
<1>1. UNCHANGED <<slot, scheduling, timeout_work>>
  BY DEF ReadDecision
<1>2. infer[w].pc = IF w = "wq" THEN "idle" ELSE "read"
  BY DEF ReadDecision
<1>3. CASE ctl.pending /\ ~ctl.timed_out /\ ctl.state_valid
  <2>1. /\ infer' = [infer EXCEPT ![w] = [pc |-> "apply", decision |-> ctl.decision,
                                          source |-> ctl.source, level |-> ctl.level]]
        /\ UNCHANGED ctl
    BY <1>3 DEF ReadDecision
  <2>2. /\ infer'[w].pc = "apply" /\ infer'[w].decision = ctl.decision
        /\ \A v \in Runners \ {w} : infer'[v] = infer[v]
    BY <2>1 DEF ControlInv, RunnersFresh
  <2>3. Applying(infer', ctl')
    BY <2>1, <2>2 DEF Applying
  <2>4. CASE w = "thread"
    BY <1>1, <1>2, <1>3, <2>1, <2>2, <2>3, <2>4
       DEF ResolverInv, ThreadBusy, FixedChain, ModelChain
  <2>5. CASE w = "wq"
    <3>1. infer'["thread"] = infer["thread"]
      BY <2>2, <2>5 DEF Runners
    <3> QED BY <1>1, <2>1, <2>3, <3>1 DEF ResolverInv, ThreadBusy, FixedChain, ModelChain
  <2> QED BY <2>4, <2>5 DEF Runners
<1>4. CASE ~(ctl.pending /\ ~ctl.timed_out /\ ctl.state_valid)
  <2>1. StopRunning(w)
    BY <1>4 DEF ReadDecision
  <2>2. ctl.pending /\ ctl.source = "FIXED" => ctl.timed_out
    BY <1>4 DEF ResolverInv
  <2>3. w = "thread" => infer[w].pc # "idle"
    BY <1>2
  <2>4. infer[w].pc # "apply"
    BY <1>2
  <2> QED BY <1>1, <2>1, <2>2, <2>3, <2>4, ResolverGivesUp DEF StopRunning
<1> QED BY <1>3, <1>4

LEMMA ResolverApply ==
  ASSUME ControlInv, ResolverInv, NEW w \in Runners, infer[w].pc = "apply",
         ProviderError(w) \/ \E level \in Levels : ApplyDecision(w, level)
  PROVE  ResolverInv'
<1>1. UNCHANGED <<slot, scheduling, timeout_work, inference_work>>
  BY DEF ApplyDecision, ProviderError
<1>2. CASE ~StillWanted(w)
  <2>1. \/ StopRunning(w)
        \/ /\ ctl' = ctl
           /\ infer' = [infer EXCEPT ![w] = [Asleep EXCEPT !.pc = WhenDone(w)]]
    BY <1>2 DEF ApplyDecision, ProviderError, FallbackIf
  <2> QED BY <1>1, <1>2, <2>1, ResolverGivesUp DEF StopRunning
<1>3. CASE StillWanted(w)
  <2>1. \/ Goto(w, "cancel_timer")
        \/ infer' = [infer EXCEPT ![w] = [Asleep EXCEPT !.pc = WhenDone(w)]]
    BY <1>3 DEF ApplyDecision, ProviderError
  <2>2. \A v \in Runners \ {w} : infer'[v] = infer[v]
    BY <2>1, GoesOn, GoesToSleep
  <2>3. ThreadBusy(infer') => slot' = "running"
    <3>1. CASE w = "thread"
      BY <1>1, <3>1 DEF ResolverInv, ThreadBusy
    <3>2. CASE w # "thread"
      BY <1>1, <2>2, <3>2 DEF ResolverInv, ThreadBusy, Runners
    <3> QED BY <3>1, <3>2
  <2>4. ~ctl'.pending /\ ~ctl'.running /\ ~ctl'.timed_out
    <3>1. CASE ProviderError(w)
      BY <1>3, <3>1 DEF ProviderError, FallbackIf, Fallback, Quiet
    <3>2. CASE \E level \in Levels : ApplyDecision(w, level)
      <4>1. PICK level \in Levels :
              ctl' = [ctl EXCEPT !.limit = TargetDepth(level), !.valid = TRUE,
                        !.applied = infer[w].decision, !.pending = FALSE,
                        !.timed_out = FALSE, !.running = FALSE,
                        !.feedback = "dispatch", !.gate = "none"]
        BY <1>3, <3>2 DEF ApplyDecision
      <4> QED BY <4>1 DEF ControlInv, Good, ControlShape
    <3> QED BY <3>1, <3>2
  <2> QED BY <2>3, <2>4, ResolverDone
<1> QED BY <1>2, <1>3

LEMMA ResolverRunner ==
  ASSUME ControlInv, ResolverInv, NEW w \in Runners, RunnerNext(w)
  PROVE  ResolverInv'
<1>1. CASE ReadDecision(w)
  BY <1>1, ResolverRead
<1>2. CASE ProviderError(w) \/ \E level \in Levels : ApplyDecision(w, level)
  BY <1>2, ResolverApply DEF ProviderError, ApplyDecision
<1>3. CASE CancelTimer(w)
  BY <1>3, ResolverGivesUp DEF CancelTimer
<1> QED BY <1>1, <1>2, <1>3 DEF RunnerNext

LEMMA ResolverThread ==
  ASSUME ControlInv, ResolverInv, ThreadNext
  PROVE  ResolverInv'
<1>1. "thread" \in Runners
  BY DEF Runners
<1>2. CASE ThreadPicksUp
  <2>1. /\ slot = "queued" /\ slot' = "running"
        /\ UNCHANGED <<ctl, inference_work, scheduling, timeout_work>>
    BY <1>2 DEF ThreadPicksUp
  <2>2. infer["thread"].pc = "idle"
    BY <2>1 DEF ResolverInv, ThreadBusy
  <2>3. /\ infer'["thread"].pc = "run"
        /\ \A v \in Runners \ {"thread"} : infer'[v] = infer[v]
    BY <1>1, <1>2, GoesOn DEF ThreadPicksUp
  <2>4. Applying(infer, ctl) => Applying(infer', ctl')
    BY <2>1, <2>2, <2>3 DEF Applying
  <2> QED BY <2>1, <2>3, <2>4 DEF ResolverInv, ThreadBusy, FixedChain, ModelChain, Scheduled
<1>3. CASE ThreadReleases
  <2>1. /\ infer["thread"].pc = "release" /\ slot' = "free"
        /\ UNCHANGED <<ctl, inference_work, scheduling, timeout_work>>
    BY <1>3 DEF ThreadReleases
  <2>2. /\ infer'["thread"].pc = "idle"
        /\ \A v \in Runners \ {"thread"} : infer'[v] = infer[v]
    BY <1>1, <1>3, GoesOn DEF ThreadReleases
  <2>3. Applying(infer, ctl) => Applying(infer', ctl')
    BY <2>1, <2>2 DEF Applying
  <2>4. slot = "running"
    BY <2>1 DEF ResolverInv, ThreadBusy
  <2>5. ModelChain => ModelChain'
    BY <2>1, <2>4 DEF ModelChain
  <2> QED BY <2>1, <2>2, <2>3, <2>5 DEF ResolverInv, ThreadBusy, FixedChain, Scheduled
<1>4. CASE ThreadSnapshots
  <2>1. /\ infer["thread"].pc = "run"
        /\ UNCHANGED <<slot, inference_work, scheduling, timeout_work>>
    BY <1>4 DEF ThreadSnapshots
  <2>2. slot' = "running"
    BY <2>1 DEF ResolverInv, ThreadBusy
  <2>3. CASE ~ctl.pending \/ ctl.timed_out \/ ctl.source # "MODEL"
    <3>1. StopRunning("thread")
      BY <1>4, <2>3 DEF ThreadSnapshots
    <3> QED BY <1>1, <2>1, <3>1, ResolverGivesUp DEF StopRunning
  <2>4. CASE /\ ~(~ctl.pending \/ ctl.timed_out \/ ctl.source # "MODEL")
             /\ WindowUsable(ctl)
    <3>1. ctl' = [ctl EXCEPT !.state_valid = TRUE] /\ Goto("thread", "read")
      BY <1>4, <2>4 DEF ThreadSnapshots
    <3>2. infer'["thread"].pc = "read"
      BY <1>1, <3>1, GoesOn
    <3>3. ctl'.source = "MODEL" /\ ctl'.timed_out = ctl.timed_out
      BY <2>4, <3>1 DEF ControlInv, Good, ControlShape
    <3> QED BY <2>1, <2>2, <3>2, <3>3 DEF ResolverInv, ModelChain
  <2>5. CASE /\ ~(~ctl.pending \/ ctl.timed_out \/ ctl.source # "MODEL")
             /\ ~WindowUsable(ctl)
    <3>1. ctl' = Fallback(ctl)
      BY <1>4, <2>5 DEF ThreadSnapshots
    <3> QED BY <2>2, <3>1, ResolverDone DEF Fallback, Quiet
  <2> QED BY <2>3, <2>4, <2>5
<1> QED BY <1>1, <1>2, <1>3, <1>4, ResolverRunner DEF ThreadNext

-----------------------------------------------------------------------------
(* The switch: its reset leaves nothing pending, and only then does it     *)
(* cancel the work items.                                                  *)

LEMMA ResolverSwitch ==
  ASSUME ControlInv, ResolverInv,
         AdminNext \/ (\E on \in BOOLEAN : SetEnabled(on)) \/ UNCHANGED vars
  PROVE  ResolverInv'
<1>1. CASE ResetContext
  <2>1. Same(ctl, ctl')
    BY <1>1, SameFallback DEF ResetContext
  <2> QED BY <1>1, <2>1, ResolverStill DEF ResetContext, workVars
<1>2. CASE ResetCancelsWorks
  <2>1. UNCHANGED <<ctl, infer, slot>>
    BY <1>2 DEF ResetCancelsWorks
  <2>2. ~ctl.active
    BY <1>2 DEF ResetCancelsWorks, ControlInv, SwitchInv
  <2>3. ~ctl'.pending /\ ~ctl'.running /\ ~ctl'.timed_out
    BY <2>1, <2>2 DEF ControlInv, Good, Consistent
  <2>4. ThreadBusy(infer') => slot' = "running"
    BY <2>1 DEF ResolverInv, ThreadBusy
  <2> QED BY <2>3, <2>4, ResolverDone
<1>3. CASE \/ ResetCancelsTimer \/ SwitchDone \/ UNCHANGED vars
           \/ \E on \in BOOLEAN : SetEnabled(on)
  <2>1. UNCHANGED <<ctl, inference_work, infer, slot, scheduling, timeout_work>>
    BY <1>3 DEF ResetCancelsTimer, SwitchDone, SetEnabled, vars, workVars
  <2> QED BY <2>1, SameRefl, ResolverStill
<1> QED BY <1>1, <1>2, <1>3 DEF AdminNext

LEMMA ResolverNext ==
  ASSUME ControlInv, BoundInv, ResolverInv, [ThrottleNext]_vars
  PROVE  ResolverInv'
<1>1. CASE RunnerNext("wq")
  BY <1>1, ResolverRunner DEF Runners
<1> QED
  BY <1>1, ResolverRequest, ResolverDispatch, ResolverSchedule, ResolverTimers,
     ResolverThread, ResolverSwitch DEF ThrottleNext

LEMMA ResolverInvHolds == Spec => []ResolverInv
<1>1. Init => ResolverInv
  BY DEF Init, ResolverInv, ThreadBusy, Quiet, Asleep, Runners
<1> QED BY <1>1, ResolverNext, ControlInvHolds, BoundInvHolds, PTL DEF Spec

(* A pending decision that was handed to somebody is never forgotten: the  *)
(* completion that schedules it, the work item, the model thread or the    *)
(* timeout's work item is on its way to apply it or to give it up.         *)
THEOREM ThrottlePendingHasResolver == Spec => []PendingHasResolver
<1>1. ResolverInv /\ ControlInv => PendingHasResolver
  <2> SUFFICES ASSUME ResolverInv, ControlInv, ctl.pending,
                      ctl.source = "FIXED" \/ ctl.running
               PROVE  OnTheWay
    BY DEF PendingHasResolver
  <2>1. CASE ctl.source = "FIXED"
    <3>1. FixedChain /\ (ctl.timed_out => timeout_work)
      BY <2>1 DEF ResolverInv
    <3> QED BY <3>1 DEF FixedChain, Scheduled, Applying, OnTheWay
  <2>2. CASE ctl.running
    <3>1. ModelChain /\ (ctl.timed_out => timeout_work)
      BY <2>2 DEF ResolverInv
    <3> QED BY <3>1 DEF ModelChain, OnTheWay, Runners
  <2> QED BY <2>1, <2>2
<1> QED BY <1>1, ResolverInvHolds, ControlInvHolds, PTL

-----------------------------------------------------------------------------
(* Lost wake-ups.  The queue is at rest when nobody is about to run it but *)
(* a dispatcher that has found background requests and asks the gate.      *)

Deciding == \E d \in Dispatchers : dpc[d] = "has_work_gate"
Resting ==
  /\ ~kick /\ admin.pc \in {"idle", "last"}
  /\ \A d \in Dispatchers : dpc[d] \in {"idle", "has_work_gate"}
  /\ \A w \in Runners : infer[w].pc # "cancel_timer"
Served == enabled => session # 0

WakeInv ==
  Resting => /\ QueuedIn("HP") = {}
             /\ QueuedIn("NonHP") # {} /\ Served => Blocked(ctl) \/ Deciding

(* A step that adds no request to the elevator and opens no gate silently. *)
LEMMA WakeKept ==
  ASSUME WakeInv, UNCHANGED dpc, Resting' => Resting, Served' => Served,
         QueuedIn("HP")' \subseteq QueuedIn("HP"),
         QueuedIn("NonHP")' \subseteq QueuedIn("NonHP"),
         Resting' /\ Served' /\ Blocked(ctl) => Blocked(ctl')
  PROVE  WakeInv'
<1>1. Deciding' = Deciding
  BY DEF Deciding
<1>2. Blocked(ctl)' = Blocked(ctl')
  BY DEF Blocked
<1> HIDE DEF Resting, Served, Deciding, QueuedIn
<1> QED BY <1>1, <1>2 DEF WakeInv

(* The steps of all but the dispatchers, the runners and the switch.       *)
LEMMA WakeFrame ==
  ASSUME WakeInv, UNCHANGED <<dpc, infer, configVars>>,
         QueuedIn("HP")' \subseteq QueuedIn("HP"),
         QueuedIn("NonHP")' \subseteq QueuedIn("NonHP"),
         kick => kick', ~kick' /\ Served /\ admin.pc # "reset" /\ Blocked(ctl) => Blocked(ctl')
  PROVE  WakeInv'
<1>1. (Resting' => Resting) /\ Served' = Served
  BY DEF Resting, Served, configVars
<1>2. Resting' => ~kick' /\ admin.pc # "reset"
  BY DEF Resting, configVars
<1> HIDE DEF Resting, Served, QueuedIn
<1> QED BY <1>1, <1>2, WakeKept

LEMMA QueueStays ==
  ASSUME UNCHANGED <<phase, meta>>
  PROVE  \A q : QueuedIn(q)' \subseteq QueuedIn(q)
BY DEF QueuedIn

LEMMA QueueShrinks ==
  ASSUME AccountingInv, NEW r \in Requests, NEW from, NEW to \in Phases \ {"queued"},
         Moves(r, from, to), UNCHANGED meta \/ \E m : meta' = [meta EXCEPT ![r] = m]
  PROVE  \A q : QueuedIn(q)' \subseteq QueuedIn(q)
<1>1. phase' = [phase EXCEPT ![r] = to] /\ phase \in [Requests -> Phases]
      /\ meta \in [Requests -> Meta]
  BY DEF Moves, AccountingInv, AccountingTypes
<1>2. phase'[r] # "queued"
  BY <1>1
<1>3. \A s \in Requests \ {r} : phase'[s] = phase[s] /\ meta'[s] = meta[s]
  BY <1>1
<1> QED BY <1>2, <1>3 DEF QueuedIn

(* With exact counters no release ever fails, so a gate that was closed is *)
(* closed after it, or the queues are run.                                 *)
LEMMA NoReleaseFails ==
  ASSUME AccountingInv, NEW r \in Requests
  PROVE  ~ReleaseFails(meta[r]) /\ (meta[r].held => meta_inuse # 0)
<1>1. AccountingTypes /\ CountersExact
  BY DEF AccountingInv
<1> QED BY <1>1, CountersPositive DEF ReleaseFails, DepthFails, IssuedFails

LEMMA ReleaseKeepsGate ==
  ASSUME NEW c, NEW m, ~ReleaseFails(m), ~ReleaseWakes(c, m)
  PROVE  AfterRelease(c, m) = c
BY DEF AfterRelease, GateReleased, ReleaseWakes

LEMMA InvalidatedGate ==
  ASSUME NEW c \in ControlShape, NEW r PROVE Invalidated(c, r).gate = c.gate
BY DEF ControlShape, Invalidated, Unbound

LEMMA WakeRequeue ==
  ASSUME AccountingInv, ControlInv, WakeInv, NEW r \in Requests, RequeueRequest(r)
  PROVE  WakeInv'
<1> DEFINE c == Invalidated(ctl, r)
<1>1. UNCHANGED <<dpc, infer, configVars>>
  BY DEF RequeueRequest, workVars
<1>2. Moves(r, {"new", "dispatched", "issued"}, "requeued")
      /\ (UNCHANGED meta \/ \E m : meta' = [meta EXCEPT ![r] = m])
  BY DEF RequeueRequest, RecordRequeue
<1>3. \A q : QueuedIn(q)' \subseteq QueuedIn(q)
  BY <1>2, QueueShrinks DEF Phases
<1>4. (kick => kick') /\ (~kick' /\ Blocked(ctl) => Blocked(ctl'))
  <2>1. CASE ~meta[r].held
    BY <2>1 DEF RequeueRequest
  <2>2. CASE meta[r].held
    <3>1. ctl' = AfterRelease(c, meta[r]) /\ kick' = (kick \/ ReleaseWakes(c, meta[r]))
      BY <2>2 DEF RequeueRequest, KickIf
    <3>2. ~kick' => ctl' = c
      BY <3>1, NoReleaseFails, ReleaseKeepsGate
    <3>3. c.gate = ctl.gate
      BY InvalidatedGate DEF ControlInv, Good
    <3> QED BY <3>1, <3>2, <3>3 DEF Blocked
  <2> QED BY <2>1, <2>2
<1> QED BY <1>1, <1>3, <1>4, WakeFrame

LEMMA WakeReturn ==
  ASSUME AccountingInv, ControlInv, WakeInv, NEW r \in Requests, ReturnRequest(r)
  PROVE  WakeInv'
<1> DEFINE c == Invalidated(ctl, r)
<1>1. UNCHANGED <<dpc, infer, configVars>>
  BY DEF ReturnRequest, workVars
<1>2. Moves(r, {"new", "merged", "ended"}, "idle")
      /\ (UNCHANGED meta \/ \E m : meta' = [meta EXCEPT ![r] = m])
  BY DEF ReturnRequest, FinishRequest, ReleaseAndFree
<1>3. \A q : QueuedIn(q)' \subseteq QueuedIn(q)
  BY <1>2, QueueShrinks DEF Phases
<1>4. (kick => kick') /\ (~kick' /\ Blocked(ctl) => Blocked(ctl'))
  <2>1. CASE ~(use_sched[r] /\ priv[r])
    BY <2>1 DEF ReturnRequest
  <2>2. CASE use_sched[r] /\ priv[r]
    <3>1. ctl' = FallbackIf(meta_inuse = 0, AfterRelease(c, meta[r]))
          /\ kick' = (kick \/ ReleaseWakes(c, meta[r]))
      BY <2>2 DEF ReturnRequest, KickIf
    <3>2. meta[r].held
      BY <2>2 DEF AccountingInv, MetaMatchesPhase
    <3>3. ~kick' => ctl' = c
      BY <3>1, <3>2, NoReleaseFails, ReleaseKeepsGate DEF FallbackIf
    <3>4. c.gate = ctl.gate
      BY InvalidatedGate DEF ControlInv, Good
    <3> QED BY <3>1, <3>3, <3>4 DEF Blocked
  <2> QED BY <2>1, <2>2
<1> QED BY <1>1, <1>3, <1>4, WakeFrame

(* A completion that ends the throttle, or takes the gate's reason away,   *)
(* or gives a new decision up, runs the queues if the gate was closed.     *)
LEMMA WakeComplete ==
  ASSUME AccountingInv, ControlInv, WakeInv, NEW r \in Requests,
         NEW slow \in BOOLEAN, NEW tight \in BOOLEAN, NEW mean_slow \in BOOLEAN,
         NEW source \in Sources, NEW level \in Levels,
         CompleteRequest(r, slow, tight, mean_slow, source, level)
  PROVE  WakeInv'
<1> DEFINE m == meta[r]
           c1 == IF Sampling(r) THEN Sampled(ctl, slow, tight) ELSE ctl
           trigger == Sampling(r) /\ ~c1.active /\ ~c1.pending /\ WindowSlow(c1)
           c2 == [Unbound(c1) EXCEPT !.votes = @ + 1,
                                     !.slow_votes = IF slow THEN @ + 1 ELSE @]
           last == Voting(r) /\ c2.votes = FeedbackMax
           again == last /\ MeanSlow(c2, mean_slow)
           recovered == last /\ ~again
           c3 == IF ~Voting(r) THEN Invalidated(c1, r)
                 ELSE IF recovered THEN Fallback(c2)
                 ELSE IF again THEN c2
                 ELSE [c2 EXCEPT !.feedback = "dispatch"]
           c4 == FallbackIf(meta_inuse = 0, AfterRelease(c3, m))
           starts == (trigger \/ again) /\ CanStart(c4, source)
           gives_up == again /\ ~starts
<1>1. ctl \in ControlShape /\ Good(ctl)
  BY DEF ControlInv, Good
<1>2. UNCHANGED <<dpc, infer, configVars>>
  BY DEF CompleteRequest
<1>3. Moves(r, {"new", "dispatched", "issued", "requeued"}, "ended")
      /\ (UNCHANGED meta \/ \E n : meta' = [meta EXCEPT ![r] = n])
  BY DEF CompleteRequest, RecordFinalComplete, ReleaseAndFree
<1>4. \A q : QueuedIn(q)' \subseteq QueuedIn(q)
  BY <1>3, QueueShrinks DEF Phases
<1>5. (kick => kick') /\ (~kick' /\ Blocked(ctl) => Blocked(ctl'))
  <2>1. CASE ~m.held
    BY <2>1 DEF CompleteRequest
  <2>2. CASE m.held
    <3>1. /\ ctl' = IF starts THEN Started(c4, source, level) ELSE FallbackIf(gives_up, c4)
          /\ kick' = (kick \/ (\/ recovered /\ Blocked(c2)
                               \/ ReleaseWakes(c3, m)
                               \/ gives_up /\ Blocked(c4)))
      BY <2>2 DEF CompleteRequest, KickIf
    <3>2. Good(c1) /\ c1 \in ControlShape /\ c1.gate = ctl.gate
      <4>1. Good(Sampled(ctl, slow, tight))
        BY <1>1, SampledTame DEF Tame
      <4>2. Sampled(ctl, slow, tight).gate = ctl.gate
        BY <1>1 DEF ControlShape, Sampled
      <4> QED BY <1>1, <4>1, <4>2 DEF Good
    <3>3. c2 \in ControlShape /\ c2.gate = ctl.gate
      <4> HIDE DEF c1
      <4>1. c2 \in ControlShape
        BY <3>2, SameVoted
      <4>2. c2.gate = c1.gate
        BY <3>2 DEF ControlShape, Unbound
      <4> HIDE DEF c2
      <4> QED BY <3>2, <4>1, <4>2
    <3> HIDE DEF c1, c2, trigger
    <3>4. c3 \in ControlShape /\ (~recovered => c3.gate = ctl.gate)
      <4>1. Invalidated(c1, r) \in ControlShape /\ Invalidated(c1, r).gate = c1.gate
        BY <3>2, InvalidatedTame, InvalidatedGate DEF Tame, Good
      <4>2. [c2 EXCEPT !.feedback = "dispatch"] \in ControlShape
            /\ [c2 EXCEPT !.feedback = "dispatch"].gate = c2.gate
        BY <3>3 DEF ControlShape
      <4>3. Fallback(c2) \in ControlShape
        BY <3>3, FallbackShape
      <4> QED BY <3>2, <3>3, <4>1, <4>2, <4>3
    <3>5. ~ReleaseWakes(c3, m) => c4 = c3
      <4> HIDE DEF c3, starts
      <4> QED BY <2>2, NoReleaseFails, ReleaseKeepsGate DEF FallbackIf
    <3>6. Started(c4, source, level).gate = c4.gate
      <4>1. c4 \in ControlShape
        <5> HIDE DEF c3
        <5>1. AfterRelease(c3, m) \in ControlShape
          BY <3>4, AfterReleaseShape
        <5> QED BY <5>1, FallbackShape DEF FallbackIf
      <4> HIDE DEF c4
      <4> QED BY <4>1 DEF Started, NoFeedback, Unbound, ControlShape
    <3> HIDE DEF c3, c4, starts, gives_up, recovered
    <3>7. kick => kick'
      BY <3>1
    <3>8. ASSUME ~kick', Blocked(ctl) PROVE Blocked(ctl')
      <4>1. ~recovered
        BY <3>1, <3>3, <3>8 DEF Blocked
      <4>2. c4.gate = ctl.gate
        BY <3>1, <3>4, <3>5, <3>8, <4>1
      <4>3. ~gives_up
        BY <3>1, <3>8, <4>2 DEF Blocked
      <4>4. ctl'.gate = ctl.gate
        BY <3>1, <3>6, <4>2, <4>3 DEF FallbackIf
      <4> QED BY <3>8, <4>4 DEF Blocked
    <3> QED BY <3>7, <3>8
  <2> QED BY <2>1, <2>2
<1> QED BY <1>2, <1>4, <1>5, WakeFrame

LEMMA WakeRequest ==
  ASSUME AccountingInv, ControlInv, WakeInv, RequestNext
  PROVE  WakeInv'
<1>1. UNCHANGED <<dpc, infer, configVars>>
  BY RequestFrame
<1>2. ASSUME NEW r \in Requests, NEW sched \in BOOLEAN, PrepareRequest(r, sched)
      PROVE  WakeInv'
  <2>1. UNCHANGED <<ctl, kick, meta>> /\ Moves(r, {"idle"}, "new")
    BY <1>2 DEF PrepareRequest, Prepare, dispatchVars
  <2>2. \A q : QueuedIn(q)' \subseteq QueuedIn(q)
    BY <2>1, QueueShrinks DEF Phases
  <2>3. Blocked(ctl') = Blocked(ctl)
    BY <2>1
  <2> QED BY <1>1, <2>1, <2>2, <2>3, WakeFrame
<1>3. ASSUME NEW r \in Requests, NEW q \in Queues, InsertRequest(r, q) PROVE WakeInv'
  BY <1>3 DEF InsertRequest, WakeInv, Resting
<1>4. ASSUME NEW r \in Requests, NEW q \in Queues, IssueRequest(r, q) PROVE WakeInv'
  <2>1. Moves(r, {"new", "dispatched", "requeued"}, "issued")
        /\ (UNCHANGED meta \/ \E m : meta' = [meta EXCEPT ![r] = m])
    BY <1>4 DEF IssueRequest, RecordIssue
  <2>2. \A p : QueuedIn(p)' \subseteq QueuedIn(p)
    BY <2>1, QueueShrinks DEF Phases
  <2> DEFINE fails == ~meta[r].held /\ ~CanAlloc
  <2>3. kick' = (kick \/ fails)
        /\ (~fails => ctl' = ctl \/ ctl' = [ctl EXCEPT !.feedback = "complete"])
    BY <1>4 DEF IssueRequest, KickIf
  <2>4. [ctl EXCEPT !.feedback = "complete"].gate = ctl.gate
    BY DEF ControlInv, Good, ControlShape
  <2>5. ~kick' => Blocked(ctl') = Blocked(ctl)
    BY <2>3, <2>4 DEF Blocked
  <2> QED BY <1>1, <2>2, <2>3, <2>5, WakeFrame
<1>5. ASSUME NEW r \in Requests, MergeRequest(r) PROVE WakeInv'
  <2>1. UNCHANGED <<ctl, kick>> /\ Moves(r, {"queued"}, "merged")
        /\ (UNCHANGED meta \/ \E m : meta' = [meta EXCEPT ![r] = m])
    BY <1>5 DEF MergeRequest, UnqueueRequest, dispatchVars
  <2>2. \A q : QueuedIn(q)' \subseteq QueuedIn(q)
    BY <2>1, QueueShrinks DEF Phases
  <2>3. Blocked(ctl') = Blocked(ctl)
    BY <2>1
  <2> QED BY <1>1, <2>1, <2>2, <2>3, WakeFrame
<1>6. ASSUME NEW r \in Requests, DemoRefuse(r) PROVE WakeInv'
  <2>1. UNCHANGED <<ctl, kick, meta, phase>>
    BY <1>6 DEF DemoRefuse, dispatchVars, accountingVars, blockVars
  <2>2. Blocked(ctl') = Blocked(ctl)
    BY <2>1
  <2> QED BY <1>1, <2>1, <2>2, QueueStays, WakeFrame
<1> QED
  BY <1>2, <1>3, <1>4, <1>5, <1>6, WakeRequeue, WakeReturn, WakeComplete DEF RequestNext

-----------------------------------------------------------------------------
(* A dispatcher goes to rest with nothing to take, or at the gate that it  *)
(* has marked closed.                                                      *)

LEMMA Busy ==
  ASSUME NEW d \in Dispatchers, dpc \in [Dispatchers -> DispatchSteps],
         NEW pc \in DispatchSteps \ {"idle", "has_work_gate"}, Step(d, pc)
  PROVE  WakeInv'
<1>1. dpc'[d] = pc
  BY DEF Step
<1>2. ~Resting'
  BY <1>1 DEF Resting
<1> HIDE DEF Resting
<1> QED BY <1>2 DEF WakeInv

LEMMA WakeHasWork ==
  ASSUME LockInv, NEW d \in Dispatchers, HasWork(d)
  PROVE  WakeInv'
<1>1. dpc \in [Dispatchers -> DispatchSteps]
  BY DEF LockInv
<1>2. QueuedIn("HP")' = QueuedIn("HP") /\ QueuedIn("NonHP")' = QueuedIn("NonHP")
  BY DEF HasWork, accountingVars, blockVars, QueuedIn
<1>3. CASE Step(d, "model")
  BY <1>1, <1>3, Busy DEF DispatchSteps
<1>4. CASE Step(d, "has_work_gate") /\ QueuedIn("HP") = {}
  <2>1. Deciding'
    BY <1>1, <1>4 DEF Step, Deciding
  <2> QED BY <1>2, <1>4, <2>1 DEF WakeInv
<1>5. CASE QueuedIn("HP") = {} /\ QueuedIn("NonHP") = {}
  BY <1>2, <1>5 DEF WakeInv
<1> QED BY <1>3, <1>4, <1>5 DEF HasWork

LEMMA WakeHasWorkGate ==
  ASSUME LockInv, ControlInv, WakeInv, NEW d \in Dispatchers, HasWorkGate(d)
  PROVE  WakeInv'
<1>1. dpc \in [Dispatchers -> DispatchSteps] /\ dpc[d] = "has_work_gate"
  BY DEF LockInv, HasWorkGate
<1>2. CASE NonHpAllowed
  <2>1. Step(d, "model")
    BY <1>2 DEF HasWorkGate
  <2> QED BY <1>1, <2>1, Busy DEF DispatchSteps
<1>3. CASE ~NonHpAllowed
  <2>1. ctl' = [ctl EXCEPT !.gate = GateReason] /\ GateReason # "none"
    BY <1>3 DEF HasWorkGate, CloseGate, NonHpAllowed
  <2>2. Blocked(ctl')
    BY <2>1 DEF Blocked, ControlInv, Good, ControlShape
  <2>3. \A e \in Dispatchers \ {d} : dpc'[e] = dpc[e]
    BY <1>1, <1>3 DEF HasWorkGate, Step
  <2>4. UNCHANGED <<kick, admin, infer, phase, meta>>
    BY DEF HasWorkGate, accountingVars, blockVars, workVars, configVars
  <2>5. Resting' => Resting
    BY <1>1, <2>3, <2>4 DEF Resting
  <2>6. QueuedIn("HP")' = QueuedIn("HP")
    BY <2>4 DEF QueuedIn
  <2>7. Blocked(ctl)'
    BY <2>2 DEF Blocked
  <2> HIDE DEF Resting
  <2> QED BY <2>5, <2>6, <2>7 DEF WakeInv
<1> QED BY <1>2, <1>3

LEMMA WakeDispatch ==
  ASSUME LockInv, ControlInv, WakeInv, NEW d \in Dispatchers, DispatchNext(d)
  PROVE  WakeInv'
<1>1. dpc \in [Dispatchers -> DispatchSteps]
  BY DEF LockInv
<1>2. CASE DispatchModel(d) \/ ArmModelTimer(d) \/ AccountPicked(d)
  <2>1. \E pc \in {"pick", "arm_timer", "has_work"} : Step(d, pc)
    BY <1>2 DEF DispatchModel, ArmModelTimer, AccountPicked
  <2> QED BY <1>1, <2>1, Busy DEF DispatchSteps
<1>3. CASE PickRequest(d)
  <2>1. Step(d, "account") \/ kick' = TRUE
    BY <1>3 DEF PickRequest
  <2>2. CASE Step(d, "account")
    BY <1>1, <2>2, Busy DEF DispatchSteps
  <2>3. CASE kick' = TRUE
    BY <2>3 DEF WakeInv, Resting
  <2> QED BY <2>1, <2>2, <2>3
<1> QED BY <1>2, <1>3, WakeHasWork, WakeHasWorkGate DEF DispatchNext

-----------------------------------------------------------------------------
(* What ends a decision runs the queues in the same step, or its runner is *)
(* about to; only a timeout with session_id 0 does not, when the throttle  *)
(* was on from the start of the queue.                                     *)

LEMMA WakeTimers ==
  ASSUME ControlInv, WakeInv,
         ScheduleNext \/ TimerFires \/ TimeoutWork \/ OtherQueueUsesThread
  PROVE  WakeInv'
<1>1. ctl \in ControlShape
  BY DEF ControlInv, Good
<1>2. UNCHANGED <<dpc, infer, configVars, phase, meta>>
  BY DEF ScheduleNext, ArmTimer, QueueInference, QueueingFailed, TimerFires, TimeoutWork,
         OtherQueueUsesThread, accountingVars, blockVars, dispatchVars
<1>3. CASE ArmTimer \/ QueueInference \/ OtherQueueUsesThread
  <2>1. UNCHANGED <<ctl, kick>>
    BY <1>3 DEF ArmTimer, QueueInference, OtherQueueUsesThread, dispatchVars
  <2>2. Blocked(ctl') = Blocked(ctl)
    BY <2>1
  <2> QED BY <1>2, <2>1, <2>2, QueueStays, WakeFrame
<1>4. CASE QueueingFailed
  <2>1. ctl' = FallbackIf(ctl.pending, ctl) /\ kick' = (kick \/ (ctl.pending /\ Blocked(ctl)))
    BY <1>4 DEF QueueingFailed, KickIf
  <2>2. ~kick' /\ Blocked(ctl) => Blocked(ctl')
    BY <2>1 DEF FallbackIf
  <2> QED BY <1>2, <2>1, <2>2, QueueStays, WakeFrame
<1>5. CASE TimerFires
  <2>1. UNCHANGED kick /\ (ctl' = ctl \/ ctl' = [ctl EXCEPT !.timed_out = TRUE])
    BY <1>5 DEF TimerFires, dispatchVars
  <2>2. ctl'.gate = ctl.gate
    BY <1>1, <2>1 DEF ControlShape
  <2>3. Blocked(ctl') = Blocked(ctl)
    BY <2>2 DEF Blocked
  <2> QED BY <1>2, <2>1, <2>3, QueueStays, WakeFrame
<1>6. CASE TimeoutWork
  <2> DEFINE late == ctl.pending /\ ctl.timed_out
  <2>1. ctl' = FallbackIf(late, ctl)
        /\ kick' = (kick \/ (late /\ Blocked(ctl) /\ session # 0))
    BY <1>6 DEF TimeoutWork, KickIf
  <2>2. ASSUME ~kick', Served, admin.pc # "reset", Blocked(ctl) PROVE Blocked(ctl')
    <3>1. CASE ~late
      BY <2>1, <2>2, <3>1 DEF FallbackIf
    <3>2. CASE late
      <4>1. ctl.active
        BY <3>2 DEF ControlInv, Good, Consistent
      <4>2. session # 0
        BY <2>2, <4>1 DEF ControlInv, SwitchInv, Served
      <4> QED BY <2>1, <2>2, <3>2, <4>2
    <3> QED BY <3>1, <3>2
  <2> QED BY <1>2, <2>1, <2>2, QueueStays, WakeFrame
<1> QED BY <1>3, <1>4, <1>5, <1>6 DEF ScheduleNext

(* A runner that is not about to cancel the timer moves on.                *)
LEMMA WakeRunnerFrame ==
  ASSUME ControlInv, WakeInv, NEW w \in Runners, infer[w].pc # "cancel_timer",
         \A v \in Runners \ {w} : infer'[v] = infer[v],
         UNCHANGED <<accountingVars, dpc, configVars>>, kick => kick',
         ~kick' /\ infer'[w].pc # "cancel_timer" /\ Blocked(ctl) => Blocked(ctl')
  PROVE  WakeInv'
<1>1. Resting' => Resting /\ ~kick' /\ infer'[w].pc # "cancel_timer"
  BY DEF Resting, configVars
<1>2. Served' = Served
  BY DEF Served, configVars
<1>3. UNCHANGED <<phase, meta>>
  BY DEF accountingVars, blockVars
<1> HIDE DEF Resting, Served, QueuedIn
<1> QED BY <1>1, <1>2, <1>3, QueueStays, WakeKept

LEMMA WakeRunner ==
  ASSUME ControlInv, WakeInv, NEW w \in Runners, RunnerNext(w)
  PROVE  WakeInv'
<1>1. ctl \in ControlShape
  BY DEF ControlInv, Good
<1>2. [ctl EXCEPT !.running = FALSE].gate = ctl.gate
  BY <1>1 DEF ControlShape
<1>3. CASE CancelTimer(w)
  BY <1>3 DEF CancelTimer, WakeInv, Resting
<1>4. CASE ~CancelTimer(w)
  <2>1. infer[w].pc # "cancel_timer" /\ UNCHANGED <<accountingVars, dpc, configVars>>
    BY <1>4 DEF RunnerNext, ReadDecision, ApplyDecision, ProviderError, dispatchVars
  <2>2. \/ /\ infer' = [infer EXCEPT ![w] = [Asleep EXCEPT !.pc = WhenDone(w)]]
           /\ \/ UNCHANGED kick /\ ctl' = [ctl EXCEPT !.running = FALSE]
              \/ /\ ctl' = FallbackIf(StillWanted(w), ctl)
                 /\ kick' = (kick \/ (StillWanted(w) /\ Blocked(ctl)))
        \/ Goto(w, "cancel_timer") /\ UNCHANGED kick
        \/ /\ infer' = [infer EXCEPT ![w] = [pc |-> "apply", decision |-> ctl.decision,
                                             source |-> ctl.source, level |-> ctl.level]]
           /\ UNCHANGED <<kick, ctl>>
    BY <1>4 DEF RunnerNext, ReadDecision, ApplyDecision, ProviderError, StopRunning, KickIf,
                dispatchVars
  <2>3. \A v \in Runners \ {w} : infer'[v] = infer[v]
    <3>1. infer \in [Runners -> Inference]
      BY DEF ControlInv, RunnersFresh
    <3> QED BY <2>2, <3>1, GoesOn DEF Goto
  <2>4. ~kick' /\ infer'[w].pc # "cancel_timer" /\ Blocked(ctl) => Blocked(ctl')
    <3>1. Goto(w, "cancel_timer") => infer'[w].pc = "cancel_timer"
      BY GoesOn
    <3> QED BY <1>2, <2>2, <3>1 DEF FallbackIf, Blocked
  <2>5. kick => kick'
    BY <2>2
  <2> QED BY <2>1, <2>3, <2>4, <2>5, WakeRunnerFrame
<1> QED BY <1>3, <1>4

LEMMA WakeThread ==
  ASSUME ControlInv, ResolverInv, WakeInv, ThreadNext
  PROVE  WakeInv'
<1>1. ctl \in ControlShape /\ "thread" \in Runners
  BY DEF ControlInv, Good, Runners
<1>2. CASE ThreadPicksUp \/ ThreadReleases
  <2>1. UNCHANGED <<accountingVars, dpc, kick, configVars, ctl>>
    BY <1>2 DEF ThreadPicksUp, ThreadReleases, dispatchVars
  <2>2. infer["thread"].pc # "cancel_timer"
    BY <1>2 DEF ThreadPicksUp, ThreadReleases, ResolverInv, ThreadBusy
  <2>3. \A v \in Runners \ {"thread"} : infer'[v] = infer[v]
    BY <1>1, <1>2, GoesOn DEF ThreadPicksUp, ThreadReleases
  <2>4. Blocked(ctl') = Blocked(ctl)
    BY <2>1
  <2> QED BY <1>1, <2>1, <2>2, <2>3, <2>4, WakeRunnerFrame
<1>3. CASE ThreadSnapshots
  <2>1. /\ UNCHANGED <<accountingVars, dpc, configVars>> /\ infer["thread"].pc = "run"
        /\ kick => kick'
    BY <1>3 DEF ThreadSnapshots, KickIf
  <2>2. \/ StopRunning("thread")
        \/ ctl' = [ctl EXCEPT !.state_valid = TRUE] /\ Goto("thread", "read")
        \/ Goto("thread", "cancel_timer")
    BY <1>3 DEF ThreadSnapshots
  <2>3. \A v \in Runners \ {"thread"} : infer'[v] = infer[v]
    BY <1>1, <2>2, GoesOn, GoesToSleep DEF StopRunning
  <2>4. Goto("thread", "cancel_timer") => infer'["thread"].pc = "cancel_timer"
    BY <1>1, GoesOn
  <2>5. /\ [ctl EXCEPT !.running = FALSE].gate = ctl.gate
        /\ [ctl EXCEPT !.state_valid = TRUE].gate = ctl.gate
    BY <1>1 DEF ControlShape
  <2>6. infer'["thread"].pc # "cancel_timer" /\ Blocked(ctl) => Blocked(ctl')
    BY <2>2, <2>4, <2>5 DEF StopRunning, Blocked
  <2> QED BY <1>1, <2>1, <2>3, <2>6, WakeRunnerFrame
<1> QED BY <1>1, <1>2, <1>3, WakeRunner DEF ThreadNext

LEMMA WakeSwitch ==
  ASSUME ControlInv, WakeInv,
         AdminNext \/ (\E on \in BOOLEAN : SetEnabled(on)) \/ UNCHANGED vars
  PROVE  WakeInv'
<1>1. CASE ResetContext \/ ResetCancelsTimer \/ \E on \in BOOLEAN : SetEnabled(on)
  <2>1. \E pc \in {"reset", "timer", "works"} : admin'.pc = pc
    BY <1>1 DEF ResetContext, ResetCancelsTimer, SetEnabled, ControlInv, SwitchInv
  <2>2. ~Resting'
    BY <2>1 DEF Resting
  <2> HIDE DEF Resting
  <2> QED BY <2>2 DEF WakeInv
<1>2. CASE ResetCancelsWorks
  BY <1>2 DEF ResetCancelsWorks, WakeInv, Resting
<1>3. CASE SwitchDone \/ UNCHANGED vars
  <2>1. UNCHANGED <<phase, meta, dpc, kick, infer, ctl>>
    BY <1>3 DEF SwitchDone, vars, accountingVars, blockVars, dispatchVars, workVars
  <2>2. Resting' => Resting
    BY <1>3, <2>1 DEF SwitchDone, Resting, vars, configVars
  <2>3. Served' => Served
    BY <1>3 DEF SwitchDone, Served, vars, configVars, ControlInv, SwitchInv
  <2>4. Blocked(ctl') = Blocked(ctl)
    BY <2>1
  <2> HIDE DEF Resting, Served, QueuedIn
  <2> QED BY <2>1, <2>2, <2>3, <2>4, QueueStays, WakeKept
<1> QED BY <1>1, <1>2, <1>3 DEF AdminNext

LEMMA WakeNext ==
  ASSUME AccountingInv, LockInv, ControlInv, ResolverInv, WakeInv, [ThrottleNext]_vars
  PROVE  WakeInv'
<1>1. CASE RunnerNext("wq")
  BY <1>1, WakeRunner DEF Runners
<1> QED
  BY <1>1, WakeRequest, WakeDispatch, WakeTimers, WakeThread, WakeSwitch DEF ThrottleNext

(* No wake-up is lost: a request waits with no run of the hardware queue   *)
(* due only behind a gate that is marked closed, for whoever opens a       *)
(* marked gate, a release, an applied decision or a fallback, runs the     *)
(* queues afterwards.                                                      *)
THEOREM ThrottleNoLostWakeup == Spec => []NoLostWakeup
<1>1. Init => WakeInv
  BY DEF Init, AccountingInit, WakeInv, QueuedIn
<1>2. Spec => []AccountingInv
  BY ThrottleImplementsAccounting, AccountingInvHolds, PTL
<1>3. WakeInv => NoLostWakeup
  <2>1. ~RunDue => Resting /\ ~Deciding
    BY DEF RunDue, Resting, Deciding
  <2> QED BY <2>1 DEF WakeInv, NoLostWakeup, Served
<1> QED BY <1>1, <1>2, <1>3, WakeNext, LockInvHolds, ControlInvHolds, ResolverInvHolds,
           PTL DEF Spec
=============================================================================
