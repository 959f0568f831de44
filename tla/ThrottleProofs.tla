---------------------------- MODULE ThrottleProofs ----------------------------
(***************************************************************************)
(* Proofs about Throttle, for every set of requests and dispatchers, every *)
(* window, queue depth and ratio.                                          *)
(*                                                                         *)
(* Two invariants carry them.  LockInv says what dd->lock is for: one      *)
(* dispatcher at a time holds a picked request; with it every step of the  *)
(* throttle is a step of RequestAccounting or leaves the accounting alone, *)
(* so that everything proved there holds of the whole system.  ControlInv  *)
(* is about the control fields: each critical section but the one that     *)
(* starts a decision is Tame, it leaves them consistent and may end what   *)
(* is pending but never put something else in its place; so a runner that  *)
(* read a decision and finds the same number pending applies what it read. *)
(***************************************************************************)
EXTENDS Throttle, RequestAccountingProofs

DispatchSteps ==
  {"idle", "has_work", "has_work_gate", "model", "arm_timer", "pick", "account"}

LockInv ==
  /\ dpc \in [Dispatchers -> DispatchSteps]
  /\ \A d \in Dispatchers : dpc[d] = "account" =>
       /\ pick \in Requests
       /\ \A e \in Dispatchers : dpc[e] = "account" => e = d

-----------------------------------------------------------------------------
(* Refinement of the accounting.                                           *)

LEMMA LockInit == Init => LockInv
BY DEF Init, LockInv, DispatchSteps

LEMMA LockUnchanged ==
  ASSUME LockInv, UNCHANGED <<dpc, pick>>
  PROVE  LockInv'
BY DEF LockInv

(* A dispatcher that does not pick leaves the lock as it is.               *)
LEMMA LockStep ==
  ASSUME LockInv, NEW d \in Dispatchers, NEW pc \in DispatchSteps \ {"account"},
         Step(d, pc), UNCHANGED pick \/ dpc[d] = "account"
  PROVE  LockInv'
BY DEF LockInv, Step

LEMMA LockPick ==
  ASSUME LockInv, NEW d \in Dispatchers, PickRequest(d)
  PROVE  LockInv'
<1>1. CASE Step(d, "account") /\ pick' \in Requests
  BY <1>1 DEF LockInv, Step, PickRequest, DdLockFree, DispatchSteps
<1>2. CASE Step(d, "idle") /\ UNCHANGED pick
  BY <1>2, LockStep DEF DispatchSteps
<1> QED BY <1>1, <1>2 DEF PickRequest, QueuedIn

LEMMA LockDispatch ==
  ASSUME LockInv, NEW d \in Dispatchers, DispatchNext(d)
  PROVE  LockInv'
<1>1. CASE HasWork(d)
  <2>1. UNCHANGED pick /\ \E pc \in {"model", "idle", "has_work_gate"} : Step(d, pc)
    BY <1>1 DEF HasWork
  <2> QED BY <2>1, LockStep DEF DispatchSteps
<1>2. CASE HasWorkGate(d)
  <2>1. UNCHANGED pick /\ \E pc \in {"model", "idle"} : Step(d, pc)
    BY <1>2 DEF HasWorkGate
  <2> QED BY <2>1, LockStep DEF DispatchSteps
<1>3. CASE DispatchModel(d)
  <2>1. UNCHANGED pick /\ \E pc \in {"pick", "arm_timer"} : Step(d, pc)
    BY <1>3 DEF DispatchModel
  <2> QED BY <2>1, LockStep DEF DispatchSteps
<1>4. CASE ArmModelTimer(d)
  BY <1>4, LockStep DEF ArmModelTimer, DispatchSteps
<1>5. CASE PickRequest(d)
  BY <1>5, LockPick
<1>6. CASE AccountPicked(d)
  BY <1>6, LockStep DEF AccountPicked, DispatchSteps
<1> QED BY <1>1, <1>2, <1>3, <1>4, <1>5, <1>6 DEF DispatchNext

(* What the block layer does to requests touches neither a dispatcher nor  *)
(* a runner nor the switch.                                                *)
LEMMA RequestFrame ==
  ASSUME RequestNext
  PROVE  UNCHANGED <<dpc, pick, infer, configVars>>
<1> DEFINE Frame == UNCHANGED <<dpc, pick, infer, configVars>>
<1>1. ASSUME NEW r, NEW sched, PrepareRequest(r, sched) PROVE Frame
  BY <1>1 DEF PrepareRequest, dispatchVars, workVars
<1>2. ASSUME NEW r, NEW q, InsertRequest(r, q) \/ IssueRequest(r, q) PROVE Frame
  BY <1>2 DEF InsertRequest, IssueRequest, workVars
<1>3. ASSUME NEW r, MergeRequest(r) PROVE Frame
  BY <1>3 DEF MergeRequest, dispatchVars, workVars
<1>4. ASSUME NEW r, RequeueRequest(r) PROVE Frame
  BY <1>4 DEF RequeueRequest, workVars
<1>5. ASSUME NEW r, DemoRefuse(r) PROVE Frame
  BY <1>5 DEF DemoRefuse, dispatchVars, workVars
<1>6. ASSUME NEW r, NEW slow, NEW tight, NEW mean_slow, NEW source, NEW level,
             CompleteRequest(r, slow, tight, mean_slow, source, level)
      PROVE  Frame
  BY <1>6 DEF CompleteRequest
<1>7. ASSUME NEW r, ReturnRequest(r) PROVE Frame
  BY <1>7 DEF ReturnRequest, workVars
<1> HIDE DEF Frame
<1>8. Frame
  BY <1>1, <1>2, <1>3, <1>4, <1>5, <1>6, <1>7 DEF RequestNext
<1> QED BY <1>8 DEF Frame

LEMMA LockNext ==
  ASSUME LockInv, [ThrottleNext]_vars
  PROVE  LockInv'
<1>1. CASE \E d \in Dispatchers : DispatchNext(d)
  BY <1>1, LockDispatch
<1>2. CASE RequestNext
  <2>1. UNCHANGED <<dpc, pick>>
    BY <1>2, RequestFrame
  <2> QED BY <2>1, LockUnchanged
<1>3. CASE ScheduleNext \/ TimerFires \/ TimeoutWork \/ OtherQueueUsesThread
  <2>1. UNCHANGED <<dpc, pick>>
    BY <1>3 DEF ScheduleNext, ArmTimer, QueueInference, QueueingFailed, TimerFires,
                TimeoutWork, OtherQueueUsesThread, dispatchVars
  <2> QED BY <2>1, LockUnchanged
<1>4. CASE RunnerNext("wq") \/ ThreadNext
  <2>1. UNCHANGED <<dpc, pick>>
    BY <1>4 DEF RunnerNext, ThreadNext, ReadDecision, ApplyDecision, ProviderError,
                CancelTimer, ThreadPicksUp, ThreadSnapshots, ThreadReleases, dispatchVars
  <2> QED BY <2>1, LockUnchanged
<1>5. CASE AdminNext \/ (\E on \in BOOLEAN : SetEnabled(on)) \/ UNCHANGED vars
  <2>1. UNCHANGED <<dpc, pick>>
    BY <1>5 DEF AdminNext, ResetContext, ResetCancelsTimer, ResetCancelsWorks,
                SwitchDone, SetEnabled, vars, dispatchVars
  <2> QED BY <2>1, LockUnchanged
<1> QED BY <1>1, <1>2, <1>3, <1>4, <1>5 DEF ThrottleNext

(* What a step of the throttle does to the accounting.                     *)
LEMMA StepAccounts ==
  ASSUME LockInv, [ThrottleNext]_vars
  PROVE  [AccountingNext]_accountingVars
<1>1. CASE RequestNext
  <2>1. PICK r \in Requests :
          \/ \E sched \in BOOLEAN : PrepareRequest(r, sched)
          \/ \E q \in Queues : InsertRequest(r, q) \/ IssueRequest(r, q)
          \/ MergeRequest(r)
          \/ RequeueRequest(r)
          \/ DemoRefuse(r)
          \/ \E slow, tight, mean_slow \in BOOLEAN, source \in Sources, level \in Levels :
               CompleteRequest(r, slow, tight, mean_slow, source, level)
          \/ ReturnRequest(r)
    BY <1>1 DEF RequestNext
  <2>2. CASE \E sched \in BOOLEAN : PrepareRequest(r, sched)
    BY <2>2 DEF PrepareRequest, AccountingNext
  <2>3. CASE \E q \in Queues : InsertRequest(r, q) \/ IssueRequest(r, q)
    <3>1. \E q \in QueueClasses : ClassifyRequest(r, q) \/ RecordIssue(r, q)
      BY <2>3, ThrottleAssumption DEF InsertRequest, IssueRequest
    <3> QED BY <3>1 DEF AccountingNext
  <2>4. CASE MergeRequest(r)
    BY <2>4 DEF MergeRequest, AccountingNext
  <2>5. CASE RequeueRequest(r)
    BY <2>5 DEF RequeueRequest, AccountingNext
  <2>6. CASE DemoRefuse(r)
    BY <2>6 DEF DemoRefuse
  <2>7. CASE \E slow, tight, mean_slow \in BOOLEAN, source \in Sources, level \in Levels :
               CompleteRequest(r, slow, tight, mean_slow, source, level)
    <3>1. RecordFinalComplete(r)
      BY <2>7 DEF CompleteRequest
    <3> QED BY <3>1 DEF AccountingNext
  <2>8. CASE ReturnRequest(r)
    BY <2>8 DEF ReturnRequest, AccountingNext
  <2> QED BY <2>1, <2>2, <2>3, <2>4, <2>5, <2>6, <2>7, <2>8
<1>2. CASE \E d \in Dispatchers : DispatchNext(d)
  <2>1. PICK d \in Dispatchers : DispatchNext(d)
    BY <1>2
  <2>2. CASE AccountPicked(d)
    <3>1. pick \in Requests /\ AccountDispatch(pick)
      BY <2>2 DEF AccountPicked, LockInv
    <3> QED BY <3>1 DEF AccountingNext
  <2>3. CASE ~AccountPicked(d)
    BY <2>1, <2>3 DEF DispatchNext, HasWork, HasWorkGate, DispatchModel, ArmModelTimer,
                      PickRequest
  <2> QED BY <2>2, <2>3
<1>3. CASE ScheduleNext \/ TimerFires \/ TimeoutWork \/ OtherQueueUsesThread
  BY <1>3 DEF ScheduleNext, ArmTimer, QueueInference, QueueingFailed, TimerFires,
              TimeoutWork, OtherQueueUsesThread
<1>4. CASE RunnerNext("wq") \/ ThreadNext
  BY <1>4 DEF RunnerNext, ThreadNext, ReadDecision, ApplyDecision, ProviderError,
              CancelTimer, ThreadPicksUp, ThreadSnapshots, ThreadReleases
<1>5. CASE AdminNext \/ (\E on \in BOOLEAN : SetEnabled(on)) \/ UNCHANGED vars
  BY <1>5 DEF AdminNext, ResetContext, ResetCancelsTimer, ResetCancelsWorks,
              SwitchDone, SetEnabled, vars
<1> QED BY <1>1, <1>2, <1>3, <1>4, <1>5 DEF ThrottleNext

LEMMA LockInvHolds == Spec => []LockInv
BY LockInit, LockNext, PTL DEF Spec

(* The throttle with all its actors treats every request as the accounting *)
(* says: no path through dispatch, tracepoints, inference or the switch    *)
(* touches a counter outside the handlers of RequestAccounting.            *)
THEOREM ThrottleImplementsAccounting == Spec => AccountingSpec
<1>1. Init => AccountingInit
  BY DEF Init
<1> QED BY <1>1, StepAccounts, LockInvHolds, PTL DEF Spec, AccountingSpec

(* So the counters the gate and the model read are exact in every          *)
(* interleaving of the whole throttle ...                                  *)
THEOREM ThrottleCountersExact == Spec => []CountersExact
BY ThrottleImplementsAccounting, AccountingCountersExact, PTL

(* ... and no interleaving counts a depth anomaly.                         *)
THEOREM ThrottleNoAnomaly == Spec => []NoAnomaly
BY ThrottleImplementsAccounting, AccountingNoAnomaly, PTL

-----------------------------------------------------------------------------
(* The control fields.                                                     *)

ControlShape ==
  [active : BOOLEAN, pending : BOOLEAN, timed_out : BOOLEAN, running : BOOLEAN,
   valid : BOOLEAN, state_valid : BOOLEAN,
   source : {"FIXED", "MODEL"}, level : AllLevels,
   limit : Nat, decision : Nat, applied : Nat,
   gate : {"none", "inference", "depth"},
   feedback : {"none", "dispatch", "issue", "complete"},
   bound : Requests \cup {None}, bound_to : Nat,
   votes : Nat, slow_votes : Nat, samples : Nat, slow : Nat, tight : BOOLEAN]

(* ControlConsistent and AppliedIsLatest as predicates of a control record *)
Consistent(c) ==
  /\ c.active => (c.pending # c.valid)
  /\ ~c.active => /\ ~c.pending /\ ~c.valid
                  /\ c.gate = "none" /\ c.feedback = "none"
  /\ c.valid => c.feedback # "none"
  /\ c.running => c.pending /\ c.source = "MODEL"
  /\ c.timed_out => c.pending
Latest(c) ==
  c.valid => /\ c.applied = c.decision
             /\ c.source = "FIXED" => c.limit = TargetDepth(c.level)

Good(c) == c \in ControlShape /\ Consistent(c) /\ Latest(c)

(* d may follow c unless a decision is started: nothing new is pending, no *)
(* throttle begins, and no decision number is used up.                     *)
Follows(c, d) ==
  /\ d.decision = c.decision
  /\ d.pending => c.pending /\ d.source = c.source /\ d.level = c.level
  /\ d.active => c.active
Tame(c, d) == Good(d) /\ Follows(c, d)

LEMMA TameRefl == ASSUME NEW c, Good(c) PROVE Tame(c, c)
BY DEF Tame, Follows

LEMMA TameTrans ==
  ASSUME NEW c, NEW d, NEW e, Tame(c, d), Tame(d, e)
  PROVE  Tame(c, e)
BY DEF Tame, Follows

LEMMA TargetDepthNat == \A level \in AllLevels : TargetDepth(level) \in Nat
<1> TAKE level \in AllLevels
<1>1. CASE level = "NO"
  BY <1>1 DEF TargetDepth
<1>2. CASE level # "NO"
  <2>1. QueueMax \in Nat /\ Ratio[level] \in Nat
    BY <1>2, ThrottleAssumption
  <2>2. QueueMax * Ratio[level] \in Nat
    BY <2>1
  <2> DEFINE n == QueueMax * Ratio[level]
  <2>3. (n + 99) \div 100 \in Nat
    <3> HIDE DEF n
    <3>1. n \in Nat BY <2>2 DEF n
    <3> QED BY <3>1
  <2> QED BY <1>2, <2>1, <2>3 DEF TargetDepth
<1> QED BY <1>1, <1>2

LEMMA FallbackTame == ASSUME NEW c, Good(c) PROVE Tame(c, Fallback(c))
BY DEF Good, Tame, Follows, ControlShape, Consistent, Latest, Fallback, Quiet, AllLevels

LEMMA OpenGateTame == ASSUME NEW c, Good(c) PROVE Tame(c, [c EXCEPT !.gate = "none"])
BY DEF Good, Tame, Follows, ControlShape, Consistent, Latest

LEMMA FallbackIfTame ==
  ASSUME NEW c, Good(c), NEW failed
  PROVE  Tame(c, FallbackIf(failed, c))
<1>1. CASE failed
  BY <1>1, FallbackTame DEF FallbackIf
<1>2. CASE ~failed
  BY <1>2, TameRefl DEF FallbackIf
<1> QED BY <1>1, <1>2

LEMMA InvalidatedTame == ASSUME NEW c, Good(c), NEW r PROVE Tame(c, Invalidated(c, r))
<1>1. CASE c.bound # r
  BY <1>1, TameRefl DEF Invalidated
<1>2. CASE c.bound = r
  <2> DEFINE d == Invalidated(c, r)
  <2>1. PICK f \in {"none", "dispatch"} :
          /\ f = "dispatch" <=> c.active /\ c.valid /\ ~c.pending
          /\ d = [c EXCEPT !.bound = None, !.bound_to = 0, !.feedback = f]
    <3>1. c \in ControlShape
      BY DEF Good
    <3>2. CASE c.active /\ c.valid /\ ~c.pending
      BY <1>2, <3>1, <3>2 DEF Invalidated, Unbound, ControlShape
    <3>3. CASE ~(c.active /\ c.valid /\ ~c.pending)
      BY <1>2, <3>1, <3>3 DEF Invalidated, Unbound, ControlShape
    <3> QED BY <3>2, <3>3
  <2> HIDE DEF d
  <2>2. /\ d \in ControlShape
        /\ d.active = c.active /\ d.pending = c.pending /\ d.valid = c.valid
        /\ d.timed_out = c.timed_out /\ d.running = c.running
        /\ d.source = c.source /\ d.level = c.level /\ d.limit = c.limit
        /\ d.decision = c.decision /\ d.applied = c.applied
        /\ d.gate = c.gate /\ d.feedback = f
    BY <2>1 DEF Good, ControlShape
  <2>3. Consistent(d)
    BY <2>1, <2>2 DEF Good, Consistent
  <2>4. Latest(d) /\ Follows(c, d)
    BY <2>2 DEF Good, Latest, Follows
  <2> QED BY <2>2, <2>3, <2>4 DEF Tame, Good, d
<1> QED BY <1>1, <1>2

LEMMA SampledTame ==
  ASSUME NEW c, Good(c), NEW slow \in BOOLEAN, NEW tight \in BOOLEAN
  PROVE  Tame(c, Sampled(c, slow, tight))
<1> DEFINE n == IF c.samples < Window THEN c.samples + 1 ELSE Window
           run == IF ~slow THEN 0 ELSE IF c.slow < Window THEN c.slow + 1 ELSE Window
           full == tight /\ n = Window
<1>1. n \in Nat /\ run \in Nat
  BY ThrottleAssumption DEF Good, ControlShape
<1>2. full \in BOOLEAN
  OBVIOUS
<1>3. Sampled(c, slow, tight) = [c EXCEPT !.samples = n, !.slow = run, !.tight = full]
  BY DEF Sampled
<1> DEFINE d == [c EXCEPT !.samples = n, !.slow = run, !.tight = full]
<1> HIDE DEF n, run, full
<1>4. d \in ControlShape
  BY <1>1, <1>2 DEF Good, ControlShape
<1>5. /\ d.active = c.active /\ d.pending = c.pending /\ d.valid = c.valid
      /\ d.timed_out = c.timed_out /\ d.running = c.running
      /\ d.source = c.source /\ d.level = c.level /\ d.limit = c.limit
      /\ d.decision = c.decision /\ d.applied = c.applied
      /\ d.gate = c.gate /\ d.feedback = c.feedback
  BY DEF Good, ControlShape
<1> HIDE DEF d
<1>6. Consistent(d)
  BY <1>5 DEF Good, Consistent
<1>7. Latest(d) /\ Follows(c, d)
  BY <1>5 DEF Good, Latest, Follows
<1>8. Sampled(c, slow, tight) = d
  BY <1>3 DEF d
<1> QED BY <1>4, <1>6, <1>7, <1>8 DEF Tame, Good

LEMMA AfterReleaseTame ==
  ASSUME NEW c, Good(c), NEW m
  PROVE  Tame(c, AfterRelease(c, m))
BY FallbackTame, OpenGateTame, TameRefl DEF AfterRelease, GateReleased

(* For a record that need not be consistent, as in the midst of a handler. *)
LEMMA FallbackShape == \A c \in ControlShape : Fallback(c) \in ControlShape
<1> TAKE c \in ControlShape
<1>1. PICK n \in Nat : n = c.decision
  BY DEF ControlShape
<1>2. Quiet \in ControlShape
  BY DEF Quiet, ControlShape, AllLevels
<1>3. [Quiet EXCEPT !.decision = n] \in ControlShape
  BY <1>2 DEF ControlShape
<1> QED BY <1>1, <1>3 DEF Fallback

LEMMA AfterReleaseShape ==
  ASSUME NEW c \in ControlShape, NEW m
  PROVE  AfterRelease(c, m) \in ControlShape
<1>1. [c EXCEPT !.gate = "none"] \in ControlShape
  BY DEF ControlShape
<1> QED BY <1>1, FallbackShape DEF AfterRelease, GateReleased

(* The gate is only marked while a throttle is active.                     *)
LEMMA CloseGateTame ==
  ASSUME Good(ctl), CloseGate
  PROVE  Tame(ctl, ctl')
<1>1. CASE NonHpAllowed
  BY <1>1, TameRefl DEF CloseGate
<1>2. CASE ~NonHpAllowed
  <2>1. ctl.active /\ GateReason \in {"inference", "depth"}
    BY <1>2 DEF NonHpAllowed, GateReason, CanRun, Good, Consistent
  <2>2. ctl' = [ctl EXCEPT !.gate = GateReason]
    BY <1>2 DEF CloseGate
  <2> QED BY <2>1, <2>2 DEF Good, Tame, Follows, ControlShape, Consistent, Latest
<1> QED BY <1>1, <1>2

-----------------------------------------------------------------------------
(* The runners and the switch.                                             *)

Inference ==
  [pc : {"idle", "run", "read", "apply", "cancel_timer", "release"},
   decision : Nat, source : {"FIXED", "MODEL"}, level : AllLevels]

(* What a runner read is what is pending, if the number is still the same. *)
Fresh(i, c) ==
  /\ i.decision <= c.decision
  /\ c.pending /\ i.decision = c.decision => i.source = c.source /\ i.level = c.level
RunnersFresh(inf, c) ==
  /\ inf \in [Runners -> Inference]
  /\ \A w \in Runners : inf[w].pc = "apply" => Fresh(inf[w], c)

SwitchInv ==
  /\ enabled \in BOOLEAN
  /\ admin \in [pc : {"idle", "reset", "timer", "works", "last"}, enable : BOOLEAN]
  /\ admin.pc # "idle" => ~enabled
  /\ ~enabled /\ admin.pc # "reset" => ~ctl.active

ControlInv == Good(ctl) /\ RunnersFresh(infer, ctl) /\ SwitchInv

LEMMA ControlInit == Init => ControlInv
<1> SUFFICES ASSUME Init PROVE ControlInv
  OBVIOUS
<1>1. Good(ctl)
  BY DEF Init, Good, ControlShape, Consistent, Latest, Quiet, AllLevels
<1>2. RunnersFresh(infer, ctl)
  BY DEF Init, RunnersFresh, Inference, Asleep, AllLevels
<1>3. SwitchInv
  BY ThrottleAssumption DEF Init, SwitchInv, Quiet
<1> QED BY <1>1, <1>2, <1>3 DEF ControlInv

LEMMA TameRunners ==
  ASSUME NEW c, NEW d, Good(c), Tame(c, d), NEW inf, RunnersFresh(inf, c)
  PROVE  RunnersFresh(inf, d)
BY DEF Tame, Follows, RunnersFresh, Fresh

(* Every tame step that leaves the switch alone keeps the invariant.       *)
LEMMA TameKeeps ==
  ASSUME ControlInv, Tame(ctl, ctl'), RunnersFresh(infer', ctl), UNCHANGED configVars
  PROVE  ControlInv'
<1>1. Good(ctl) /\ Good(ctl') /\ Follows(ctl, ctl')
  BY DEF ControlInv, Tame
<1>2. RunnersFresh(infer', ctl')
  BY <1>1, TameRunners
<1>3. SwitchInv'
  BY <1>1 DEF ControlInv, SwitchInv, configVars, Follows
<1> QED BY <1>1, <1>2, <1>3 DEF ControlInv

LEMMA StillKeeps ==
  ASSUME ControlInv, UNCHANGED <<ctl, infer, configVars>>
  PROVE  ControlInv'
BY TameKeeps, TameRefl DEF ControlInv

LEMMA RequestKeepsIfTame ==
  ASSUME ControlInv, Tame(ctl, ctl'), UNCHANGED <<infer, configVars>>
  PROVE  ControlInv'
BY TameKeeps DEF ControlInv

-----------------------------------------------------------------------------
(* Starting a decision.                                                    *)

LEMMA FallbackFollows ==
  ASSUME NEW c, Good(c), NEW d, d.decision = c.decision
  PROVE  Tame(c, Fallback(d))
BY DEF Good, Tame, Follows, ControlShape, Consistent, Latest, Fallback, Quiet, AllLevels

LEMMA StartedKeeps ==
  ASSUME ControlInv, enabled,
         NEW c \in ControlShape, c.decision = ctl.decision,
         NEW source \in {"FIXED", "MODEL"}, NEW level \in AllLevels,
         ctl' = Started(c, source, level), UNCHANGED <<infer, configVars>>
  PROVE  ControlInv'
<1>1. /\ ctl' \in ControlShape
      /\ ctl'.active /\ ctl'.pending /\ ~ctl'.valid /\ ~ctl'.running /\ ~ctl'.timed_out
      /\ ctl'.decision = c.decision + 1
  <2>1. PICK snapshot \in BOOLEAN, chosen \in AllLevels, next \in Nat :
          /\ snapshot = (source = "FIXED")
          /\ chosen = IF source = "FIXED" THEN level ELSE "NO"
          /\ next = c.decision + 1
    <3>1. c.decision + 1 \in Nat
      BY DEF ControlShape
    <3>2. CASE source = "FIXED"
      BY <3>1, <3>2
    <3>3. CASE source # "FIXED"
      BY <3>1, <3>3 DEF AllLevels
    <3> QED BY <3>2, <3>3
  <2>2. ctl' =
          [active |-> TRUE, pending |-> TRUE, timed_out |-> FALSE, running |-> FALSE,
           valid |-> FALSE, state_valid |-> snapshot, source |-> source,
           level |-> chosen, limit |-> c.limit, decision |-> next,
           applied |-> c.applied, gate |-> c.gate, feedback |-> "none",
           bound |-> None, bound_to |-> 0, votes |-> 0, slow_votes |-> 0,
           samples |-> c.samples, slow |-> c.slow, tight |-> c.tight]
    BY <2>1 DEF Started, NoFeedback, Unbound, ControlShape
  <2>3. /\ c.limit \in Nat /\ c.applied \in Nat /\ c.samples \in Nat /\ c.slow \in Nat
        /\ c.gate \in {"none", "inference", "depth"} /\ c.tight \in BOOLEAN
    BY DEF ControlShape
  <2>4. ctl' \in ControlShape
    BY <2>2, <2>3 DEF ControlShape
  <2> QED BY <2>1, <2>2, <2>4
<1>2. Good(ctl')
  BY <1>1 DEF Good, Consistent, Latest
<1>3. RunnersFresh(infer', ctl')
  <2>1. ctl.decision \in Nat
    BY DEF ControlInv, Good, ControlShape
  <2>2. ASSUME NEW w \in Runners, infer[w].pc = "apply"
        PROVE  Fresh(infer[w], ctl')
    <3>1. infer[w].decision \in Nat /\ infer[w].decision <= ctl.decision
      BY <2>2 DEF ControlInv, RunnersFresh, Fresh, Inference
    <3> QED BY <1>1, <2>1, <3>1 DEF Fresh
  <2> QED BY <2>2 DEF ControlInv, RunnersFresh
<1>4. SwitchInv'
  BY DEF ControlInv, SwitchInv, configVars
<1> QED BY <1>2, <1>3, <1>4 DEF ControlInv

-----------------------------------------------------------------------------
(* The handlers of requests.                                               *)

LEMMA FeedbackTame ==
  ASSUME NEW c, Good(c), c.active, NEW f \in {"dispatch", "issue", "complete"}
  PROVE  Tame(c, [c EXCEPT !.feedback = f])
BY DEF Good, Tame, Follows, ControlShape, Consistent, Latest

LEMMA IssueKeeps ==
  ASSUME ControlInv, NEW r \in Requests, NEW q \in Queues, IssueRequest(r, q)
  PROVE  ControlInv'
<1>1. UNCHANGED <<infer, configVars>>
  BY DEF IssueRequest, workVars
<1>2. \/ ctl' = Fallback(ctl)
      \/ ctl' = ctl
      \/ ctl.feedback = "issue" /\ ctl' = [ctl EXCEPT !.feedback = "complete"]
  BY DEF IssueRequest
<1>3. Good(ctl)
  BY DEF ControlInv
<1>4. ctl.feedback = "issue" => ctl.active
  BY <1>3 DEF Good, Consistent
<1>5. Tame(ctl, ctl')
  BY <1>2, <1>3, <1>4, FallbackTame, TameRefl, FeedbackTame
<1> QED BY <1>1, <1>5, RequestKeepsIfTame

LEMMA ReleaseTame ==
  ASSUME NEW c, Good(c), NEW d, Tame(c, d), NEW m
  PROVE  Tame(c, AfterRelease(d, m))
BY AfterReleaseTame, TameTrans DEF Tame

LEMMA ReturnKeeps ==
  ASSUME ControlInv, NEW r \in Requests, ReturnRequest(r)
  PROVE  ControlInv'
<1> DEFINE c == AfterRelease(Invalidated(ctl, r), meta[r])
<1>1. UNCHANGED <<infer, configVars>>
  BY DEF ReturnRequest, workVars
<1>2. Good(ctl)
  BY DEF ControlInv
<1>3. Tame(ctl, c) /\ Good(c)
  BY <1>2, InvalidatedTame, ReleaseTame DEF Tame
<1>4. ctl' = ctl \/ ctl' = FallbackIf(meta_inuse = 0, c)
  BY DEF ReturnRequest
<1> HIDE DEF c
<1>5. CASE ctl' = ctl
  BY <1>1, <1>5, StillKeeps
<1>6. CASE ctl' = FallbackIf(meta_inuse = 0, c)
  <2>1. Tame(c, ctl')
    BY <1>3, <1>6, FallbackIfTame
  <2> QED BY <1>1, <1>3, <2>1, TameTrans, RequestKeepsIfTame
<1> QED BY <1>4, <1>5, <1>6

LEMMA RequeueKeeps ==
  ASSUME ControlInv, NEW r \in Requests, RequeueRequest(r)
  PROVE  ControlInv'
<1>1. UNCHANGED <<infer, configVars>>
  BY DEF RequeueRequest, workVars
<1>2. Good(ctl)
  BY DEF ControlInv
<1>3. ctl' = ctl \/ ctl' = AfterRelease(Invalidated(ctl, r), meta[r])
  BY DEF RequeueRequest
<1>4. Tame(ctl, ctl')
  BY <1>2, <1>3, InvalidatedTame, ReleaseTame, TameRefl
<1> QED BY <1>1, <1>4, RequestKeepsIfTame

LEMMA CompleteKeeps ==
  ASSUME ControlInv, NEW r \in Requests,
         NEW slow \in BOOLEAN, NEW tight \in BOOLEAN, NEW mean_slow \in BOOLEAN,
         NEW source \in Sources, NEW level \in Levels,
         CompleteRequest(r, slow, tight, mean_slow, source, level)
  PROVE  ControlInv'
<1> DEFINE m == meta[r]
           c1 == IF Sampling(r) THEN Sampled(ctl, slow, tight) ELSE ctl
           trigger == Sampling(r) /\ ~c1.active /\ ~c1.pending /\ WindowSlow(c1)
           c2 == [Unbound(c1) EXCEPT !.votes = @ + 1,
                                     !.slow_votes = IF slow THEN @ + 1 ELSE @]
           last == Voting(r) /\ c2.votes = FeedbackMax
           again == last /\ MeanSlow(c2, mean_slow)
           recovered == last /\ ~again
           c3 == IF ~Voting(r) THEN Invalidated(c1, r)
                 ELSE IF recovered THEN Fallback(c2)
                 ELSE IF again THEN c2
                 ELSE [c2 EXCEPT !.feedback = "dispatch"]
           c4 == FallbackIf(meta_inuse = 0, AfterRelease(c3, m))
           starts == (trigger \/ again) /\ CanStart(c4, source)
           gives_up == again /\ ~starts
<1>1. UNCHANGED <<infer, configVars>>
  BY DEF CompleteRequest
<1>2. \/ ctl' = ctl
      \/ ctl' = IF starts THEN Started(c4, source, level) ELSE FallbackIf(gives_up, c4)
  BY DEF CompleteRequest
<1>3. Good(ctl)
  BY DEF ControlInv
<1>4. Tame(ctl, c1)
  BY <1>3, SampledTame, TameRefl
<1>5. /\ Voting(r) => c1.active
      /\ c1.decision = ctl.decision /\ c1 \in ControlShape
  <2>1. ctl.feedback = "complete" => ctl.active
    BY <1>3 DEF Good, Consistent
  <2>2. Sampled(ctl, slow, tight).active = ctl.active
    BY <1>3 DEF Sampled, Good, ControlShape
  <2> QED BY <1>3, <1>4, <2>1, <2>2 DEF Voting, Tame, Follows, Good
<1>6. c2 \in ControlShape /\ c2.decision = ctl.decision
  <2>1. PICK v \in Nat, sv \in Nat :
          c2 = [c1 EXCEPT !.bound = None, !.bound_to = 0, !.feedback = "none",
                          !.votes = v, !.slow_votes = sv]
    <3> HIDE DEF c1
    <3>1. c1.votes + 1 \in Nat /\ c1.slow_votes \in Nat /\ c1.slow_votes + 1 \in Nat
      BY <1>5 DEF ControlShape
    <3>2. CASE slow
      BY <1>5, <3>1, <3>2 DEF Unbound, ControlShape
    <3>3. CASE ~slow
      BY <1>5, <3>1, <3>3 DEF Unbound, ControlShape
    <3> QED BY <3>2, <3>3
  <2> HIDE DEF c1, c2
  <2> QED BY <1>5, <2>1 DEF ControlShape
<1>7. ~again => Tame(ctl, c3)
  <2> SUFFICES ASSUME ~again PROVE Tame(ctl, c3)
    OBVIOUS
  <2>1. CASE ~Voting(r)
    <3>1. c3 = Invalidated(c1, r)
      BY <2>1
    <3> HIDE DEF c1, c3
    <3> QED BY <1>4, <3>1, InvalidatedTame, TameTrans DEF Tame
  <2>2. CASE recovered /\ Voting(r)
    <3>1. c3 = Fallback(c2)
      BY <2>2
    <3> HIDE DEF c2, c3
    <3> QED BY <1>3, <1>6, <3>1, FallbackFollows
  <2>3. CASE ~recovered /\ Voting(r)
    <3>1. c3 = [c2 EXCEPT !.feedback = "dispatch"]
      BY <2>3
    <3>2. PICK v, sv : c2 = [Unbound(c1) EXCEPT !.votes = v, !.slow_votes = sv]
      OBVIOUS
    <3> HIDE DEF c1, c2, c3
    <3>3. c3 \in ControlShape
      BY <1>6, <3>1 DEF ControlShape
    <3>4. /\ c3.active = c1.active /\ c3.pending = c1.pending /\ c3.valid = c1.valid
          /\ c3.timed_out = c1.timed_out /\ c3.running = c1.running
          /\ c3.source = c1.source /\ c3.level = c1.level /\ c3.limit = c1.limit
          /\ c3.decision = c1.decision /\ c3.applied = c1.applied
          /\ c3.gate = c1.gate /\ c3.feedback = "dispatch"
      BY <1>5, <3>1, <3>2 DEF ControlShape, Unbound
    <3>5. Good(c1) /\ c1.active
      BY <1>4, <1>5, <2>3 DEF Tame
    <3>6. Consistent(c3)
      BY <3>4, <3>5 DEF Good, Consistent
    <3>7. Latest(c3) /\ Follows(c1, c3)
      BY <3>4, <3>5 DEF Good, Latest, Follows
    <3> QED BY <1>4, <3>3, <3>6, <3>7, TameTrans DEF Tame, Good
  <2> QED BY <2>1, <2>2, <2>3
<1>8. c3 \in ControlShape /\ c3.decision = ctl.decision
  <2>1. CASE again
    <3>1. c3 = c2
      BY <2>1 DEF Voting
    <3> HIDE DEF c2, c3
    <3> QED BY <1>6, <3>1
  <2>2. CASE ~again
    BY <1>7, <2>2 DEF Tame, Good, Follows
  <2> QED BY <2>1, <2>2
<1>9. c4 \in ControlShape /\ c4.decision = ctl.decision /\ (~again => Tame(ctl, c4))
  <2>1. \/ c4 = c3
        \/ c4 = [c3 EXCEPT !.gate = "none"]
        \/ c4 = Fallback(c3)
        \/ c4 = Fallback(AfterRelease(c3, m)) /\ AfterRelease(c3, m).decision = c3.decision
    <3> HIDE DEF c3
    <3> DEFINE a == AfterRelease(c3, m)
    <3>1. a = c3 \/ a = [c3 EXCEPT !.gate = "none"] \/ a = Fallback(c3)
      BY DEF AfterRelease, GateReleased
    <3>2. a.decision = c3.decision
      BY <1>8, <3>1 DEF Fallback, Quiet, ControlShape
    <3> HIDE DEF a
    <3>3. c4 = a \/ c4 = Fallback(a)
      BY DEF FallbackIf, a
    <3> QED BY <3>1, <3>2, <3>3 DEF a
  <2> HIDE DEF c3, c4, again, m
  <2>2. Good(ctl) /\ Tame(ctl, Fallback(c3))
    BY <1>3, <1>8, FallbackFollows
  <2>3. CASE c4 = c3
    BY <1>7, <1>8, <2>3
  <2>4. CASE c4 = [c3 EXCEPT !.gate = "none"]
    <3>1. c4 \in ControlShape /\ c4.decision = ctl.decision
      BY <1>8, <2>4 DEF ControlShape
    <3> QED BY <1>7, <2>4, <3>1, OpenGateTame, TameTrans DEF Tame
  <2>5. CASE c4 = Fallback(c3)
    BY <2>2, <2>5 DEF Tame, Good, Follows
  <2>6. CASE c4 = Fallback(AfterRelease(c3, m)) /\ AfterRelease(c3, m).decision = c3.decision
    <3>1. Tame(ctl, c4)
      BY <1>3, <1>8, <2>6, FallbackFollows
    <3> QED BY <3>1 DEF Tame, Good, Follows
  <2> QED BY <2>1, <2>3, <2>4, <2>5, <2>6
<1>10. CASE ctl' = ctl
  BY <1>1, <1>10, StillKeeps
<1>11. CASE starts /\ ctl' = Started(c4, source, level)
  <2>1. enabled
    BY <1>11 DEF CanStart
  <2>2. source \in {"FIXED", "MODEL"} /\ level \in AllLevels
    BY ThrottleAssumption
  <2> HIDE DEF c4
  <2> QED BY <1>1, <1>9, <1>11, <2>1, <2>2, StartedKeeps
<1>12. CASE ~starts /\ ctl' = FallbackIf(gives_up, c4)
  <2>1. CASE again
    <3>1. ctl' = Fallback(c4)
      BY <1>12, <2>1 DEF FallbackIf
    <3> HIDE DEF c4
    <3> QED BY <1>1, <1>3, <1>9, <3>1, FallbackFollows, RequestKeepsIfTame
  <2>2. CASE ~again
    <3>1. ctl' = c4
      BY <1>12, <2>2 DEF FallbackIf
    <3> HIDE DEF c4, again
    <3> QED BY <1>1, <1>9, <2>2, <3>1, RequestKeepsIfTame
  <2> QED BY <2>1, <2>2
<1> QED BY <1>2, <1>10, <1>11, <1>12

LEMMA RequestKeeps ==
  ASSUME ControlInv, RequestNext
  PROVE  ControlInv'
<1>1. Good(ctl)
  BY DEF ControlInv
<1>2. ASSUME NEW r \in Requests, NEW sched \in BOOLEAN, PrepareRequest(r, sched)
      PROVE  ControlInv'
  BY <1>2, StillKeeps DEF PrepareRequest, workVars
<1>3. ASSUME NEW r \in Requests, NEW q \in Queues, InsertRequest(r, q)
      PROVE  ControlInv'
  <2>1. PICK failed : ctl' = FallbackIf(failed, ctl)
    BY <1>3 DEF InsertRequest
  <2>2. Tame(ctl, ctl')
    BY <1>1, <2>1, FallbackIfTame
  <2>3. UNCHANGED <<infer, configVars>>
    BY <1>3 DEF InsertRequest, workVars
  <2> QED BY <2>2, <2>3, RequestKeepsIfTame
<1>4. ASSUME NEW r \in Requests, MergeRequest(r)
      PROVE  ControlInv'
  BY <1>4, StillKeeps DEF MergeRequest, workVars
<1>5. ASSUME NEW r \in Requests, DemoRefuse(r)
      PROVE  ControlInv'
  BY <1>5, StillKeeps DEF DemoRefuse, workVars
<1> QED
  BY <1>2, <1>3, <1>4, <1>5, IssueKeeps, RequeueKeeps, CompleteKeeps, ReturnKeeps
     DEF RequestNext

-----------------------------------------------------------------------------
(* The dispatch path.                                                      *)

LEMMA DispatchKeeps ==
  ASSUME ControlInv, LockInv, NEW d \in Dispatchers, DispatchNext(d)
  PROVE  ControlInv'
<1>1. Good(ctl)
  BY DEF ControlInv
<1>2. CASE HasWork(d) \/ ArmModelTimer(d)
  BY <1>2, StillKeeps DEF HasWork, ArmModelTimer, workVars
<1>3. CASE HasWorkGate(d)
  <2>1. CloseGate /\ UNCHANGED <<infer, configVars>>
    BY <1>3 DEF HasWorkGate, workVars
  <2> QED BY <1>1, <2>1, CloseGateTame, RequestKeepsIfTame
<1>4. CASE DispatchModel(d)
  <2>1. UNCHANGED <<infer, configVars>>
    BY <1>4 DEF DispatchModel
  <2>2. CASE ctl' = ctl \/ ctl' = Fallback(ctl)
    BY <1>1, <2>1, <2>2, TameRefl, FallbackTame, RequestKeepsIfTame
  <2>3. CASE ModelNeeded /\ ctl' = [ctl EXCEPT !.running = TRUE]
    <3>1. ctl.pending /\ ctl.source = "MODEL"
      BY <2>3 DEF ModelNeeded
    <3>2. Tame(ctl, ctl')
      BY <1>1, <2>3, <3>1 DEF Good, Tame, Follows, ControlShape, Consistent, Latest
    <3> QED BY <2>1, <3>2, RequestKeepsIfTame
  <2> QED BY <1>4, <2>2, <2>3 DEF DispatchModel
<1>5. CASE PickRequest(d)
  <2>1. UNCHANGED <<infer, configVars>>
    BY <1>5 DEF PickRequest, workVars
  <2>2. CloseGate \/ UNCHANGED ctl
    BY <1>5 DEF PickRequest
  <2> QED BY <1>1, <2>1, <2>2, CloseGateTame, StillKeeps, RequestKeepsIfTame
<1>6. CASE AccountPicked(d)
  <2>1. UNCHANGED <<infer, configVars>> /\ pick \in Requests
    BY <1>6 DEF AccountPicked, LockInv, workVars
  <2>2. PICK c : /\ c = ctl \/ c = Fallback(ctl)
                 /\ \/ ctl' = c
                    \/ InForce(c) /\ ctl' = [c EXCEPT !.bound = pick, !.feedback = "issue",
                                                      !.bound_to = c.applied]
    <3>1. FallbackIf(~priv[pick] \/ AccountFails(meta[pick]), ctl) \in {ctl, Fallback(ctl)}
      BY DEF FallbackIf
    <3> QED BY <1>6, <3>1 DEF AccountPicked
  <2>3. Tame(ctl, c)
    BY <1>1, <2>2, TameRefl, FallbackTame
  <2>4. CASE InForce(c) /\ ctl' = [c EXCEPT !.bound = pick, !.feedback = "issue",
                                            !.bound_to = c.applied]
    <3>1. Tame(c, ctl')
      BY <2>1, <2>3, <2>4
         DEF InForce, Good, Tame, Follows, ControlShape, Consistent, Latest
    <3> QED BY <2>1, <2>3, <3>1, TameTrans, RequestKeepsIfTame
  <2> QED BY <2>1, <2>2, <2>3, <2>4, RequestKeepsIfTame
<1> QED BY <1>2, <1>3, <1>4, <1>5, <1>6 DEF DispatchNext

-----------------------------------------------------------------------------
(* Scheduling, timers and the other queues.                                *)

LEMMA TimersKeep ==
  ASSUME ControlInv,
         ScheduleNext \/ TimerFires \/ TimeoutWork \/ OtherQueueUsesThread
  PROVE  ControlInv'
<1>1. Good(ctl)
  BY DEF ControlInv
<1>2. CASE ArmTimer \/ QueueInference \/ OtherQueueUsesThread
  BY <1>2, StillKeeps DEF ArmTimer, QueueInference, OtherQueueUsesThread
<1>3. CASE QueueingFailed \/ TimeoutWork
  <2>1. UNCHANGED <<infer, configVars>> /\ \E failed : ctl' = FallbackIf(failed, ctl)
    BY <1>3 DEF QueueingFailed, TimeoutWork
  <2> QED BY <1>1, <2>1, FallbackIfTame, RequestKeepsIfTame
<1>4. CASE TimerFires
  <2>1. UNCHANGED <<infer, configVars>>
    BY <1>4 DEF TimerFires
  <2>2. CASE ctl.pending
    <3>1. ctl' = [ctl EXCEPT !.timed_out = TRUE]
      BY <1>4, <2>2 DEF TimerFires
    <3>2. Tame(ctl, ctl')
      BY <1>1, <2>2, <3>1 DEF Good, Tame, Follows, ControlShape, Consistent, Latest
    <3> QED BY <2>1, <3>2, RequestKeepsIfTame
  <2>3. CASE ~ctl.pending
    BY <1>4, <2>1, <2>3, StillKeeps DEF TimerFires
  <2> QED BY <2>2, <2>3
<1> QED BY <1>2, <1>3, <1>4 DEF ScheduleNext

-----------------------------------------------------------------------------
(* The runners.                                                            *)

LEMMA StopTame ==
  ASSUME NEW c, Good(c)
  PROVE  Tame(c, [c EXCEPT !.running = FALSE])
BY DEF Good, Tame, Follows, ControlShape, Consistent, Latest

(* A runner that goes on without applying anything.                        *)
LEMMA RunnerMoves ==
  ASSUME NEW c, NEW inf, RunnersFresh(inf, c), NEW w \in Runners,
         NEW i \in Inference, i.pc = "apply" => Fresh(i, c)
  PROVE  RunnersFresh([inf EXCEPT ![w] = i], c)
BY DEF RunnersFresh

LEMMA RunnerGoes ==
  ASSUME RunnersFresh(infer, ctl), NEW w \in Runners,
         NEW pc \in {"idle", "run", "read", "cancel_timer", "release"}, Goto(w, pc)
  PROVE  RunnersFresh(infer', ctl)
<1>1. infer[w] \in Inference
  BY DEF RunnersFresh
<1>2. [infer[w] EXCEPT !.pc = pc] \in Inference /\ [infer[w] EXCEPT !.pc = pc].pc = pc
  BY <1>1 DEF Inference
<1>3. infer' = [infer EXCEPT ![w] = [infer[w] EXCEPT !.pc = pc]]
  BY DEF Goto
<1> QED BY <1>2, <1>3, RunnerMoves

LEMMA RunnerEnds ==
  ASSUME RunnersFresh(infer, ctl), NEW w \in Runners,
         infer' = [infer EXCEPT ![w] = [Asleep EXCEPT !.pc = WhenDone(w)]]
  PROVE  RunnersFresh(infer', ctl)
<1>1. /\ [Asleep EXCEPT !.pc = WhenDone(w)] \in Inference
      /\ [Asleep EXCEPT !.pc = WhenDone(w)].pc # "apply"
  BY DEF Asleep, WhenDone, Inference, AllLevels
<1> QED BY <1>1, RunnerMoves

LEMMA StopKeeps ==
  ASSUME ControlInv, NEW w \in Runners, StopRunning(w), UNCHANGED configVars
  PROVE  ControlInv'
<1>1. Good(ctl) /\ RunnersFresh(infer, ctl)
  BY DEF ControlInv
<1>2. Tame(ctl, ctl')
  BY <1>1, StopTame DEF StopRunning
<1>3. RunnersFresh(infer', ctl)
  BY <1>1, RunnerEnds DEF StopRunning
<1> QED BY <1>2, <1>3, TameKeeps

(* A result is applied only to the decision it was computed for: then what *)
(* the runner read is what is pending, so its level is the configured one. *)
LEMMA ApplyKeeps ==
  ASSUME ControlInv, NEW w \in Runners, NEW level \in Levels, ApplyDecision(w, level)
  PROVE  ControlInv'
<1>1. /\ Good(ctl) /\ RunnersFresh(infer, ctl) /\ UNCHANGED configVars
  BY DEF ControlInv, ApplyDecision
<1>2. CASE ~StillWanted(w)
  BY <1>1, <1>2, StopKeeps DEF ApplyDecision
<1>3. CASE StillWanted(w)
  <2>1. ctl.pending /\ infer[w].decision = ctl.decision
    BY <1>3 DEF StillWanted
  <2>2. infer[w].source = ctl.source /\ infer[w].level = ctl.level
    BY <1>1, <2>1 DEF ApplyDecision, RunnersFresh, Fresh
  <2>3. ctl.source = "FIXED" => level = ctl.level
    BY <2>2 DEF ApplyDecision
  <2>4. PICK limit \in Nat : limit = TargetDepth(level)
    BY TargetDepthNat, ThrottleAssumption
  <2>5. ctl' = [ctl EXCEPT !.limit = limit, !.valid = TRUE,
                  !.applied = ctl.decision, !.pending = FALSE,
                  !.timed_out = FALSE, !.running = FALSE,
                  !.feedback = "dispatch", !.gate = "none"]
    BY <1>3, <2>1, <2>4 DEF ApplyDecision
  <2>6. /\ ctl' \in ControlShape
        /\ ctl'.active = ctl.active /\ ~ctl'.pending /\ ctl'.valid
        /\ ~ctl'.timed_out /\ ~ctl'.running
        /\ ctl'.source = ctl.source /\ ctl'.level = ctl.level /\ ctl'.limit = limit
        /\ ctl'.decision = ctl.decision /\ ctl'.applied = ctl.decision
        /\ ctl'.gate = "none" /\ ctl'.feedback = "dispatch"
    BY <1>1, <2>5 DEF Good, ControlShape
  <2>7. ctl.active
    BY <1>1, <2>1 DEF Good, Consistent
  <2>8. Consistent(ctl')
    BY <2>6, <2>7 DEF Consistent
  <2>9. Latest(ctl')
    BY <2>3, <2>4, <2>6 DEF Latest
  <2>10. Follows(ctl, ctl')
    BY <2>6, <2>7 DEF Follows
  <2>11. RunnersFresh(infer', ctl)
    BY <1>1, <1>3, RunnerGoes DEF ApplyDecision
  <2> QED BY <1>1, <2>6, <2>8, <2>9, <2>10, <2>11, TameKeeps DEF Tame, Good
<1> QED BY <1>2, <1>3

LEMMA ReadKeeps ==
  ASSUME ControlInv, NEW w \in Runners, ReadDecision(w)
  PROVE  ControlInv'
<1>1. /\ Good(ctl) /\ RunnersFresh(infer, ctl) /\ UNCHANGED configVars
  BY DEF ControlInv, ReadDecision
<1>2. CASE StopRunning(w)
  BY <1>1, <1>2, StopKeeps
<1>3. CASE ~StopRunning(w)
  <2> DEFINE i == [pc |-> "apply", decision |-> ctl.decision,
                   source |-> ctl.source, level |-> ctl.level]
  <2>1. UNCHANGED ctl /\ infer' = [infer EXCEPT ![w] = i]
    BY <1>3 DEF ReadDecision
  <2>2. i \in Inference /\ Fresh(i, ctl)
    BY <1>1 DEF Good, ControlShape, Inference, Fresh
  <2> HIDE DEF i
  <2>3. RunnersFresh(infer', ctl)
    BY <1>1, <2>1, <2>2, RunnerMoves
  <2> QED BY <1>1, <2>1, <2>3, TameRefl, TameKeeps
<1> QED BY <1>2, <1>3

LEMMA RunnerKeeps ==
  ASSUME ControlInv, NEW w \in Runners, RunnerNext(w)
  PROVE  ControlInv'
<1>1. Good(ctl) /\ RunnersFresh(infer, ctl)
  BY DEF ControlInv
<1>2. CASE ReadDecision(w)
  BY <1>2, ReadKeeps
<1>3. CASE \E level \in Levels : ApplyDecision(w, level)
  BY <1>3, ApplyKeeps
<1>4. CASE ProviderError(w) \/ CancelTimer(w)
  <2>1. /\ UNCHANGED configVars
        /\ infer' = [infer EXCEPT ![w] = [Asleep EXCEPT !.pc = WhenDone(w)]]
        /\ ctl' = ctl \/ ctl' = Fallback(ctl)
    BY <1>4 DEF ProviderError, CancelTimer, FallbackIf
  <2>2. Tame(ctl, ctl')
    BY <1>1, <2>1, TameRefl, FallbackTame
  <2> QED BY <1>1, <2>1, <2>2, RunnerEnds, TameKeeps
<1> QED BY <1>2, <1>3, <1>4 DEF RunnerNext

LEMMA ThreadKeeps ==
  ASSUME ControlInv, ThreadNext
  PROVE  ControlInv'
<1>1. Good(ctl) /\ RunnersFresh(infer, ctl) /\ "thread" \in Runners
  BY DEF ControlInv, Runners
<1>2. CASE ThreadPicksUp \/ ThreadReleases
  <2>1. UNCHANGED <<ctl, configVars>> /\ \E pc \in {"run", "idle"} : Goto("thread", pc)
    BY <1>2 DEF ThreadPicksUp, ThreadReleases
  <2>2. RunnersFresh(infer', ctl)
    BY <1>1, <2>1, RunnerGoes
  <2> QED BY <1>1, <2>1, <2>2, TameRefl, TameKeeps
<1>3. CASE ThreadSnapshots
  <2>1. UNCHANGED configVars
    BY <1>3 DEF ThreadSnapshots
  <2>2. CASE StopRunning("thread")
    BY <1>1, <2>1, <2>2, StopKeeps
  <2>3. CASE ctl' = [ctl EXCEPT !.state_valid = TRUE] /\ Goto("thread", "read")
    <3>1. Tame(ctl, ctl')
      BY <1>1, <2>3 DEF Good, Tame, Follows, ControlShape, Consistent, Latest
    <3>2. RunnersFresh(infer', ctl)
      BY <1>1, <2>3, RunnerGoes
    <3> QED BY <2>1, <3>1, <3>2, TameKeeps
  <2>4. CASE ctl' = Fallback(ctl) /\ Goto("thread", "cancel_timer")
    <3>1. RunnersFresh(infer', ctl)
      BY <1>1, <2>4, RunnerGoes
    <3> QED BY <1>1, <2>1, <2>4, <3>1, FallbackTame, TameKeeps
  <2> QED BY <1>3, <2>2, <2>3, <2>4 DEF ThreadSnapshots
<1>4. CASE RunnerNext("thread")
  BY <1>1, <1>4, RunnerKeeps
<1> QED BY <1>2, <1>3, <1>4 DEF ThreadNext

-----------------------------------------------------------------------------
(* The switch: enabled is off from the first step of a switching to the    *)
(* last, and the reset that lies between them ends every decision.         *)

LEMMA SwitchKeeps ==
  ASSUME ControlInv, AdminNext \/ \E on \in BOOLEAN : SetEnabled(on)
  PROVE  ControlInv'
<1>1. Good(ctl) /\ RunnersFresh(infer, ctl) /\ SwitchInv
  BY DEF ControlInv
<1>2. CASE \E on \in BOOLEAN : SetEnabled(on)
  <2>1. PICK on \in BOOLEAN : /\ enabled' = FALSE
                              /\ admin' = [pc |-> "reset", enable |-> on]
    BY <1>2 DEF SetEnabled
  <2>2. admin' \in [pc : {"idle", "reset", "timer", "works", "last"}, enable : BOOLEAN]
    BY <2>1
  <2>3. admin'.pc = "reset"
    BY <2>1
  <2>4. SwitchInv'
    BY <2>1, <2>2, <2>3 DEF SwitchInv
  <2>5. UNCHANGED <<ctl, infer>>
    BY <1>2 DEF SetEnabled, workVars
  <2> QED BY <1>1, <2>4, <2>5 DEF ControlInv
<1>3. CASE ResetContext
  <2>1. ctl' = Fallback(ctl) /\ UNCHANGED infer
    BY <1>3 DEF ResetContext, workVars
  <2>2. Tame(ctl, ctl')
    BY <1>1, <2>1, FallbackTame
  <2>3. ~ctl'.active
    BY <2>1 DEF Fallback, Quiet
  <2>4. SwitchInv'
    BY <1>1, <1>3, <2>3 DEF SwitchInv, ResetContext
  <2> QED BY <1>1, <2>1, <2>2, <2>4, TameRunners DEF ControlInv, Tame
<1>4. CASE ResetCancelsTimer \/ ResetCancelsWorks \/ SwitchDone
  <2>1. UNCHANGED <<ctl, infer>>
    BY <1>4 DEF ResetCancelsTimer, ResetCancelsWorks, SwitchDone, workVars
  <2>2. SwitchInv'
    BY <1>1, <1>4, <2>1 DEF SwitchInv, ResetCancelsTimer, ResetCancelsWorks, SwitchDone
  <2> QED BY <1>1, <2>1, <2>2 DEF ControlInv
<1> QED BY <1>2, <1>3, <1>4 DEF AdminNext

-----------------------------------------------------------------------------
(* The control invariant, and the theorems.                                *)

LEMMA ControlNext ==
  ASSUME ControlInv, LockInv, [ThrottleNext]_vars
  PROVE  ControlInv'
<1>1. CASE UNCHANGED vars
  BY <1>1, StillKeeps DEF vars, workVars
<1>2. CASE RunnerNext("wq")
  BY <1>2, RunnerKeeps DEF Runners
<1> QED
  BY <1>1, <1>2, RequestKeeps, DispatchKeeps, TimersKeep, ThreadKeeps, SwitchKeeps
     DEF ThrottleNext

LEMMA ControlInvHolds == Spec => []ControlInv
BY ControlInit, ControlNext, LockInvHolds, PTL DEF Spec

(* The control fields of every queue agree with each other after every     *)
(* critical section: at most one of pending and in force, no gate, binding *)
(* or running inference without a decision.                                *)
THEOREM ThrottleControlConsistent == Spec => []ControlConsistent
<1>1. ControlInv => ControlConsistent
  BY DEF ControlInv, Good, Consistent, ControlConsistent
<1> QED BY <1>1, ControlInvHolds, PTL

(* Whatever the runners of inference_work computed and however late they   *)
(* come back, the target depth in force is that of the latest decision.    *)
THEOREM ThrottleAppliedIsLatest == Spec => []AppliedIsLatest
<1>1. ControlInv => AppliedIsLatest
  BY DEF ControlInv, Good, Latest, AppliedIsLatest
<1> QED BY <1>1, ControlInvHolds, PTL

(* After set_enabled has reset the queue and until it is switched on again *)
(* no completion, dispatch, timer or work item revives the throttle.       *)
THEOREM ThrottleDisabledQuiet == Spec => []DisabledQuiet
<1>1. ControlInv => DisabledQuiet
  BY DEF ControlInv, Good, Consistent, SwitchInv, DisabledQuiet, Blocked
<1> QED BY <1>1, ControlInvHolds, PTL
-----------------------------------------------------------------------------
(***************************************************************************)
(* The gate of Throttle, for every value of its constants: it is marked    *)
(* closed only while there is a reason (GateHasReason).                    *)
(*                                                                         *)
(* The mark is among the control fields and the reason among them and the  *)
(* accounting, which other critical sections change.  Accounting another   *)
(* request can only strengthen the reason; a release, which weakens it,    *)
(* opens the gate it made room for; every other step either opens the gate *)
(* or touches nothing the gate looks at (Excused).                         *)
(*                                                                         *)
(* The other place that compares the depth with the target is the UFS hook *)
(* of demo mode; that it leaves the target in use (RefusalLeavesTarget)    *)
(* follows from the exact counters.                                        *)
(***************************************************************************)

(* GateHasReason as a predicate of the control fields and the depth.       *)
Reasoned(c, bg) == Blocked(c) => c.pending \/ ~CanRun(c, bg)

LEMMA BgDepthNat == ASSUME AccountingInv PROVE bg_current_depth \in Nat
<1>1. bg_current_depth = Cardinality(BgReserved) /\ BgReserved \subseteq Requests
  BY DEF AccountingInv, CountersExact, BgReserved
<1>2. IsFiniteSet(BgReserved)
  BY <1>1, AccountingAssumption, FS_Subset
<1> QED BY <1>1, <1>2, FS_CardinalityType

(* More background requests do not take the reason away.                   *)
LEMMA GateDeeper ==
  ASSUME NEW c, c.limit \in Nat, NEW bg \in Nat, NEW more \in Nat, bg <= more,
         Reasoned(c, bg)
  PROVE  Reasoned(c, more)
BY DEF Reasoned, CanRun

(* Neither does a change of fields that the gate does not look at.         *)
LEMMA GateAlike ==
  ASSUME NEW c, NEW d, NEW bg, Reasoned(c, bg),
         d.gate = c.gate, d.pending = c.pending, d.active = c.active,
         d.valid = c.valid, d.limit = c.limit
  PROVE  Reasoned(d, bg)
BY DEF Reasoned, Blocked, CanRun

LEMMA GateFallback == \A c, bg : Reasoned(Fallback(c), bg)
BY DEF Reasoned, Blocked, Fallback, Quiet

LEMMA GateFallbackIf ==
  ASSUME NEW c, NEW bg, Reasoned(c, bg), NEW failed
  PROVE  Reasoned(FallbackIf(failed, c), bg)
BY GateFallback DEF FallbackIf

(* A reservation is released: either the gate is opened, or there is still *)
(* no room, or nothing was released.                                       *)
LEMMA GateRelease ==
  ASSUME NEW c, NEW m, Reasoned(c, bg_current_depth), ReleaseCounters(m),
         c \in ControlShape
  PROVE  Reasoned(AfterRelease(c, m), bg_current_depth')
<1>1. CASE ReleaseFails(m) /\ c.active
  BY <1>1, GateFallback DEF AfterRelease
<1>2. CASE ~(ReleaseFails(m) /\ c.active)
  <2>1. AfterRelease(c, m) = GateReleased(c, m, bg_current_depth')
    BY <1>2 DEF AfterRelease
  <2>2. CASE Opens(c, m, bg_current_depth')
    <3>1. GateReleased(c, m, bg_current_depth') = [c EXCEPT !.gate = "none"]
      BY <2>2 DEF GateReleased
    <3>2. [c EXCEPT !.gate = "none"].gate = "none"
      BY DEF ControlShape
    <3> QED BY <2>1, <3>1, <3>2 DEF Reasoned, Blocked
  <2>3. CASE ~Opens(c, m, bg_current_depth')
    <3>1. AfterRelease(c, m) = c
      BY <2>1, <2>3 DEF GateReleased
    <3>2. CASE m.depth
      BY <2>3, <3>1, <3>2 DEF Opens, Reasoned
    <3>3. CASE ~m.depth
      <4>1. bg_current_depth' = bg_current_depth
        BY <3>3 DEF ReleaseCounters, ReleasesBg
      <4> QED BY <3>1, <4>1
    <3> QED BY <3>2, <3>3
  <2> QED BY <2>2, <2>3
<1> QED BY <1>1, <1>2

LEMMA GateInvalidated ==
  ASSUME NEW c \in ControlShape, NEW bg, Reasoned(c, bg), NEW r
  PROVE  Reasoned(Invalidated(c, r), bg)
<1> DEFINE d == Invalidated(c, r)
<1>1. /\ d.gate = c.gate /\ d.pending = c.pending /\ d.active = c.active
      /\ d.valid = c.valid /\ d.limit = c.limit
  BY DEF Invalidated, Unbound, ControlShape
<1> HIDE DEF d
<1>2. Reasoned(d, bg)  BY <1>1, GateAlike
<1> QED BY <1>2 DEF d

-----------------------------------------------------------------------------
(* The handlers of requests.                                               *)

LEMMA DepthGrows ==
  ASSUME AccountingInv, NEW m, AccountDepth(m)
  PROVE  bg_current_depth' \in Nat /\ bg_current_depth <= bg_current_depth'
BY BgDepthNat DEF AccountDepth

LEMMA GateIssue ==
  ASSUME AccountingInv, ControlInv, GateHasReason,
         NEW r \in Requests, NEW q \in Queues, IssueRequest(r, q)
  PROVE  GateHasReason'
<1>1. bg_current_depth \in Nat /\ ctl \in ControlShape /\ Reasoned(ctl, bg_current_depth)
  BY BgDepthNat DEF ControlInv, Good, GateHasReason, Reasoned
<1>2. bg_current_depth' \in Nat /\ bg_current_depth <= bg_current_depth'
  BY <1>1, DepthGrows DEF IssueRequest, RecordIssue
<1>3. Reasoned(ctl, bg_current_depth')
  BY <1>1, <1>2, GateDeeper DEF ControlShape
<1>4. \/ ctl' = Fallback(ctl)
      \/ ctl' = ctl
      \/ ctl' = [ctl EXCEPT !.feedback = "complete"]
  BY DEF IssueRequest
<1>5. CASE ctl' = [ctl EXCEPT !.feedback = "complete"]
  <2>1. /\ ctl'.gate = ctl.gate /\ ctl'.pending = ctl.pending
        /\ ctl'.active = ctl.active /\ ctl'.valid = ctl.valid /\ ctl'.limit = ctl.limit
    BY <1>1, <1>5 DEF ControlShape
  <2> QED BY <1>3, <2>1, GateAlike DEF GateHasReason, Reasoned
<1> QED BY <1>3, <1>4, <1>5, GateFallback DEF GateHasReason, Reasoned

(* A change of the control fields alone that keeps the gate's reason: it   *)
(* opens the gate, or waits for inference, or touches nothing of the gate. *)
Excused(c, d) ==
  Blocked(d) =>
    \/ d.pending
    \/ /\ Blocked(c)
       /\ d.pending = c.pending /\ d.active = c.active
       /\ d.valid = c.valid /\ d.limit = c.limit

LEMMA GateExcused ==
  ASSUME NEW c, NEW d, NEW bg, Reasoned(c, bg), Excused(c, d)
  PROVE  Reasoned(d, bg)
BY DEF Reasoned, Excused, CanRun

LEMMA GateExcusedStep ==
  ASSUME GateHasReason, Excused(ctl, ctl'), UNCHANGED bg_current_depth
  PROVE  GateHasReason'
<1>1. Reasoned(ctl, bg_current_depth)
  BY DEF GateHasReason, Reasoned
<1>2. Reasoned(ctl', bg_current_depth)
  BY <1>1, GateExcused
<1> QED BY <1>2 DEF GateHasReason, Reasoned

LEMMA ExcusedFallback == \A c, d : Excused(c, Fallback(d))
BY DEF Excused, Blocked, Fallback, Quiet

LEMMA ExcusedRefl == \A c : Excused(c, c)
BY DEF Excused

LEMMA ExcusedFallbackIf == \A c, failed : Excused(c, FallbackIf(failed, c))
BY ExcusedFallback, ExcusedRefl DEF FallbackIf

LEMMA GateRequeue ==
  ASSUME ControlInv, GateHasReason, NEW r \in Requests, RequeueRequest(r)
  PROVE  GateHasReason'
<1>1. ctl \in ControlShape /\ Reasoned(ctl, bg_current_depth)
  BY DEF ControlInv, Good, GateHasReason, Reasoned
<1>2. CASE meta[r].held
  <2>1. ctl' = AfterRelease(Invalidated(ctl, r), meta[r]) /\ ReleaseCounters(meta[r])
    BY <1>2 DEF RequeueRequest, RecordRequeue
  <2>2. Invalidated(ctl, r) \in ControlShape
    BY InvalidatedTame DEF ControlInv, Tame, Good
  <2>3. Reasoned(Invalidated(ctl, r), bg_current_depth)
    BY <1>1, GateInvalidated
  <2>4. Reasoned(ctl', bg_current_depth')
    BY <2>1, <2>2, <2>3, GateRelease
  <2> QED BY <2>4 DEF GateHasReason, Reasoned
<1>3. CASE ~meta[r].held
  <2>1. UNCHANGED <<ctl, bg_current_depth>>
    BY <1>3 DEF RequeueRequest, RecordRequeue
  <2> QED BY <2>1, ExcusedRefl, GateExcusedStep
<1> QED BY <1>2, <1>3

LEMMA GateReturn ==
  ASSUME ControlInv, GateHasReason, NEW r \in Requests, ReturnRequest(r)
  PROVE  GateHasReason'
<1>1. ctl \in ControlShape /\ Reasoned(ctl, bg_current_depth)
  BY DEF ControlInv, Good, GateHasReason, Reasoned
<1>2. CASE use_sched[r] /\ priv[r]
  <2>1. /\ ctl' = FallbackIf(meta_inuse = 0, AfterRelease(Invalidated(ctl, r), meta[r]))
        /\ ReleaseCounters(meta[r])
    BY <1>2 DEF ReturnRequest, FinishRequest, ReleaseAndFree
  <2>2. Invalidated(ctl, r) \in ControlShape
    BY InvalidatedTame DEF ControlInv, Tame, Good
  <2>3. Reasoned(Invalidated(ctl, r), bg_current_depth)
    BY <1>1, GateInvalidated
  <2>4. Reasoned(AfterRelease(Invalidated(ctl, r), meta[r]), bg_current_depth')
    BY <2>1, <2>2, <2>3, GateRelease
  <2>5. Reasoned(ctl', bg_current_depth')
    BY <2>1, <2>4, GateFallbackIf
  <2> QED BY <2>5 DEF GateHasReason, Reasoned
<1>3. CASE ~(use_sched[r] /\ priv[r])
  <2>1. UNCHANGED <<ctl, bg_current_depth>>
    BY <1>3 DEF ReturnRequest, FinishRequest, counters
  <2> QED BY <2>1, ExcusedRefl, GateExcusedStep
<1> QED BY <1>2, <1>3

(* The vote of a completed sample does not touch the gate.                 *)
LEMMA GateVoted ==
  ASSUME NEW c \in ControlShape, NEW bg, Reasoned(c, bg), NEW slow \in BOOLEAN
  PROVE  LET d == [Unbound(c) EXCEPT !.votes = @ + 1,
                                     !.slow_votes = IF slow THEN @ + 1 ELSE @]
         IN  d \in ControlShape /\ Reasoned(d, bg)
<1> DEFINE d == [Unbound(c) EXCEPT !.votes = @ + 1,
                                   !.slow_votes = IF slow THEN @ + 1 ELSE @]
<1>1. PICK v \in Nat, sv \in Nat :
        d = [c EXCEPT !.bound = None, !.bound_to = 0, !.feedback = "none",
                      !.votes = v, !.slow_votes = sv]
  <2>1. c.votes + 1 \in Nat /\ c.slow_votes \in Nat /\ c.slow_votes + 1 \in Nat
    BY DEF ControlShape
  <2>2. CASE slow
    BY <2>1, <2>2 DEF Unbound, ControlShape
  <2>3. CASE ~slow
    BY <2>1, <2>3 DEF Unbound, ControlShape
  <2> QED BY <2>2, <2>3
<1> HIDE DEF d
<1>2. /\ d \in ControlShape
      /\ d.gate = c.gate /\ d.pending = c.pending /\ d.active = c.active
      /\ d.valid = c.valid /\ d.limit = c.limit
  BY <1>1 DEF ControlShape
<1>3. Reasoned(d, bg)  BY <1>2, GateAlike
<1> QED BY <1>2, <1>3 DEF d

(* A final completion: each of its steps either falls back or leaves the   *)
(* gate's fields alone, the release may open the gate, and a new decision  *)
(* is what the gate then waits for.                                        *)
LEMMA GateComplete ==
  ASSUME ControlInv, GateHasReason, NEW r \in Requests,
         NEW slow \in BOOLEAN, NEW tight \in BOOLEAN, NEW mean_slow \in BOOLEAN,
         NEW source \in Sources, NEW level \in Levels,
         CompleteRequest(r, slow, tight, mean_slow, source, level)
  PROVE  GateHasReason'
<1> DEFINE m == meta[r]
           c1 == IF Sampling(r) THEN Sampled(ctl, slow, tight) ELSE ctl
           trigger == Sampling(r) /\ ~c1.active /\ ~c1.pending /\ WindowSlow(c1)
           c2 == [Unbound(c1) EXCEPT !.votes = @ + 1,
                                     !.slow_votes = IF slow THEN @ + 1 ELSE @]
           last == Voting(r) /\ c2.votes = FeedbackMax
           again == last /\ MeanSlow(c2, mean_slow)
           recovered == last /\ ~again
           c3 == IF ~Voting(r) THEN Invalidated(c1, r)
                 ELSE IF recovered THEN Fallback(c2)
                 ELSE IF again THEN c2
                 ELSE [c2 EXCEPT !.feedback = "dispatch"]
           c4 == FallbackIf(meta_inuse = 0, AfterRelease(c3, m))
           starts == (trigger \/ again) /\ CanStart(c4, source)
           gives_up == again /\ ~starts
<1>1. CASE ~m.held
  <2>1. UNCHANGED <<ctl, bg_current_depth>>
    BY <1>1 DEF CompleteRequest, RecordFinalComplete, counters
  <2> QED BY <2>1, ExcusedRefl, GateExcusedStep
<1>2. CASE m.held
  <2>1. ReleaseCounters(m)
    BY <1>2 DEF CompleteRequest, RecordFinalComplete, ReleaseAndFree
  <2>2. ctl' = IF starts THEN Started(c4, source, level) ELSE FallbackIf(gives_up, c4)
    BY <1>2 DEF CompleteRequest
  <2>3. Good(c1) /\ Reasoned(c1, bg_current_depth)
    <3>1. Good(ctl) /\ Reasoned(ctl, bg_current_depth)
      BY DEF ControlInv, GateHasReason, Reasoned
    <3>2. Reasoned(Sampled(ctl, slow, tight), bg_current_depth)
      <4> DEFINE d == Sampled(ctl, slow, tight)
      <4>1. /\ d.gate = ctl.gate /\ d.pending = ctl.pending /\ d.active = ctl.active
            /\ d.valid = ctl.valid /\ d.limit = ctl.limit
        BY <3>1 DEF Sampled, Good, ControlShape
      <4> HIDE DEF d
      <4>2. Reasoned(d, bg_current_depth)
        BY <3>1, <4>1, GateAlike
      <4> QED BY <4>2 DEF d
    <3> QED BY <3>1, <3>2, SampledTame DEF Tame
  <2>4. c2 \in ControlShape /\ Reasoned(c2, bg_current_depth)
    <3> HIDE DEF c1
    <3> QED BY <2>3, GateVoted DEF Good
  <2>5. c3 \in ControlShape /\ Reasoned(c3, bg_current_depth)
    <3> HIDE DEF c1, c2
    <3>1. CASE ~Voting(r)
      BY <2>3, <3>1, GateInvalidated, InvalidatedTame DEF Good, Tame
    <3>2. Fallback(c2) \in ControlShape
      BY <2>4, FallbackShape
    <3>3. /\ [c2 EXCEPT !.feedback = "dispatch"] \in ControlShape
          /\ Reasoned([c2 EXCEPT !.feedback = "dispatch"], bg_current_depth)
      BY <2>4 DEF ControlShape, Reasoned, Blocked, CanRun
    <3> QED BY <2>4, <3>1, <3>2, <3>3, GateFallback
  <2>6. Reasoned(c4, bg_current_depth')
    <3> HIDE DEF c3, m
    <3> QED BY <2>1, <2>5, GateRelease, GateFallbackIf
  <2>7. CASE ~starts
    <3> HIDE DEF c4, gives_up, starts
    <3> QED BY <2>2, <2>6, <2>7, GateFallbackIf DEF GateHasReason, Reasoned
  <2>8. CASE starts
    <3>1. c4 \in ControlShape
      <4> HIDE DEF c3, m
      <4>1. AfterRelease(c3, m) \in ControlShape
        BY <2>5, AfterReleaseShape
      <4> QED BY <4>1, FallbackShape DEF FallbackIf
    <3> HIDE DEF c4, starts
    <3>2. ctl'.pending
      BY <2>2, <2>8, <3>1 DEF Started, NoFeedback, Unbound, ControlShape
    <3> QED BY <3>2 DEF GateHasReason
  <2> QED BY <2>7, <2>8
<1> QED BY <1>1, <1>2

LEMMA GateRequest ==
  ASSUME AccountingInv, ControlInv, GateHasReason, RequestNext
  PROVE  GateHasReason'
<1>1. ASSUME NEW r, NEW sched, PrepareRequest(r, sched) PROVE GateHasReason'
  <2>1. UNCHANGED <<ctl, bg_current_depth>>
    BY <1>1 DEF PrepareRequest, Prepare, counters
  <2> QED BY <2>1, ExcusedRefl, GateExcusedStep
<1>2. ASSUME NEW r, NEW q, InsertRequest(r, q) PROVE GateHasReason'
  <2>1. UNCHANGED bg_current_depth /\ \E failed : ctl' = FallbackIf(failed, ctl)
    BY <1>2 DEF InsertRequest, ClassifyRequest
  <2> QED BY <2>1, ExcusedFallbackIf, GateExcusedStep
<1>3. ASSUME NEW r, MergeRequest(r) PROVE GateHasReason'
  <2>1. UNCHANGED <<ctl, bg_current_depth>>
    BY <1>3 DEF MergeRequest, UnqueueRequest
  <2> QED BY <2>1, ExcusedRefl, GateExcusedStep
<1>4. ASSUME NEW r, DemoRefuse(r) PROVE GateHasReason'
  <2>1. UNCHANGED <<ctl, bg_current_depth>>
    BY <1>4 DEF DemoRefuse, accountingVars, counters
  <2> QED BY <2>1, ExcusedRefl, GateExcusedStep
<1> QED
  BY <1>1, <1>2, <1>3, <1>4, GateIssue, GateRequeue, GateReturn, GateComplete
     DEF RequestNext

-----------------------------------------------------------------------------
(* The dispatch path closes the gate for its reason only.                  *)

LEMMA GateClosed ==
  ASSUME ControlInv, GateHasReason, CloseGate, UNCHANGED bg_current_depth
  PROVE  GateHasReason'
<1>1. CASE NonHpAllowed
  <2>1. ctl' = ctl
    BY <1>1 DEF CloseGate
  <2> QED BY <2>1, ExcusedRefl, GateExcusedStep
<1>2. CASE ~NonHpAllowed
  <2>1. ctl.pending \/ ~CanRun(ctl, bg_current_depth)
    BY <1>2 DEF NonHpAllowed, GateReason
  <2>2. /\ ctl'.pending = ctl.pending /\ ctl'.active = ctl.active
        /\ ctl'.valid = ctl.valid /\ ctl'.limit = ctl.limit
    BY <1>2 DEF CloseGate, ControlInv, Good, ControlShape
  <2> QED BY <2>1, <2>2 DEF GateHasReason, CanRun
<1> QED BY <1>1, <1>2

LEMMA GateDispatch ==
  ASSUME AccountingInv, ControlInv, LockInv, GateHasReason,
         NEW d \in Dispatchers, DispatchNext(d)
  PROVE  GateHasReason'
<1>1. CASE HasWork(d) \/ ArmModelTimer(d)
  <2>1. UNCHANGED <<ctl, bg_current_depth>>
    BY <1>1 DEF HasWork, ArmModelTimer, accountingVars, counters
  <2> QED BY <2>1, ExcusedRefl, GateExcusedStep
<1>2. CASE HasWorkGate(d)
  <2>1. CloseGate /\ UNCHANGED bg_current_depth
    BY <1>2 DEF HasWorkGate, accountingVars, counters
  <2> QED BY <2>1, GateClosed
<1>3. CASE DispatchModel(d)
  <2>1. UNCHANGED bg_current_depth
    BY <1>3 DEF DispatchModel, accountingVars, counters
  <2>2. ctl' \in {ctl, Fallback(ctl), [ctl EXCEPT !.running = TRUE]}
    BY <1>3 DEF DispatchModel
  <2>3. Excused(ctl, [ctl EXCEPT !.running = TRUE])
    BY DEF ControlInv, Good, ControlShape, Excused, Blocked
  <2> QED BY <2>1, <2>2, <2>3, ExcusedRefl, ExcusedFallback, GateExcusedStep
<1>4. CASE PickRequest(d)
  <2>1. UNCHANGED bg_current_depth
    BY <1>4 DEF PickRequest, accountingVars, counters
  <2>2. CloseGate \/ UNCHANGED ctl
    BY <1>4 DEF PickRequest
  <2> QED BY <2>1, <2>2, GateClosed, ExcusedRefl, GateExcusedStep
<1>5. CASE AccountPicked(d)
  <2>1. bg_current_depth \in Nat /\ ctl \in ControlShape /\ Reasoned(ctl, bg_current_depth)
    BY BgDepthNat DEF ControlInv, Good, GateHasReason, Reasoned
  <2>2. bg_current_depth' \in Nat /\ bg_current_depth <= bg_current_depth'
    BY <1>5, <2>1, DepthGrows DEF AccountPicked, AccountDispatch
  <2>3. Reasoned(ctl, bg_current_depth')
    BY <2>1, <2>2, GateDeeper DEF ControlShape
  <2>4. PICK c : /\ c = ctl \/ c = Fallback(ctl)
                 /\ \/ ctl' = c
                    \/ ctl' = [c EXCEPT !.bound = pick, !.feedback = "issue",
                                        !.bound_to = c.applied]
    <3>1. FallbackIf(~priv[pick] \/ AccountFails(meta[pick]), ctl) \in {ctl, Fallback(ctl)}
      BY DEF FallbackIf
    <3> QED BY <1>5, <3>1 DEF AccountPicked
  <2>5. Excused(ctl, c)
    BY <2>4, ExcusedRefl, ExcusedFallback
  <2>6. Reasoned(c, bg_current_depth')
    BY <2>3, <2>5, GateExcused
  <2>7. c \in ControlShape
    BY <2>1, <2>4, FallbackShape
  <2>8. Excused(c, ctl')
    BY <2>4, <2>7 DEF ControlShape, Excused, Blocked
  <2>9. Reasoned(ctl', bg_current_depth')
    BY <2>6, <2>8, GateExcused
  <2> QED BY <2>9 DEF GateHasReason, Reasoned
<1> QED BY <1>1, <1>2, <1>3, <1>4, <1>5 DEF DispatchNext

-----------------------------------------------------------------------------
(* Timers, runners and the switch leave the accounting alone.              *)

LEMMA GateTimers ==
  ASSUME ControlInv,
         ScheduleNext \/ TimerFires \/ TimeoutWork \/ OtherQueueUsesThread
  PROVE  Excused(ctl, ctl') /\ UNCHANGED bg_current_depth
<1>1. UNCHANGED bg_current_depth
  BY DEF ScheduleNext, ArmTimer, QueueInference, QueueingFailed, TimerFires,
         TimeoutWork, OtherQueueUsesThread, accountingVars, counters
<1>2. CASE ~TimerFires
  <2>1. ctl' = ctl \/ \E failed : ctl' = FallbackIf(failed, ctl)
    BY <1>2 DEF ScheduleNext, ArmTimer, QueueInference, QueueingFailed, TimeoutWork,
                OtherQueueUsesThread
  <2> QED BY <1>1, <2>1, ExcusedRefl, ExcusedFallbackIf
<1>3. CASE TimerFires
  <2>1. ctl' = ctl \/ ctl' = [ctl EXCEPT !.timed_out = TRUE]
    BY <1>3 DEF TimerFires
  <2>2. Excused(ctl, [ctl EXCEPT !.timed_out = TRUE])
    BY DEF ControlInv, Good, ControlShape, Excused, Blocked
  <2> QED BY <1>1, <2>1, <2>2, ExcusedRefl
<1> QED BY <1>2, <1>3

LEMMA GateRunners ==
  ASSUME ControlInv, RunnerNext("wq") \/ ThreadNext
  PROVE  Excused(ctl, ctl') /\ UNCHANGED bg_current_depth
<1>1. UNCHANGED bg_current_depth
  BY DEF RunnerNext, ThreadNext, ReadDecision, ApplyDecision, ProviderError,
         CancelTimer, ThreadPicksUp, ThreadSnapshots, ThreadReleases,
         accountingVars, counters
<1>2. ctl \in ControlShape
  BY DEF ControlInv, Good
<1>3. ASSUME NEW w, RunnerNext(w) PROVE Excused(ctl, ctl')
  <2>1. Excused(ctl, [ctl EXCEPT !.running = FALSE])
    BY <1>2 DEF ControlShape, Excused, Blocked
  <2>2. CASE \E level \in Levels : ApplyDecision(w, level) /\ StillWanted(w)
    <3>1. ctl'.gate = "none"
      BY <1>2, <2>2 DEF ApplyDecision, ControlShape
    <3> QED BY <3>1 DEF Excused, Blocked
  <2>3. CASE ~\E level \in Levels : ApplyDecision(w, level) /\ StillWanted(w)
    <3>1. \/ ctl' = ctl
          \/ ctl' = [ctl EXCEPT !.running = FALSE]
          \/ \E failed : ctl' = FallbackIf(failed, ctl)
      BY <1>3, <2>3 DEF RunnerNext, ReadDecision, ApplyDecision, ProviderError,
                        CancelTimer, StopRunning
    <3> QED BY <2>1, <3>1, ExcusedRefl, ExcusedFallbackIf
  <2> QED BY <2>2, <2>3
<1>4. CASE ThreadPicksUp \/ ThreadReleases \/ ThreadSnapshots
  <2>1. ctl' \in {ctl, Fallback(ctl), [ctl EXCEPT !.running = FALSE],
                 [ctl EXCEPT !.state_valid = TRUE]}
    BY <1>4 DEF ThreadPicksUp, ThreadReleases, ThreadSnapshots, StopRunning
  <2>2. /\ Excused(ctl, [ctl EXCEPT !.running = FALSE])
        /\ Excused(ctl, [ctl EXCEPT !.state_valid = TRUE])
    BY <1>2 DEF ControlShape, Excused, Blocked
  <2> QED BY <1>1, <2>1, <2>2, ExcusedRefl, ExcusedFallback
<1> QED BY <1>1, <1>3, <1>4 DEF ThreadNext

LEMMA GateSwitch ==
  ASSUME AdminNext \/ (\E on \in BOOLEAN : SetEnabled(on)) \/ UNCHANGED vars
  PROVE  Excused(ctl, ctl') /\ UNCHANGED bg_current_depth
<1>1. UNCHANGED bg_current_depth /\ (ctl' = ctl \/ ctl' = Fallback(ctl))
  BY DEF AdminNext, ResetContext, ResetCancelsTimer, ResetCancelsWorks, SwitchDone,
         SetEnabled, vars, accountingVars, counters
<1> QED BY <1>1, ExcusedRefl, ExcusedFallback

LEMMA GateNext ==
  ASSUME AccountingInv, ControlInv, LockInv, GateHasReason, [ThrottleNext]_vars
  PROVE  GateHasReason'
<1>1. CASE RequestNext
  BY <1>1, GateRequest
<1>2. CASE \E d \in Dispatchers : DispatchNext(d)
  BY <1>2, GateDispatch
<1>3. CASE ~RequestNext /\ ~\E d \in Dispatchers : DispatchNext(d)
  <2>1. Excused(ctl, ctl') /\ UNCHANGED bg_current_depth
    BY <1>3, GateTimers, GateRunners, GateSwitch DEF ThrottleNext
  <2> QED BY <2>1, GateExcusedStep
<1> QED BY <1>1, <1>2, <1>3

(* The gate is closed only while a decision is pending or background       *)
(* requests fill the target: whichever handler takes the reason away, a    *)
(* release, an applied decision or a fallback, opens the gate in the same  *)
(* critical section.                                                       *)
THEOREM ThrottleGateHasReason == Spec => []GateHasReason
<1>1. Init => GateHasReason
  BY DEF Init, GateHasReason, Blocked, Quiet
<1>2. Spec => []AccountingInv
  BY ThrottleImplementsAccounting, AccountingInvHolds, PTL
<1> QED BY <1>1, <1>2, GateNext, ControlInvHolds, LockInvHolds, PTL DEF Spec

-----------------------------------------------------------------------------
(* The refusals of demo mode.  Only the hook refuses.                      *)

LEMMA OnlyHookRefuses ==
  ASSUME [ThrottleNext]_vars, NEW r, r \in refused' \ refused
  PROVE  r \in Requests /\ DemoRefuse(r)
<1>1. ASSUME NEW s \in Requests, DemoRefuse(s) PROVE s = r
  BY <1>1 DEF DemoRefuse
<1>2. ~UNCHANGED vars
  BY DEF vars, requestVars
<1>3. RequestNext
  BY <1>2 DEF ThrottleNext, DispatchNext, HasWork, HasWorkGate, DispatchModel,
       ArmModelTimer, PickRequest, AccountPicked, ScheduleNext, ArmTimer,
       QueueInference, QueueingFailed, RunnerNext, ThreadNext, ReadDecision,
       ApplyDecision, ProviderError, CancelTimer, ThreadPicksUp, ThreadSnapshots,
       ThreadReleases, OtherQueueUsesThread, TimerFires, TimeoutWork, AdminNext,
       SetEnabled, ResetContext, ResetCancelsTimer, ResetCancelsWorks, SwitchDone,
       requestVars
<1>4. ASSUME NEW s \in Requests,
             \/ \E sched \in BOOLEAN : PrepareRequest(s, sched)
             \/ \E q \in Queues : InsertRequest(s, q) \/ IssueRequest(s, q)
             \/ MergeRequest(s) \/ RequeueRequest(s) \/ ReturnRequest(s)
      PROVE  FALSE
  BY <1>4 DEF PrepareRequest, InsertRequest, IssueRequest, MergeRequest, RequeueRequest,
              ReturnRequest, requestVars
<1>5. ASSUME NEW s \in Requests, NEW slow, NEW tight, NEW mean_slow, NEW source, NEW level,
             CompleteRequest(s, slow, tight, mean_slow, source, level)
      PROVE  FALSE
  <2>1. UNCHANGED refused
    BY <1>5 DEF CompleteRequest
  <2> QED BY <2>1
<1>6. PICK s \in Requests : DemoRefuse(s)
  BY <1>3, <1>4, <1>5 DEF RequestNext
<1> QED BY <1>1, <1>6

LEMMA RefusalFits ==
  ASSUME AccountingInv, ControlInv, NEW r \in Requests, DemoRefuse(r)
  PROVE  Cardinality({s \in Requests \ {r} : meta[s].bg}) >= ctl.limit
<1> DEFINE Others == {s \in Requests \ {r} : meta[s].bg}
<1>1. bg_current_depth > ctl.limit /\ ctl.limit \in Nat
  BY DEF DemoRefuse, ShouldRequeue, ControlInv, Good, ControlShape
<1>2. IsFiniteSet(BgReserved) /\ bg_current_depth = Cardinality(BgReserved)
  BY AccountingAssumption, FS_Subset DEF AccountingInv, CountersExact, BgReserved
<1>3. r \in BgReserved
  BY DEF DemoRefuse, ShouldRequeue, AccountingInv, MetaMatchesPhase, BgReserved
<1>4. Others = BgReserved \ {r}
  BY DEF BgReserved
<1>5. Cardinality(BgReserved \ {r}) = Cardinality(BgReserved) - 1
      /\ Cardinality(BgReserved) \in Nat
  BY <1>2, <1>3, FS_RemoveElement, FS_CardinalityType
<1> SUFFICES Cardinality(Others) >= ctl.limit
  OBVIOUS
<1> HIDE DEF Others
<1>6. Cardinality(Others) = bg_current_depth - 1 /\ bg_current_depth \in Nat
  BY <1>2, <1>4, <1>5
<1> QED BY <1>1, <1>6

(* The UFS hook refuses a request only when as many other background       *)
(* requests as the target allows hold a reservation: what it compares with *)
(* the target counts live requests, and the refused one is among them.     *)
THEOREM ThrottleRefusalLeavesTarget == Spec => RefusalLeavesTarget
<1>1. Spec => []AccountingInv
  BY ThrottleImplementsAccounting, AccountingInvHolds, PTL
<1>2. ASSUME AccountingInv, ControlInv, [ThrottleNext]_vars
      PROVE  [\A r \in Requests :
                r \in refused' \ refused =>
                  Cardinality({s \in Requests \ {r} : meta[s].bg}) >= ctl.limit]_vars
  BY <1>2, OnlyHookRefuses, RefusalFits
<1> QED BY <1>1, <1>2, ControlInvHolds, PTL DEF Spec, RefusalLeavesTarget
=============================================================================
