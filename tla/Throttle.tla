------------------------------- MODULE Throttle -------------------------------
(***************************************************************************)
(* The background throttle of one request queue: the control state machine *)
(* of smart_io_throttle.c on top of the accounting of RequestAccounting,   *)
(* with everything that runs concurrently with it.                         *)
(*                                                                         *)
(* A window of slow completions starts a decision: background (non-HP)     *)
(* dispatch is gated until inference chooses a throttle level, from the    *)
(* configuration (source FIXED, a work item) or from the neural model      *)
(* (source MODEL, one kernel thread shared by all queues).  The level's    *)
(* target depth then gates background dispatch; sampled requests vote, and *)
(* after FeedbackMax votes the throttle ends or decides again.  Any        *)
(* irregularity falls back to no throttling.                               *)
(*                                                                         *)
(* The actors are the elevator's dispatch path, the tracepoint handlers,   *)
(* the inference work item, the model thread, the hrtimer and its work     *)
(* item, and the writer of the procfs switch.  Each critical section of    *)
(* ctx->lock is one step; what a function does after unlocking is a step   *)
(* of its own wherever another actor may come between.                     *)
(*                                                                         *)
(* Abstracted: latencies are slow or fast against dev_lat_threshold_us,    *)
(* and only their number in the window counts; dispatch policy, statistics *)
(* and traces are left out; control_id and session_id take part in every   *)
(* comparison of decision_id, which alone never repeats.                   *)
(***************************************************************************)
EXTENDS RequestAccounting

CONSTANTS
  None,          \* no request
  Queues,        \* the elevator queues that new requests are meant for
  Dispatchers,   \* the CPUs that may run the hardware queue at a time
  Window,        \* SMART_IO_DEV_LAT_WINDOW
  FeedbackMax,   \* SMART_IO_FEEDBACK_SAMPLE_MAX
  QueueMax,      \* blk_queue_depth(q)
  Ratio,         \* percentage of QueueMax for each level but NO
  Levels,        \* the levels the configuration or the model may choose
  Sources,       \* the action sources that may be configured
  OtherQueues,   \* BOOLEAN: do other queues use the model thread?
  Demo,          \* queue_rq_throttle_demo
  LateQueue,     \* BOOLEAN: was the queue created with the throttle enabled?
  MaxSession,    \* bound: no enabling after this many sessions
  MaxDecision    \* bound: no decision is started after this many

AllLevels == {"NO", "LIGHT", "MEDIUM", "HEAVY"}

ASSUME ThrottleAssumption ==
  /\ None \notin Requests
  /\ Queues \subseteq QueueClasses
  /\ Window \in Nat \ {0} /\ FeedbackMax \in Nat \ {0}
  /\ QueueMax \in Nat \ {0}
  /\ Ratio \in [AllLevels \ {"NO"} -> 1 .. 100]
  /\ Levels \subseteq AllLevels
  /\ Sources \subseteq {"FIXED", "MODEL"}
  /\ {OtherQueues, Demo, LateQueue} \subseteq BOOLEAN
  /\ MaxSession \in Nat /\ MaxDecision \in Nat

VARIABLES
  enabled,         \* throttle_enabled, read by everyone without a lock
  session,         \* ctx->session_id
  issue_session,   \* meta->issue_session_id of each request
  refused,         \* requests the UFS hook has told SCSI to requeue
  ctl,             \* the control fields of ctx, see Control
  kick,            \* a run of the hardware queues is due
  dpc,             \* where each dispatcher is
  pick,            \* the request taken off the elevator's lists
  timer,           \* ctx->inference_timer is armed
  timeout_work,    \* ctx->timeout_work is queued
  inference_work,  \* ctx->inference_work is queued
  infer,           \* the two runners of smart_io_throttle_inference_work
  slot,            \* model_thread_ctx and model_thread_running_ctx
  scheduling,      \* completions inside schedule_inference, by what is next
  admin            \* the writer inside smart_io_throttle_set_enabled

requestVars == <<issue_session, refused>>
dispatchVars == <<kick, dpc, pick>>
workVars == <<timer, timeout_work, inference_work, infer, slot, scheduling>>
configVars == <<enabled, session, admin>>
vars == <<accountingVars, requestVars, ctl, dispatchVars, workVars,
          configVars>>

Runners == {"wq", "thread"}
ScheduleSteps == {"timer", "work", "failed"}

Control ==
  [active : BOOLEAN,        \* throttle_active
   pending : BOOLEAN,       \* inference_pending
   timed_out : BOOLEAN,     \* inference_timed_out
   running : BOOLEAN,       \* inference_running
   valid : BOOLEAN,         \* action_valid
   state_valid : BOOLEAN,   \* pending_state_valid
   source : {"FIXED", "MODEL"},               \* pending_source
   level : AllLevels,                         \* pending_fixed_action.level
   limit : 0 .. QueueMax,   \* action.target_depth, 0 exactly for level NO
   decision : 0 .. MaxDecision,               \* decision_id
   applied : 0 .. MaxDecision,                \* action.decision_id
   gate : {"none", "inference", "depth"},     \* gate_blocked, gate_reason
   feedback : {"none", "dispatch", "issue", "complete"},  \* feedback_state
   bound : Requests \cup {None},              \* feedback_meta
   bound_to : 0 .. MaxDecision,  \* its dispatch_decision_id
   votes : 0 .. FeedbackMax,     \* feedback_vote_count
   slow_votes : 0 .. FeedbackMax,
   samples : 0 .. Window,        \* dev_lat_count
   slow : 0 .. Window,           \* how many of the latest were slow in a row
   tight : BOOLEAN]              \* a full window within ..._WINDOW_MAX_US

Quiet ==
  [active |-> FALSE, pending |-> FALSE, timed_out |-> FALSE,
   running |-> FALSE, valid |-> FALSE, state_valid |-> FALSE,
   source |-> "FIXED", level |-> "NO", limit |-> 0, decision |-> 0,
   applied |-> 0, gate |-> "none", feedback |-> "none", bound |-> None,
   bound_to |-> 0, votes |-> 0, slow_votes |-> 0, samples |-> 0, slow |-> 0,
   tight |-> FALSE]

Asleep == [pc |-> "idle", decision |-> 0, source |-> "FIXED", level |-> "NO"]

(* smart_io_throttle_queue_init: the switch may have been on before.       *)
Init ==
  /\ AccountingInit
  /\ enabled = LateQueue
  /\ session = 0
  /\ issue_session = [r \in Requests |-> 0] /\ refused = {}
  /\ ctl = Quiet
  /\ kick = FALSE /\ dpc = [d \in Dispatchers |-> "idle"] /\ pick = None
  /\ timer = FALSE /\ timeout_work = FALSE /\ inference_work = FALSE
  /\ infer = [w \in Runners |-> Asleep]
  /\ slot = "free"
  /\ scheduling = [step \in ScheduleSteps |-> 0]
  /\ admin = [pc |-> "idle", enable |-> FALSE]

-----------------------------------------------------------------------------
(* The *_locked helpers: what they make of the control fields c.           *)

(* smart_io_throttle_clear_feedback_binding_locked *)
Unbound(c) == [c EXCEPT !.bound = None, !.bound_to = 0, !.feedback = "none"]

(* smart_io_throttle_reset_feedback_locked *)
NoFeedback(c) == [Unbound(c) EXCEPT !.votes = 0, !.slow_votes = 0]

(* Mutant: a fallback that leaves the feedback state as it is.             *)
Fallback_KeepsFeedback(c) ==
  [Quiet EXCEPT !.decision = c.decision, !.feedback = c.feedback,
                !.bound = c.bound, !.bound_to = c.bound_to]

(* smart_io_throttle_fallback_locked: no throttling, no decision, an empty *)
(* window.  It returns whether the gate was closed, for the caller to run  *)
(* the queues.  Only decision_id stays.  (The snapshot of the config-      *)
(* uration is not erased, but nothing reads it before the next decision.)  *)
Fallback(c) == [Quiet EXCEPT !.decision = c.decision]
Blocked(c) == c.gate # "none"

(* smart_io_throttle_depth_can_run_locked *)
CanRun(c, bg) == ~c.active \/ ~c.valid \/ c.limit = 0 \/ bg < c.limit

(* smart_io_throttle_release_depth_locked opens a closed gate for which    *)
(* the released reservation made room.                                     *)
Opens(c, m, bg) == m.depth /\ Blocked(c) /\ CanRun(c, bg)
GateReleased(c, m, bg) == IF Opens(c, m, bg) THEN [c EXCEPT !.gate = "none"] ELSE c

(* smart_io_throttle_invalidate_feedback_locked *)
Invalidated(c, r) ==
  IF c.bound # r THEN c
  ELSE [Unbound(c) EXCEPT !.feedback =
          IF c.active /\ c.valid /\ ~c.pending THEN "dispatch" ELSE "none"]

(* The completion window, and what smart_io_throttle_slow_window_locked    *)
(* and smart_io_throttle_window_snapshot_locked ask of it.                 *)
Sampled(c, slow, tight) ==
  LET n == IF c.samples < Window THEN c.samples + 1 ELSE Window
      run == IF ~slow THEN 0 ELSE IF c.slow < Window THEN c.slow + 1 ELSE Window
  IN  [c EXCEPT !.samples = n, !.slow = run, !.tight = tight /\ n = Window]
WindowUsable(c) == c.samples = Window /\ c.tight
WindowSlow(c) == WindowUsable(c) /\ c.slow = Window

(* smart_io_throttle_start_inference_locked.  For FIXED it takes the state *)
(* snapshot at once and may fail on the window; for MODEL the snapshot     *)
(* waits for the model thread.                                             *)
CanStart(c, source) ==
  enabled /\ ~c.pending /\ (source = "FIXED" => WindowUsable(c))
Started(c, source, level) ==
  [NoFeedback(c) EXCEPT
     !.active = TRUE, !.pending = TRUE, !.timed_out = FALSE,
     !.running = FALSE, !.valid = FALSE, !.state_valid = (source = "FIXED"),
     !.source = source, !.level = IF source = "FIXED" THEN level ELSE "NO",
     !.decision = c.decision + 1]

(* The target depth smart_io_throttle_inference_work computes for a level. *)
TargetDepth(level) ==
  IF level = "NO" THEN 0
  ELSE LET ceil == (QueueMax * Ratio[level] + 99) \div 100
       IN  IF ceil < QueueMax THEN ceil ELSE QueueMax

-----------------------------------------------------------------------------
(* Requests.  dd->lock is held from the choice of a request to its         *)
(* accounting, so insertions and merges stay out of that stretch.          *)

DdLockFree == \A d \in Dispatchers : dpc[d] # "account"
InForce(c) == enabled /\ c.active /\ c.valid /\ ~c.pending
FallbackIf(failed, c) == IF failed THEN Fallback(c) ELSE c
KickIf(wake) == kick' = (kick \/ wake)

PrepareRequest(r, sched) ==
  /\ Prepare(r, sched)
  /\ UNCHANGED <<requestVars, ctl, dispatchVars, workVars, configVars>>

(* dd_insert_request; the block layer then runs the hardware queue.        *)
InsertRequest(r, q) ==
  /\ DdLockFree
  /\ ClassifyRequest(r, q)
  /\ ctl' = FallbackIf(~priv[r] /\ ~CanAlloc, ctl)
  /\ kick' = TRUE
  /\ UNCHANGED <<requestVars, dpc, pick, workVars, configVars>>

(* Mutant: the merged request is not taken out of the throttle's count.    *)
MergeRequest_KeepsCount(r) ==
  /\ DdLockFree
  /\ Moves(r, {"queued"}, "merged")
  /\ UNCHANGED <<use_sched, priv, meta, counters, requestVars, ctl,
                 dispatchVars, workVars, configVars>>

(* dd_merged_requests *)
MergeRequest(r) ==
  /\ DdLockFree
  /\ UnqueueRequest(r)
  /\ UNCHANGED <<requestVars, ctl, dispatchVars, workVars, configVars>>

(* block_rq_issue: a bound request starts its feedback measurement.        *)
IssueRequest(r, q) ==
  LET fails == ~meta[r].held /\ ~CanAlloc
      measured == /\ ctl.bound = r /\ ctl.feedback = "issue"
                  /\ ctl.bound_to = ctl.applied
  IN  /\ RecordIssue(r, q)
      /\ ctl' = IF fails THEN Fallback(ctl)
                ELSE IF measured THEN [ctl EXCEPT !.feedback = "complete"]
                ELSE ctl
      /\ issue_session' = IF fails THEN issue_session
           ELSE [issue_session EXCEPT ![r] = IF enabled THEN session ELSE 0]
      /\ KickIf(fails)
      /\ UNCHANGED <<refused, dpc, pick, workVars, configVars>>

(* What releasing a request's reservations makes of the control fields c:  *)
(* open the gate if there is room now, fall back on an underflow.          *)
AfterRelease(c, m) ==
  IF ReleaseFails(m) /\ c.active THEN Fallback(c)
                                 ELSE GateReleased(c, m, bg_current_depth')
ReleaseWakes(c, m) == DepthFails(m) \/ Opens(c, m, bg_current_depth')

(* Mutant: a requeued request stays bound to the feedback.                 *)
RequeueRequest_StaysBound(r) ==
  LET m == meta[r]
  IN  /\ RecordRequeue(r)
      /\ IF m.held
           THEN /\ ctl' = AfterRelease(ctl, m)
                /\ KickIf(ReleaseWakes(ctl, m))
                /\ issue_session' = [issue_session EXCEPT ![r] = 0]
           ELSE UNCHANGED <<ctl, kick, issue_session>>
      /\ refused' = refused \ {r}
      /\ UNCHANGED <<dpc, pick, workVars, configVars>>

(* block_rq_requeue: the measurement is void, the meta stays.              *)
RequeueRequest(r) ==
  LET m == meta[r]
      c == Invalidated(ctl, r)
  IN  /\ RecordRequeue(r)
      /\ IF m.held
           THEN /\ ctl' = AfterRelease(c, m)
                /\ KickIf(ReleaseWakes(c, m))
                /\ issue_session' = [issue_session EXCEPT ![r] = 0]
           ELSE UNCHANGED <<ctl, kick, issue_session>>
      /\ refused' = refused \ {r}
      /\ UNCHANGED <<dpc, pick, workVars, configVars>>

(* The UFS hook of demo mode refuses a background request that exceeds the *)
(* target; SCSI then takes it for busy and requeues it, some time later.   *)
(* Mutant: off by one, a request that just fits is refused.                *)
ShouldRequeue_AtTarget(r) ==
  /\ Demo /\ InForce(ctl) /\ ctl.limit > 0
  /\ meta[r].held /\ meta[r].queue_class # "HP"
  /\ bg_current_depth >= ctl.limit
(* smart_io_throttle_ufs_should_requeue *)
ShouldRequeue(r) ==
  /\ Demo /\ InForce(ctl) /\ ctl.limit > 0
  /\ meta[r].held /\ meta[r].queue_class # "HP"
  /\ bg_current_depth > ctl.limit
DemoRefuse(r) ==
  /\ phase[r] = "issued" /\ r \notin refused
  /\ ShouldRequeue(r)
  /\ refused' = refused \cup {r}
  /\ UNCHANGED <<accountingVars, issue_session, ctl, dispatchVars, workVars, configVars>>

(* block_rq_complete, final.  In the code's order: sample the window, take *)
(* the vote, release and free, then start a decision if the window is slow *)
(* or the votes ask for another one.  source and level are what a new      *)
(* decision would find configured; mean_slow is how a mixed vote turns out.*)
Sampling(r) == phase[r] = "issued" /\ enabled /\ issue_session[r] = session
Voting(r) == phase[r] = "issued" /\ ctl.bound = r /\ ctl.feedback = "complete"

MeanSlow(c, mean_slow) ==
  IF c.slow_votes = 0 THEN FALSE
  ELSE IF c.slow_votes = c.votes THEN TRUE ELSE mean_slow

CompleteRequest(r, slow, tight, mean_slow, source, level) ==
  LET m == meta[r]
      c1 == IF Sampling(r) THEN Sampled(ctl, slow, tight) ELSE ctl
      trigger == Sampling(r) /\ ~c1.active /\ ~c1.pending /\ WindowSlow(c1)
      c2 == [Unbound(c1) EXCEPT !.votes = @ + 1,
                                !.slow_votes = IF slow THEN @ + 1 ELSE @]
      last == Voting(r) /\ c2.votes = FeedbackMax
      again == last /\ MeanSlow(c2, mean_slow)
      recovered == last /\ ~again
      c3 == IF ~Voting(r) THEN Invalidated(c1, r)
            ELSE IF recovered THEN Fallback(c2)
            ELSE IF again THEN c2
            ELSE [c2 EXCEPT !.feedback = "dispatch"]
      c4 == FallbackIf(meta_inuse = 0, AfterRelease(c3, m))
      starts == (trigger \/ again) /\ CanStart(c4, source)
      gives_up == again /\ ~starts
  IN  /\ r \notin refused
      /\ RecordFinalComplete(r)
      /\ IF m.held
           THEN /\ starts => c4.decision < MaxDecision
                /\ ctl' = IF starts THEN Started(c4, source, level)
                          ELSE FallbackIf(gives_up, c4)
                /\ scheduling' = IF starts /\ source = "FIXED"
                                   THEN [scheduling EXCEPT !["timer"] = @ + 1]
                                   ELSE scheduling
                /\ KickIf(\/ recovered /\ Blocked(c2)
                          \/ ReleaseWakes(c3, m)
                          \/ gives_up /\ Blocked(c4))
           ELSE UNCHANGED <<ctl, scheduling, kick>>
      /\ issue_session' = [issue_session EXCEPT ![r] = 0]
      /\ UNCHANGED <<refused, dpc, pick, timer, timeout_work, inference_work,
                     infer, slot, configVars>>

(* dd_finish_request: usually nothing is left to do.                       *)
ReturnRequest(r) ==
  LET m == meta[r]
      c == Invalidated(ctl, r)
  IN  /\ FinishRequest(r)
      /\ IF use_sched[r] /\ priv[r]
           THEN /\ ctl' = FallbackIf(meta_inuse = 0, AfterRelease(c, m))
                /\ KickIf(ReleaseWakes(c, m))
           ELSE UNCHANGED <<ctl, kick>>
      /\ UNCHANGED <<requestVars, dpc, pick, workVars, configVars>>

-----------------------------------------------------------------------------
(* The dispatch path: blk-mq runs the hardware queue as long as            *)
(* dd_has_work says so, and calls dd_dispatch_request for each request.    *)

QueuedIn(q) == {r \in Requests : phase[r] = "queued" /\ meta[r].queue_class = q}

(* smart_io_throttle_non_hp_allowed *)
GateReason ==
  IF ~enabled \/ Demo THEN "none"
  ELSE IF ctl.pending THEN "inference"
  ELSE IF ~CanRun(ctl, bg_current_depth) THEN "depth"
  ELSE "none"
NonHpAllowed == GateReason = "none"
CloseGate == ctl' = IF NonHpAllowed THEN ctl ELSE [ctl EXCEPT !.gate = GateReason]

(* smart_io_throttle_model_dispatch_needed_locked *)
ModelNeeded ==
  enabled /\ ctl.pending /\ ~ctl.running /\ ctl.source = "MODEL" /\ pending["BG"] > 0

(* A due run of the hardware queue begins, or the last request was taken:  *)
(* dd_has_work up to its call of non_hp_allowed, which is a critical       *)
(* section of its own.                                                     *)
Step(d, pc) == dpc' = [dpc EXCEPT ![d] = pc]

HasWork(d) ==
  /\ \/ dpc[d] = "idle" /\ kick /\ kick' = FALSE
     \/ dpc[d] = "has_work" /\ UNCHANGED kick
  /\ Step(d, IF ~enabled
               THEN IF QueuedIn("HP") \cup QueuedIn("NonHP") # {} THEN "model" ELSE "idle"
             ELSE IF ModelNeeded \/ QueuedIn("HP") # {} THEN "model"
             ELSE IF QueuedIn("NonHP") = {} THEN "idle"
             ELSE "has_work_gate")
  /\ UNCHANGED <<accountingVars, requestVars, ctl, pick, workVars, configVars>>

HasWorkGate(d) ==
  /\ dpc[d] = "has_work_gate"
  /\ CloseGate
  /\ Step(d, IF NonHpAllowed THEN "model" ELSE "idle")
  /\ UNCHANGED <<accountingVars, requestVars, kick, pick, workVars, configVars>>

(* smart_io_throttle_dispatch_model_if_needed: hand the decision to the    *)
(* model thread, or fall back if any queue occupies it; ...                *)
DispatchModel(d) ==
  /\ dpc[d] = "model"
  /\ IF ~ModelNeeded
       THEN /\ Step(d, "pick")
            /\ UNCHANGED <<ctl, slot, kick>>
     ELSE IF slot = "free"
       THEN /\ Step(d, "arm_timer")
            /\ ctl' = [ctl EXCEPT !.running = TRUE]
            /\ slot' = "queued"
            /\ UNCHANGED kick
       ELSE /\ Step(d, "pick")
            /\ ctl' = Fallback(ctl)
            /\ KickIf(Blocked(ctl))
            /\ UNCHANGED slot
  /\ UNCHANGED <<accountingVars, requestVars, pick, timer, timeout_work,
                 inference_work, infer, scheduling, configVars>>

(* ... after the unlock, arm the timer of what was handed over.            *)
ArmModelTimer(d) ==
  /\ dpc[d] = "arm_timer"
  /\ timer' = TRUE
  /\ Step(d, "pick")
  /\ UNCHANGED <<accountingVars, requestVars, ctl, kick, pick, timeout_work,
                 inference_work, infer, slot, scheduling, configVars>>

(* dd_dispatch_request under dd->lock: HP first, then the gate, then the   *)
(* rest.  When it returns nothing, blk-mq runs the queue again later.      *)
PickRequest(d) ==
  /\ dpc[d] = "pick" /\ DdLockFree
  /\ IF QueuedIn("HP") # {}
       THEN /\ pick' \in QueuedIn("HP")
            /\ Step(d, "account")
            /\ UNCHANGED <<ctl, kick>>
       ELSE /\ CloseGate
            /\ IF NonHpAllowed /\ QueuedIn("NonHP") # {}
                 THEN /\ pick' \in QueuedIn("NonHP")
                      /\ Step(d, "account")
                      /\ UNCHANGED kick
                 ELSE /\ Step(d, "idle")
                      /\ kick' = TRUE
                      /\ UNCHANGED pick
  /\ UNCHANGED <<accountingVars, requestVars, workVars, configVars>>

(* smart_io_throttle_account_dispatch: account the request and, if a       *)
(* decision in force waits for a sample, bind it.                          *)
AccountPicked(d) ==
  LET twice == AccountFails(meta[pick])
      c == FallbackIf(~priv[pick] \/ twice, ctl)
      binds == /\ priv[pick] /\ InForce(c)
               /\ c.feedback = "dispatch" /\ c.votes < FeedbackMax
  IN  /\ dpc[d] = "account"
      /\ AccountDispatch(pick)
      /\ ctl' = IF binds THEN [c EXCEPT !.bound = pick, !.feedback = "issue",
                                        !.bound_to = c.applied]
                         ELSE c
      /\ KickIf(IF priv[pick] THEN twice ELSE Blocked(ctl))
      /\ Step(d, "has_work")
      /\ pick' = None
      /\ UNCHANGED <<requestVars, workVars, configVars>>

-----------------------------------------------------------------------------
(* Inference: the work item ("wq") and the model thread ("thread") both    *)
(* run smart_io_throttle_inference_work, which reads the decision under    *)
(* the lock, computes outside it, and applies under the lock what is still *)
(* wanted.                                                                 *)

(* smart_io_throttle_schedule_inference, after a completion's unlock: arm  *)
(* the timer, queue the work item, and fall back if it was queued already. *)
Schedules(from, to) ==
  /\ scheduling[from] > 0
  /\ scheduling' = [step \in ScheduleSteps |->
       scheduling[step] + (IF step = to THEN 1 ELSE 0) - (IF step = from THEN 1 ELSE 0)]

ArmTimer ==
  /\ Schedules("timer", "work")
  /\ timer' = TRUE
  /\ UNCHANGED <<accountingVars, requestVars, ctl, dispatchVars,
                 timeout_work, inference_work, infer, slot, configVars>>

QueueInference ==
  /\ Schedules("work", IF inference_work THEN "failed" ELSE "done")
  /\ inference_work' = TRUE
  /\ timer' = (timer /\ ~inference_work)
  /\ UNCHANGED <<accountingVars, requestVars, ctl, dispatchVars,
                 timeout_work, infer, slot, configVars>>

QueueingFailed ==
  /\ Schedules("failed", "done")
  /\ ctl' = FallbackIf(ctl.pending, ctl)
  /\ KickIf(ctl.pending /\ Blocked(ctl))
  /\ UNCHANGED <<accountingVars, requestVars, dpc, pick, timer, timeout_work,
                 inference_work, infer, slot, configVars>>

Goto(w, pc) == infer' = [infer EXCEPT ![w].pc = pc]
WhenDone(w) == IF w = "thread" THEN "release" ELSE "idle"
StopRunning(w) ==
  /\ ctl' = [ctl EXCEPT !.running = FALSE]
  /\ infer' = [infer EXCEPT ![w] = [Asleep EXCEPT !.pc = WhenDone(w)]]

(* smart_io_throttle_model_thread_main takes the queue's request; ...      *)
ThreadPicksUp ==
  /\ slot = "queued"
  /\ slot' = "running"
  /\ Goto("thread", "run")
  /\ UNCHANGED <<accountingVars, requestVars, ctl, dispatchVars, timer,
                 timeout_work, inference_work, scheduling, configVars>>

(* ... smart_io_throttle_model_thread_run snapshots the state, ...         *)
ThreadSnapshots ==
  /\ infer["thread"].pc = "run"
  /\ IF ~ctl.pending \/ ctl.timed_out \/ ctl.source # "MODEL"
       THEN /\ StopRunning("thread")
            /\ UNCHANGED kick
     ELSE IF WindowUsable(ctl)
       THEN /\ ctl' = [ctl EXCEPT !.state_valid = TRUE]
            /\ Goto("thread", "read")
            /\ UNCHANGED kick
       ELSE /\ ctl' = Fallback(ctl)
            /\ KickIf(Blocked(ctl))
            /\ Goto("thread", "cancel_timer")
  /\ UNCHANGED <<accountingVars, requestVars, dpc, pick, timer, timeout_work,
                 inference_work, slot, scheduling, configVars>>

(* ... and afterwards it gives the thread back.                            *)
ThreadReleases ==
  /\ infer["thread"].pc = "release"
  /\ slot' = "free"
  /\ Goto("thread", "idle")
  /\ UNCHANGED <<accountingVars, requestVars, ctl, dispatchVars, timer,
                 timeout_work, inference_work, scheduling, configVars>>

(* Another queue's context takes the thread, or gives it back.             *)
OtherQueueUsesThread ==
  /\ OtherQueues
  /\ \/ slot = "free" /\ slot' = "other"
     \/ slot = "other" /\ slot' = "free"
  /\ UNCHANGED <<accountingVars, requestVars, ctl, dispatchVars, timer,
                 timeout_work, inference_work, infer, scheduling,
                 configVars>>

(* The first critical section of smart_io_throttle_inference_work.         *)
ReadDecision(w) ==
  /\ IF w = "wq"
       THEN infer[w].pc = "idle" /\ inference_work /\ inference_work' = FALSE
       ELSE infer[w].pc = "read" /\ UNCHANGED inference_work
  /\ IF ctl.pending /\ ~ctl.timed_out /\ ctl.state_valid
       THEN /\ infer' = [infer EXCEPT ![w] =
                 [pc |-> "apply", decision |-> ctl.decision,
                  source |-> ctl.source, level |-> ctl.level]]
            /\ UNCHANGED ctl
       ELSE StopRunning(w)
  /\ UNCHANGED <<accountingVars, requestVars, dispatchVars, timer,
                 timeout_work, slot, scheduling, configVars>>

(* The second one.  The model's answer is any level; the fixed source      *)
(* answers what was configured.                                            *)
(* Mutant: whatever is pending takes the result.                           *)
StillWanted_AnyDecision(w) == ctl.pending /\ ~ctl.timed_out
StillWanted(w) == ctl.pending /\ ~ctl.timed_out /\ infer[w].decision = ctl.decision

(* Mutant: the gate's mark is not cleared with the decision it waited for. *)
ApplyDecision_StaysMarked(w, level) ==
  /\ infer[w].pc = "apply"
  /\ infer[w].source = "FIXED" => level = infer[w].level
  /\ IF StillWanted(w)
       THEN /\ ctl' = [ctl EXCEPT !.limit = TargetDepth(level), !.valid = TRUE,
                         !.applied = infer[w].decision, !.pending = FALSE,
                         !.timed_out = FALSE, !.running = FALSE,
                         !.feedback = "dispatch"]
            /\ Goto(w, "cancel_timer")
       ELSE StopRunning(w)
  /\ UNCHANGED <<accountingVars, requestVars, dispatchVars, timer,
                 timeout_work, inference_work, slot, scheduling, configVars>>

ApplyDecision(w, level) ==
  /\ infer[w].pc = "apply"
  /\ infer[w].source = "FIXED" => level = infer[w].level
  /\ IF StillWanted(w)
       THEN /\ ctl' = [ctl EXCEPT !.limit = TargetDepth(level), !.valid = TRUE,
                         !.applied = infer[w].decision, !.pending = FALSE,
                         !.timed_out = FALSE, !.running = FALSE,
                         !.feedback = "dispatch", !.gate = "none"]
            /\ Goto(w, "cancel_timer")
       ELSE StopRunning(w)
  /\ UNCHANGED <<accountingVars, requestVars, dispatchVars, timer,
                 timeout_work, inference_work, slot, scheduling,
                 configVars>>

(* The provider failed, or the model answered after its 3 ms: fall back,   *)
(* and leave the timer as it is.                                           *)
ProviderError(w) ==
  /\ infer[w].pc = "apply" /\ infer[w].source = "MODEL"
  /\ ctl' = FallbackIf(StillWanted(w), ctl)
  /\ KickIf(StillWanted(w) /\ Blocked(ctl))
  /\ infer' = [infer EXCEPT ![w] = [Asleep EXCEPT !.pc = WhenDone(w)]]
  /\ UNCHANGED <<accountingVars, requestVars, dpc, pick, timer, timeout_work,
                 inference_work, slot, scheduling, configVars>>

(* Mutant: the decision is applied and nobody runs the queues.             *)
CancelTimer_NoKick(w) ==
  /\ infer[w].pc = "cancel_timer"
  /\ timer' = FALSE
  /\ infer' = [infer EXCEPT ![w] = [Asleep EXCEPT !.pc = WhenDone(w)]]
  /\ UNCHANGED <<accountingVars, requestVars, ctl, dispatchVars, timeout_work,
                 inference_work, slot, scheduling, configVars>>

(* After the unlock: cancel the timer, run the queues.                     *)
CancelTimer(w) ==
  /\ infer[w].pc = "cancel_timer"
  /\ timer' = FALSE
  /\ kick' = TRUE
  /\ infer' = [infer EXCEPT ![w] = [Asleep EXCEPT !.pc = WhenDone(w)]]
  /\ UNCHANGED <<accountingVars, requestVars, ctl, dpc, pick, timeout_work,
                 inference_work, slot, scheduling, configVars>>

(* Mutant: the decision is marked, its timeout work is not queued.         *)
TimerFires_NoWork ==
  /\ timer
  /\ timer' = FALSE
  /\ ctl' = IF ctl.pending THEN [ctl EXCEPT !.timed_out = TRUE] ELSE ctl
  /\ UNCHANGED <<accountingVars, requestVars, dispatchVars, timeout_work,
                 inference_work, infer, slot, scheduling, configVars>>

(* smart_io_throttle_inference_timer marks whatever decision is pending.   *)
TimerFires ==
  /\ timer
  /\ timer' = FALSE
  /\ ctl' = IF ctl.pending THEN [ctl EXCEPT !.timed_out = TRUE] ELSE ctl
  /\ timeout_work' = (timeout_work \/ ctl.pending)
  /\ UNCHANGED <<accountingVars, requestVars, dispatchVars, inference_work,
                 infer, slot, scheduling, configVars>>

(* smart_io_throttle_timeout_work: a queue whose session_id is still 0     *)
(* returns before it runs the queues.                                      *)
TimeoutWork ==
  LET late == ctl.pending /\ ctl.timed_out
  IN  /\ timeout_work
      /\ timeout_work' = FALSE
      /\ ctl' = FallbackIf(late, ctl)
      /\ KickIf(late /\ Blocked(ctl) /\ session # 0)
      /\ UNCHANGED <<accountingVars, requestVars, dpc, pick, timer,
                     inference_work, infer, slot, scheduling,
                     configVars>>

-----------------------------------------------------------------------------
(* smart_io_throttle_set_enabled, with reset_context for this queue.       *)

(* Mutant: the switch is flipped after the queues were reset.              *)
SetEnabled_Late(on) ==
  /\ admin.pc = "idle" /\ on # enabled
  /\ on => session < MaxSession
  /\ admin' = [pc |-> "reset", enable |-> on]
  /\ UNCHANGED <<accountingVars, requestVars, ctl, dispatchVars, workVars,
                 enabled, session>>

SetEnabled(on) ==
  /\ admin.pc = "idle" /\ on # enabled
  /\ on => session < MaxSession
  /\ enabled' = FALSE
  /\ admin' = [pc |-> "reset", enable |-> on]
  /\ UNCHANGED <<accountingVars, requestVars, ctl, dispatchVars, workVars, session>>

ResetContext ==
  /\ admin.pc = "reset"
  /\ session' = IF admin.enable THEN session + 1 ELSE session
  /\ ctl' = Fallback(ctl)
  /\ admin' = [admin EXCEPT !.pc = "timer"]
  /\ UNCHANGED <<accountingVars, requestVars, dispatchVars, workVars, enabled>>

ResetCancelsTimer ==
  /\ admin.pc = "timer"
  /\ timer' = FALSE
  /\ admin' = [admin EXCEPT !.pc = "works"]
  /\ UNCHANGED <<accountingVars, requestVars, ctl, dispatchVars,
                 timeout_work, inference_work, infer, slot, scheduling,
                 enabled, session>>

(* cancel_work_sync waits for a running work item.                         *)
ResetCancelsWorks ==
  /\ admin.pc = "works" /\ infer["wq"].pc = "idle"
  /\ inference_work' = FALSE /\ timeout_work' = FALSE
  /\ kick' = TRUE
  /\ admin' = [admin EXCEPT !.pc = "last"]
  /\ UNCHANGED <<accountingVars, requestVars, ctl, dpc, pick, timer, infer,
                 slot, scheduling, enabled, session>>

SwitchDone ==
  /\ admin.pc = "last"
  /\ enabled' = admin.enable
  /\ admin' = [admin EXCEPT !.pc = "idle"]
  /\ UNCHANGED <<accountingVars, requestVars, ctl, dispatchVars, workVars,
                 session>>

-----------------------------------------------------------------------------
(* The next-state relation, by actor.                                      *)

RequestNext ==
  \E r \in Requests :
    \/ \E sched \in BOOLEAN : PrepareRequest(r, sched)
    \/ \E q \in Queues : InsertRequest(r, q) \/ IssueRequest(r, q)
    \/ MergeRequest(r)
    \/ RequeueRequest(r)
    \/ DemoRefuse(r)
    \/ \E slow, tight, mean_slow \in BOOLEAN, source \in Sources, level \in Levels :
         CompleteRequest(r, slow, tight, mean_slow, source, level)
    \/ ReturnRequest(r)

DispatchNext(d) ==
  \/ HasWork(d) \/ HasWorkGate(d) \/ DispatchModel(d) \/ ArmModelTimer(d)
  \/ PickRequest(d) \/ AccountPicked(d)

ScheduleNext == ArmTimer \/ QueueInference \/ QueueingFailed

RunnerNext(w) ==
  \/ ReadDecision(w)
  \/ \E level \in Levels : ApplyDecision(w, level)
  \/ ProviderError(w)
  \/ CancelTimer(w)

ThreadNext ==
  ThreadPicksUp \/ ThreadSnapshots \/ ThreadReleases \/ RunnerNext("thread")

AdminNext ==
  ResetContext \/ ResetCancelsTimer \/ ResetCancelsWorks \/ SwitchDone

ThrottleNext ==
  \/ RequestNext
  \/ \E d \in Dispatchers : DispatchNext(d)
  \/ ScheduleNext
  \/ RunnerNext("wq") \/ ThreadNext \/ OtherQueueUsesThread
  \/ TimerFires \/ TimeoutWork
  \/ \E on \in BOOLEAN : SetEnabled(on)
  \/ AdminNext

Spec == Init /\ [][ThrottleNext]_vars

(* Fairness: the kernel's workers, timers and interrupts run; a dispatched *)
(* or requeued request is issued or inserted again and a completed one is  *)
(* given back; and the device, which may send a request back busy any      *)
(* number of times, completes it in the end (the block layer's timeout     *)
(* sees to that).  Nobody is obliged to submit a request, to merge or to   *)
(* refuse one, or to touch the switch.                                     *)
MovesOn(r) ==
  /\ phase[r] # "new"
  /\ \/ \E q \in Queues : InsertRequest(r, q) \/ IssueRequest(r, q)
     \/ ReturnRequest(r)
     \/ r \in refused /\ RequeueRequest(r)

DeviceCompletes(r) ==
  /\ phase[r] = "issued"
  /\ \E slow, tight, mean_slow \in BOOLEAN, source \in Sources, level \in Levels :
       CompleteRequest(r, slow, tight, mean_slow, source, level)

Fairness ==
  /\ \A d \in Dispatchers : WF_vars(DispatchNext(d))
  /\ WF_vars(ScheduleNext)
  /\ WF_vars(RunnerNext("wq")) /\ WF_vars(ThreadNext)
  /\ WF_vars(TimerFires) /\ WF_vars(TimeoutWork)
  /\ WF_vars(AdminNext)
  /\ \A r \in Requests : WF_vars(MovesOn(r)) /\ SF_vars(DeviceCompletes(r))

FairSpec == Spec /\ Fairness

-----------------------------------------------------------------------------
(* Properties.                                                             *)

(* Every variable keeps its type.                                          *)
ThrottleTypeOK ==
  /\ AccountingTypeOK
  /\ enabled \in BOOLEAN
  /\ session \in 0 .. MaxSession
  /\ issue_session \in [Requests -> 0 .. MaxSession]
  /\ refused \subseteq Requests
  /\ ctl \in Control
  /\ kick \in BOOLEAN
  /\ dpc \in [Dispatchers -> {"idle", "has_work", "has_work_gate", "model",
                            "arm_timer", "pick", "account"}]
  /\ pick \in Requests \cup {None}
  /\ {timer, timeout_work, inference_work} \subseteq BOOLEAN
  /\ infer \in [Runners ->
       [pc : {"idle", "run", "read", "apply", "cancel_timer", "release"},
        decision : 0 .. MaxDecision, source : {"FIXED", "MODEL"}, level : AllLevels]]
  /\ slot \in {"free", "queued", "running", "other"}
  /\ scheduling \in [ScheduleSteps -> 0 .. MaxDecision]
  /\ admin \in [pc : {"idle", "reset", "timer", "works", "last"}, enable : BOOLEAN]

(* The control fields never disagree: a decision is pending, or in force,  *)
(* or there is no throttling and then nothing of a decision is left.  An   *)
(* active throttle always has a way to end, which is the pending decision  *)
(* or the feedback it waits for.                                           *)
ControlConsistent ==
  /\ ctl.active => (ctl.pending # ctl.valid)
  /\ ~ctl.active => /\ ~ctl.pending /\ ~ctl.valid
                    /\ ctl.gate = "none" /\ ctl.feedback = "none"
  /\ ctl.valid => ctl.feedback # "none"
  /\ ctl.running => ctl.pending /\ ctl.source = "MODEL"
  /\ ctl.timed_out => ctl.pending

(* The decision in force is the latest one started, with the target of the *)
(* level that was configured when it was started: nothing computed for an  *)
(* earlier decision or an earlier session is ever applied, however late    *)
(* the work item or the model thread comes back.                           *)
AppliedIsLatest ==
  ctl.valid =>
    /\ ctl.applied = ctl.decision
    /\ ctl.source = "FIXED" => ctl.limit = TargetDepth(ctl.level)

(* The feedback sample in flight is a live request that was dispatched     *)
(* under the decision in force and is where feedback_state says, so that   *)
(* feedback_meta never points to a meta given back to the pool and no vote *)
(* comes from a request of another decision.                               *)
FeedbackMatchesRequest ==
  /\ ctl.bound # None <=> ctl.feedback \in {"issue", "complete"}
  /\ ctl.bound # None =>
       /\ meta[ctl.bound].held
       /\ ctl.active /\ ctl.valid /\ ~ctl.pending
       /\ ctl.bound_to = ctl.applied
       /\ ctl.votes < FeedbackMax
       /\ phase[ctl.bound] = IF ctl.feedback = "issue" THEN "dispatched" ELSE "issued"

(* The sample that feedback_meta names is the request it was bound to, and *)
(* every field of the control state keeps its type.                        *)
FeedbackConsistent ==
  /\ ThrottleTypeOK
  /\ FeedbackMatchesRequest

(* The gate is marked closed only while the reason for closing it holds:   *)
(* a decision is pending, or background requests fill the target.          *)
GateHasReason ==
  Blocked(ctl) => ctl.pending \/ ~CanRun(ctl, bg_current_depth)

(* No wake-up is lost: a request that waits in the elevator while no run   *)
(* of the hardware queue is under way or due is a background request held  *)
(* by a gate that is closed and marked closed, so that whoever opens it    *)
(* runs the queue.  (With session 0 the timeout forgets to.)               *)
RunDue ==
  \/ kick \/ admin.pc # "idle"
  \/ \E d \in Dispatchers : dpc[d] # "idle"
  \/ \E w \in Runners : infer[w].pc = "cancel_timer"
NoLostWakeup ==
  ~RunDue =>
    /\ QueuedIn("HP") = {}
    /\ QueuedIn("NonHP") # {} /\ (enabled => session # 0) => Blocked(ctl)

(* Once the switch is off and this queue was reset, the throttle stays     *)
(* inactive, whatever completions, timers and work items still come in.    *)
DisabledQuiet ==
  ~enabled /\ admin.pc # "reset" => ~ctl.active /\ ~ctl.pending /\ ~Blocked(ctl)

(* A pending decision is never forgotten: somebody who will apply it or    *)
(* give it up is on the way.  The model's decision has to be handed to its *)
(* thread first, by the next dispatch.                                     *)
OnTheWay ==
  \/ \E step \in ScheduleSteps : scheduling[step] > 0
  \/ inference_work
  \/ timer \/ \E d \in Dispatchers : dpc[d] = "arm_timer"
  \/ ctl.timed_out /\ timeout_work
  \/ admin.pc = "reset"
  \/ slot = "queued"
  \/ infer["thread"].pc \in {"run", "read"}
  \/ \E w \in Runners : infer[w].pc = "apply" /\ infer[w].decision = ctl.decision
PendingHasResolver ==
  ctl.pending /\ (ctl.source = "FIXED" \/ ctl.running) => OnTheWay

(* The demo mode refuses a request only when another background request    *)
(* holds a reservation besides it and the target is not undercut by it:    *)
(* the counter it compares is about real requests, and r is one of them.   *)
RefusalLeavesTarget ==
  [][\A r \in Requests :
       r \in refused' \ refused =>
         Cardinality({s \in Requests \ {r} : meta[s].bg}) >= ctl.limit]_vars

(* A decision from the configuration is always resolved: applied, given up *)
(* at its deadline, or overtaken by a reset.                               *)
PendingResolves == ctl.pending ~> ~ctl.pending

(* Background work never stalls for good behind the gate: while some of it *)
(* waits, the dispatch path goes on taking requests.                       *)
BackgroundProgress ==
  QueuedIn("NonHP") # {} ~> (pick # None \/ QueuedIn("NonHP") = {})
=============================================================================
