---------------------------- MODULE ThrottleQueues ----------------------------
(***************************************************************************)
(* The life of a throttle context: queue_init with its unwinding, the list *)
(* of active contexts that handlers read under RCU, and queue_exit, which  *)
(* has to stop a timer, two work items and the model thread, that all      *)
(* queues share, before it frees the context.  Module Throttle follows one *)
(* context while it lives; here a decision is only a number, and what is   *)
(* followed is who still holds the context.                                *)
(*                                                                         *)
(* A queue leaves the elevator frozen and quiesced: its dispatcher is out. *)
(* Handlers need not be: one may hold the context of a queue that is going *)
(* away, because the list is walked for another queue.                     *)
(***************************************************************************)
EXTENDS Naturals, FiniteSets

CONSTANTS
    Queues,       \* request queues that may use the elevator
    Handlers,     \* CPUs that run record_complete
    Admins,       \* writers of the procfs switch
    None,         \* no queue, and no writer
    Thread,       \* the model thread, as one of those that run inference_work
    MaxInits,     \* bound: calls of queue_init
    MaxDecisions, \* bound: decisions started
    MaxSwitches   \* bound: calls of set_enabled

ASSUME ThrottleQueuesAssumption ==
    /\ None \notin Queues \cup Admins /\ Thread \notin Queues
    /\ MaxInits \in Nat /\ MaxDecisions \in Nat /\ MaxSwitches \in Nat

Runners == Queues \cup {Thread}
Parts == {"meta_pool", "inference_wq", "timeout_wq"}
InitSteps == {"init_pool", "init_iwq", "init_twq", "init_list"}
ExitSteps == {"sync", "stop_timer", "cancel_thread", "wait_thread",
              "stop_inference", "stop_timeout", "destroy", "free"}

VARIABLES
    life,      \* per queue: none, a step of queue_init, live, a step of queue_exit
    alloc,     \* per queue: the parts of the context that exist
    ctl,       \* per queue: the decision in progress
    timer,     \* per queue: inference_timer, and whether its callback is queueing
    queued,    \* per queue: the work items waiting on their workqueue
    timeout,   \* per queue: timeout_work is running
    idle,      \* per queue: the count of the completion model_thread_idle
    infer,     \* where each runner is in inference_work, and for which decision
    slot,      \* model_thread_ctx
    reader,    \* where each handler is, and which context it found
    dispatch,  \* per queue: the dispatcher submitted and has not armed the timer
    grace,     \* per queue: the readers synchronize_rcu still waits for
    throttle_enabled,
    admin,     \* where each writer of the switch is
    mutex,     \* active_throttle_queues_lock
    crossed,   \* two writers of the switch were in set_enabled at the same time
    bounds     \* calls so far

context == <<life, alloc, ctl, timer, queued, timeout, idle>>
others == <<infer, slot, reader, dispatch, grace>>
switch == <<throttle_enabled, admin, mutex, crossed>>
queueVars == <<context, others, switch, bounds>>

NoDecision == [pending |-> FALSE, timed_out |-> FALSE, running |-> FALSE,
               has_state |-> FALSE, decision |-> 0, source |-> "FIXED"]
TimerOff == [armed |-> FALSE, queueing |-> FALSE]
Out == [at |-> "out", q |-> None]
Asleep == [pc |-> "idle", q |-> None, decision |-> 0]
NotSwitching == [at |-> "out", on |-> FALSE, q |-> None, todo |-> {}]

QueuesInit ==
    /\ life = [q \in Queues |-> "none"]
    /\ alloc = [q \in Queues |-> {}]
    /\ ctl = [q \in Queues |-> NoDecision]
    /\ timer = [q \in Queues |-> TimerOff]
    /\ queued = [q \in Queues |-> {}]
    /\ timeout = [q \in Queues |-> FALSE]
    /\ idle = [q \in Queues |-> 0]
    /\ infer = [w \in Runners |-> Asleep]
    /\ slot = None
    /\ reader = [h \in Handlers |-> Out]
    /\ dispatch = [q \in Queues |-> FALSE]
    /\ grace = [q \in Queues |-> {}]
    /\ throttle_enabled = FALSE
    /\ admin = [a \in Admins |-> NotSwitching]
    /\ mutex = None
    /\ crossed = FALSE
    /\ bounds = [inits |-> 0, decisions |-> 0, switches |-> 0]

Active == {q \in Queues : life[q] = "live"}
Dying(q) == life[q] \in ExitSteps
Live(q, step) == life' = [life EXCEPT ![q] = step]
Fallback(q) ==
    ctl' = [ctl EXCEPT ![q] = [NoDecision EXCEPT !.decision = ctl[q].decision]]
Disarm(q) == timer' = [timer EXCEPT ![q].armed = FALSE]
Arm(q) == timer' = [timer EXCEPT ![q].armed = TRUE]
\* hrtimer_cancel waits for a running callback; cancel_work_sync for the work.
CallbackDone(q) == ~timer[q].queueing

-----------------------------------------------------------------------------
(* queue_init.                                                             *)

StartInit(q) ==
    /\ life[q] = "none" /\ bounds.inits < MaxInits
    /\ Live(q, "init_pool")
    /\ bounds' = [bounds EXCEPT !.inits = @ + 1]
    /\ UNCHANGED <<alloc, ctl, timer, queued, timeout, idle, others, switch>>

\* The next step when an allocation succeeds.
AfterStep == [init_pool |-> "init_iwq", init_iwq |-> "init_twq", init_twq |-> "init_list"]
PartOf == [init_pool |-> "meta_pool", init_iwq |-> "inference_wq", init_twq |-> "timeout_wq"]

\* What the labels free_meta and destroy_inference_wq undo, entered from step.
Undone(step, parts) ==
    CASE step = "init_pool" -> parts
      [] step = "init_iwq"  -> parts \ {"meta_pool"}
      [] step = "init_twq"  -> parts \ {"meta_pool", "inference_wq"}

Allocate(q) ==
    /\ life[q] \in DOMAIN PartOf
    /\ \/ /\ alloc' = [alloc EXCEPT ![q] = @ \cup {PartOf[life[q]]}]
          /\ Live(q, AfterStep[life[q]])
          \* Once the pool is there, the rest of the context is set up.
          /\ idle' = IF life[q] = "init_pool" THEN [idle EXCEPT ![q] = 1] ELSE idle
          /\ ctl' = IF life[q] = "init_pool" THEN [ctl EXCEPT ![q] = NoDecision] ELSE ctl
       \/ /\ alloc' = [alloc EXCEPT ![q] = Undone(life[q], @)]
          /\ Live(q, "none")
          /\ UNCHANGED <<idle, ctl>>
    /\ UNCHANGED <<timer, queued, timeout, others, switch, bounds>>

AddToList(q) ==
    /\ life[q] = "init_list" /\ mutex = None
    /\ Live(q, "live")
    /\ UNCHANGED <<alloc, ctl, timer, queued, timeout, idle, others, switch, bounds>>

-----------------------------------------------------------------------------
(* A completion, within one RCU read section.                              *)

MoveHandler(h, at) == reader' = [reader EXCEPT ![h].at = at]

\* rcu_read_unlock: a grace period that waited for h no longer does.
Leave(h) ==
    /\ reader' = [reader EXCEPT ![h] = Out]
    /\ grace' = [q \in Queues |-> grace[q] \ {h}]

FindContext(h, q) ==
    /\ reader[h].at = "out" /\ q \in Active
    /\ reader' = [reader EXCEPT ![h] = [at |-> "found", q |-> q]]
    /\ UNCHANGED <<context, infer, slot, dispatch, grace, switch, bounds>>

CanStart(q) == throttle_enabled /\ ~Dying(q) /\ ~ctl[q].pending

\* start_inference_locked, from a slow window or a vote that went against the
\* action in force, with the source that the configuration holds.
StartInference(h, source) ==
    LET q == reader[h].q IN
    /\ reader[h].at = "found"
    /\ CanStart(q) /\ bounds.decisions < MaxDecisions
    /\ bounds' = [bounds EXCEPT !.decisions = @ + 1]
    /\ ctl' = [ctl EXCEPT ![q] = [pending |-> TRUE, timed_out |-> FALSE,
                                  running |-> FALSE, source |-> source,
                                  has_state |-> source = "FIXED",
                                  decision |-> bounds.decisions + 1]]
    /\ \/ source = "FIXED" /\ MoveHandler(h, "timer") /\ UNCHANGED grace
       \/ source = "MODEL" /\ Leave(h)
    /\ UNCHANGED <<life, alloc, timer, queued, timeout, idle, infer, slot,
                   dispatch, switch>>

LeaveUnchanged(h) ==
    /\ reader[h].at = "found" /\ Leave(h)
    /\ UNCHANGED <<context, infer, slot, dispatch, switch, bounds>>

\* schedule_inference.
ArmTimer(h) ==
    /\ reader[h].at = "timer"
    /\ Arm(reader[h].q) /\ MoveHandler(h, "work")
    /\ UNCHANGED <<life, alloc, ctl, queued, timeout, idle, infer, slot, dispatch,
                   grace, switch, bounds>>

QueueInference(h) ==
    LET q == reader[h].q IN
    /\ reader[h].at = "work"
    /\ \/ /\ "inference" \notin queued[q]
          /\ queued' = [queued EXCEPT ![q] = @ \cup {"inference"}]
          /\ Leave(h)
       \/ "inference" \in queued[q] /\ MoveHandler(h, "cancel") /\ UNCHANGED <<queued, grace>>
    /\ UNCHANGED <<life, alloc, ctl, timer, timeout, idle, infer, slot, dispatch,
                   switch, bounds>>

QueueingFailed(h) ==
    LET q == reader[h].q IN
    \/ /\ reader[h].at = "cancel" /\ CallbackDone(q)
       /\ Disarm(q) /\ MoveHandler(h, "give_up")
       /\ UNCHANGED <<life, alloc, ctl, queued, timeout, idle, infer, slot,
                      dispatch, grace, switch, bounds>>
    \/ /\ reader[h].at = "give_up"
       /\ IF ctl[q].pending THEN Fallback(q) ELSE UNCHANGED ctl
       /\ Leave(h)
       /\ UNCHANGED <<life, alloc, timer, queued, timeout, idle, infer, slot,
                      dispatch, switch, bounds>>

HandlerSteps(h) ==
    LeaveUnchanged(h) \/ ArmTimer(h) \/ QueueInference(h) \/ QueueingFailed(h)

HandlerNext(h) ==
    \/ \E q \in Queues : FindContext(h, q)
    \/ \E source \in {"FIXED", "MODEL"} : StartInference(h, source)
    \/ HandlerSteps(h)

-----------------------------------------------------------------------------
(* The dispatcher of a queue hands the decision to the thread.             *)

\* The test of the switch before the lock is left out: a dispatcher that saw
\* it on may still come here until the reset of the context.
DispatchModel(q) ==
    /\ life[q] = "live" /\ ~dispatch[q]
    /\ ctl[q].pending /\ ~ctl[q].running /\ ctl[q].source = "MODEL"
    /\ IF slot = None /\ infer[Thread].q = None
       THEN /\ idle' = [idle EXCEPT ![q] = 0]
            /\ slot' = q
            /\ dispatch' = [dispatch EXCEPT ![q] = TRUE]
            /\ ctl' = [ctl EXCEPT ![q].running = TRUE]
       ELSE Fallback(q) /\ UNCHANGED <<idle, slot, dispatch>>
    /\ UNCHANGED <<life, alloc, timer, queued, timeout, infer, reader, grace,
                   switch, bounds>>

ArmModelTimer(q) ==
    /\ dispatch[q]
    /\ Arm(q) /\ dispatch' = [dispatch EXCEPT ![q] = FALSE]
    /\ UNCHANGED <<life, alloc, ctl, queued, timeout, idle, infer, slot, reader,
                   grace, switch, bounds>>

-----------------------------------------------------------------------------
(* The timer and timeout_work.                                             *)

TimerFires(q) ==
    /\ timer[q].armed /\ ~timer[q].queueing
    /\ LET late == ctl[q].pending /\ ~Dying(q) IN
       /\ timer' = [timer EXCEPT ![q] = [armed |-> FALSE, queueing |-> late]]
       /\ ctl' = IF late THEN [ctl EXCEPT ![q].timed_out = TRUE] ELSE ctl
    /\ UNCHANGED <<life, alloc, queued, timeout, idle, others, switch, bounds>>

QueueTimeout(q) ==
    /\ timer[q].queueing
    /\ queued' = [queued EXCEPT ![q] = @ \cup {"timeout"}]
    /\ timer' = [timer EXCEPT ![q].queueing = FALSE]
    /\ UNCHANGED <<life, alloc, ctl, timeout, idle, others, switch, bounds>>

TimeoutStarts(q) ==
    /\ "timeout" \in queued[q] /\ ~timeout[q]
    /\ queued' = [queued EXCEPT ![q] = @ \ {"timeout"}]
    /\ timeout' = [timeout EXCEPT ![q] = TRUE]
    /\ UNCHANGED <<life, alloc, ctl, timer, idle, others, switch, bounds>>

TimeoutWork(q) ==
    /\ timeout[q]
    /\ IF ctl[q].pending /\ ctl[q].timed_out THEN Fallback(q) ELSE UNCHANGED ctl
    /\ timeout' = [timeout EXCEPT ![q] = FALSE]
    /\ UNCHANGED <<life, alloc, timer, queued, idle, others, switch, bounds>>

-----------------------------------------------------------------------------
(* inference_work, on the workqueue or called by the thread.               *)

Goto(w, pc) == infer' = [infer EXCEPT ![w].pc = pc]
Finish(w) == IF w = Thread THEN Goto(w, "complete")
             ELSE infer' = [infer EXCEPT ![w] = Asleep]
Wanted(q) == ctl[q].pending /\ ~ctl[q].timed_out /\ ~Dying(q)
StopRunning(q) == ctl' = [ctl EXCEPT ![q].running = FALSE]

WorkStarts(q) ==
    /\ "inference" \in queued[q] /\ infer[q].pc = "idle"
    /\ queued' = [queued EXCEPT ![q] = @ \ {"inference"}]
    /\ infer' = [infer EXCEPT ![q] = [pc |-> "read", q |-> q, decision |-> 0]]
    /\ UNCHANGED <<life, alloc, ctl, timer, timeout, idle, slot, reader, dispatch,
                   grace, switch, bounds>>

ReadDecision(w) ==
    LET q == infer[w].q IN
    /\ infer[w].pc = "read"
    /\ IF Wanted(q) /\ ctl[q].has_state
       THEN /\ infer' = [infer EXCEPT ![w].pc = "apply",
                                      ![w].decision = ctl[q].decision]
            /\ UNCHANGED ctl
       ELSE StopRunning(q) /\ Finish(w)
    /\ UNCHANGED <<life, alloc, timer, queued, timeout, idle, slot, reader,
                   dispatch, grace, switch, bounds>>

\* The result is applied, or is an error; the error path leaves the timer.
ApplyDecision(w) ==
    LET q == infer[w].q IN
    /\ infer[w].pc = "apply"
    /\ \/ /\ Wanted(q) /\ infer[w].decision = ctl[q].decision
          /\ ctl' = [ctl EXCEPT ![q].pending = FALSE, ![q].running = FALSE]
          /\ Goto(w, "cancel")
       \/ /\ ctl[q].pending /\ ~ctl[q].timed_out
          /\ infer[w].decision = ctl[q].decision
          /\ Fallback(q) /\ Finish(w)
       \/ /\ ~(Wanted(q) /\ infer[w].decision = ctl[q].decision)
          /\ Finish(w)
          /\ StopRunning(q) \/ UNCHANGED ctl
    /\ UNCHANGED <<life, alloc, timer, queued, timeout, idle, slot, reader,
                   dispatch, grace, switch, bounds>>

CancelTimer(w) ==
    LET q == infer[w].q IN
    /\ infer[w].pc = "cancel" /\ CallbackDone(q)
    /\ Disarm(q) /\ Finish(w)
    /\ UNCHANGED <<life, alloc, ctl, queued, timeout, idle, slot, reader, dispatch,
                   grace, switch, bounds>>

RunnerNext(w) == ReadDecision(w) \/ ApplyDecision(w) \/ CancelTimer(w)

-----------------------------------------------------------------------------
(* The model thread.                                                       *)

ThreadPicksUp ==
    /\ infer[Thread].pc = "idle" /\ slot # None
    /\ infer' = [infer EXCEPT ![Thread] = [pc |-> "snapshot", q |-> slot, decision |-> 0]]
    /\ slot' = None
    /\ UNCHANGED <<context, reader, dispatch, grace, switch, bounds>>

\* model_thread_run: the state may be unusable.
ThreadSnapshots ==
    LET q == infer[Thread].q IN
    /\ infer[Thread].pc = "snapshot"
    /\ IF Wanted(q) /\ ctl[q].source = "MODEL"
       THEN \/ Goto(Thread, "read") /\ ctl' = [ctl EXCEPT ![q].has_state = TRUE]
            \/ Fallback(q) /\ Goto(Thread, "cancel")
       ELSE StopRunning(q) /\ Goto(Thread, "complete")
    /\ UNCHANGED <<life, alloc, timer, queued, timeout, idle, slot, reader,
                   dispatch, grace, switch, bounds>>

ThreadCompletes ==
    LET q == infer[Thread].q IN
    /\ infer[Thread].pc = "complete"
    /\ idle' = [idle EXCEPT ![q] = @ + 1]
    /\ Goto(Thread, "clear")
    /\ UNCHANGED <<life, alloc, ctl, timer, queued, timeout, slot, reader, dispatch,
                   grace, switch, bounds>>

\* model_thread_running_ctx is compared and cleared; the context is not touched.
ThreadClears ==
    /\ infer[Thread].pc = "clear"
    /\ infer' = [infer EXCEPT ![Thread] = Asleep]
    /\ UNCHANGED <<context, slot, reader, dispatch, grace, switch, bounds>>

ThreadNext == ThreadPicksUp \/ ThreadSnapshots \/ ThreadCompletes \/ ThreadClears

-----------------------------------------------------------------------------
(* queue_exit.                                                             *)

\* Mutant: queue_exit does not wait for the readers.
Readers_NotWaitedFor == {}

\* The readers that synchronize_rcu finds inside their section.
Readers == {h \in Handlers : reader[h].at # "out"}

StartExit(q) ==
    /\ life[q] = "live" /\ ~dispatch[q] /\ mutex = None
    /\ Live(q, "sync")
    /\ grace' = [grace EXCEPT ![q] = Readers]
    /\ UNCHANGED <<alloc, ctl, timer, queued, timeout, idle, infer, slot, reader,
                   dispatch, switch, bounds>>

Synchronize(q) ==
    /\ life[q] = "sync" /\ grace[q] = {}
    /\ Live(q, "stop_timer")
    /\ UNCHANGED <<alloc, ctl, timer, queued, timeout, idle, others, switch, bounds>>

ExitCancelsTimer(q) ==
    /\ life[q] = "stop_timer" /\ CallbackDone(q)
    /\ Disarm(q) /\ Live(q, "cancel_thread")
    /\ UNCHANGED <<alloc, ctl, queued, timeout, idle, others, switch, bounds>>

\* Mutant: the cancelled context is not completed.
Cancelled_Forgets(q) == FALSE
Cancelled(q) == slot = q

\* model_thread_cancel_ctx.
ExitCancelsThread(q) ==
    /\ life[q] = "cancel_thread"
    /\ slot' = IF slot = q THEN None ELSE slot
    /\ idle' = IF Cancelled(q) THEN [idle EXCEPT ![q] = @ + 1] ELSE idle
    /\ Live(q, "wait_thread")
    /\ UNCHANGED <<alloc, ctl, timer, queued, timeout, infer, reader, dispatch,
                   grace, switch, bounds>>

ExitWaitsForThread(q) ==
    /\ life[q] = "wait_thread" /\ idle[q] > 0
    /\ idle' = [idle EXCEPT ![q] = @ - 1]
    /\ Live(q, "stop_inference")
    /\ UNCHANGED <<alloc, ctl, timer, queued, timeout, others, switch, bounds>>

ExitCancelsInference(q) ==
    /\ life[q] = "stop_inference" /\ infer[q].pc = "idle"
    /\ queued' = [queued EXCEPT ![q] = @ \ {"inference"}]
    /\ Live(q, "stop_timeout")
    /\ UNCHANGED <<alloc, ctl, timer, timeout, idle, others, switch, bounds>>

ExitCancelsTimeout(q) ==
    /\ life[q] = "stop_timeout" /\ ~timeout[q]
    /\ queued' = [queued EXCEPT ![q] = @ \ {"timeout"}]
    /\ Live(q, "destroy")
    /\ UNCHANGED <<alloc, ctl, timer, timeout, idle, others, switch, bounds>>

\* The workqueues, then the pool: requests are gone, so no meta is in use.
DestroyContext(q) ==
    \/ /\ life[q] = "destroy" /\ Live(q, "free")
       /\ alloc' = [alloc EXCEPT ![q] = {"meta_pool"}]
       /\ UNCHANGED <<ctl, timer, queued, timeout, idle, others, switch, bounds>>
    \/ /\ life[q] = "free" /\ Live(q, "none")
       /\ alloc' = [alloc EXCEPT ![q] = {}]
       /\ UNCHANGED <<ctl, timer, queued, timeout, idle, others, switch, bounds>>

ExitNext(q) ==
    \/ Synchronize(q) \/ ExitCancelsTimer(q) \/ ExitCancelsThread(q)
    \/ ExitWaitsForThread(q) \/ ExitCancelsInference(q) \/ ExitCancelsTimeout(q)
    \/ DestroyContext(q)

-----------------------------------------------------------------------------
(* set_enabled.                                                            *)

Switching(a, at) == admin' = [admin EXCEPT ![a].at = at]

CallSetEnabled(a, on) ==
    /\ admin[a].at = "out" /\ bounds.switches < MaxSwitches
    /\ throttle_enabled # on  \* otherwise it returns at once
    /\ admin' = [admin EXCEPT ![a] = [NotSwitching EXCEPT !.at = "clear", !.on = on]]
    /\ bounds' = [bounds EXCEPT !.switches = @ + 1]
    /\ crossed' = (crossed \/ \E b \in Admins : admin[b].at # "out")
    /\ UNCHANGED <<context, others, throttle_enabled, mutex>>

ClearSwitch(a) ==
    /\ admin[a].at = "clear"
    /\ throttle_enabled' = FALSE /\ Switching(a, "lock")
    /\ UNCHANGED <<context, others, mutex, crossed, bounds>>

LockList(a) ==
    /\ admin[a].at = "lock" /\ mutex = None
    /\ mutex' = a
    /\ admin' = [admin EXCEPT ![a].at = "walk", ![a].todo = Active]
    /\ UNCHANGED <<context, others, throttle_enabled, crossed, bounds>>

\* Mutant: the walk cancels, but does not fall back first.
ResetControl_Keeps(q) == UNCHANGED ctl

ResetControl(q) == Fallback(q)

ResetContext(a, q) ==
    /\ admin[a].at = "walk" /\ q \in admin[a].todo
    /\ ResetControl(q)
    /\ admin' = [admin EXCEPT ![a].at = "timer", ![a].q = q, ![a].todo = @ \ {q}]
    /\ UNCHANGED <<life, alloc, timer, queued, timeout, idle, others, throttle_enabled,
                   mutex, crossed, bounds>>

ResetCancelsTimer(a) ==
    LET q == admin[a].q IN
    /\ admin[a].at = "timer" /\ CallbackDone(q)
    /\ Disarm(q) /\ Switching(a, "inference")
    /\ UNCHANGED <<life, alloc, ctl, queued, timeout, idle, others, throttle_enabled, mutex,
                   crossed, bounds>>

ResetCancelsWorks(a) ==
    LET q == admin[a].q IN
    /\ \/ /\ admin[a].at = "inference" /\ infer[q].pc = "idle"
          /\ queued' = [queued EXCEPT ![q] = @ \ {"inference"}]
          /\ Switching(a, "timeout")
       \/ /\ admin[a].at = "timeout" /\ ~timeout[q]
          /\ queued' = [queued EXCEPT ![q] = @ \ {"timeout"}]
          /\ admin' = [admin EXCEPT ![a].at = "walk", ![a].q = None]
    /\ UNCHANGED <<life, alloc, ctl, timer, timeout, idle, others, throttle_enabled, mutex,
                   crossed, bounds>>

UnlockList(a) ==
    /\ admin[a].at = "walk" /\ admin[a].todo = {}
    /\ mutex' = None
    /\ IF admin[a].on THEN Switching(a, "set") ELSE admin' = [admin EXCEPT ![a] = NotSwitching]
    /\ UNCHANGED <<context, others, throttle_enabled, crossed, bounds>>

SetSwitch(a) ==
    /\ admin[a].at = "set"
    /\ throttle_enabled' = TRUE
    /\ admin' = [admin EXCEPT ![a] = NotSwitching]
    /\ UNCHANGED <<context, others, mutex, crossed, bounds>>

AdminStep(a) ==
    \/ ClearSwitch(a) \/ LockList(a) \/ ResetCancelsTimer(a) \/ ResetCancelsWorks(a)
    \/ UnlockList(a) \/ SetSwitch(a)
    \/ \E q \in Queues : ResetContext(a, q)

-----------------------------------------------------------------------------
QueueNext(q) ==
    \/ StartInit(q) \/ Allocate(q) \/ AddToList(q) \/ StartExit(q) \/ ExitNext(q)
    \/ DispatchModel(q) \/ ArmModelTimer(q) \/ TimerFires(q) \/ QueueTimeout(q)
    \/ TimeoutStarts(q) \/ TimeoutWork(q) \/ WorkStarts(q)

QueuesNext ==
    \/ \E q \in Queues : QueueNext(q)
    \/ \E h \in Handlers : HandlerNext(h)
    \/ \E w \in Runners : RunnerNext(w)
    \/ ThreadNext
    \/ \E a \in Admins : AdminStep(a) \/ \E on \in BOOLEAN : CallSetEnabled(a, on)

QueuesSpec == QueuesInit /\ [][QueuesNext]_queueVars

\* What has begun goes on: the steps of an exit, of a call of set_enabled, of a
\* handler, of a work that runs or is queued, of a callback, of the thread.
\* Nothing forces a queue to come or go, a decision to start, or an armed timer
\* to fire before it is cancelled.
QueuesFairness ==
    /\ \A q \in Queues :
          /\ WF_queueVars(ExitNext(q)) /\ WF_queueVars(QueueTimeout(q))
          /\ WF_queueVars(TimeoutStarts(q)) /\ WF_queueVars(TimeoutWork(q))
          /\ WF_queueVars(WorkStarts(q)) /\ WF_queueVars(ArmModelTimer(q))
    /\ \A h \in Handlers : WF_queueVars(HandlerSteps(h))
    /\ \A w \in Runners : WF_queueVars(RunnerNext(w))
    /\ WF_queueVars(ThreadNext)
    /\ \A a \in Admins : WF_queueVars(AdminStep(a))

FairQueuesSpec == QueuesSpec /\ QueuesFairness

-----------------------------------------------------------------------------
ThreadHolds(q) == infer[Thread].q = q /\ infer[Thread].pc # "clear"

\* Somebody may still touch the context of q.
InUse(q) ==
    \/ \E h \in Handlers : reader[h].q = q
    \/ dispatch[q] \/ timer[q] # TimerOff
    \/ queued[q] # {} \/ timeout[q] \/ infer[q].pc # "idle"
    \/ slot = q \/ ThreadHolds(q)
    \/ \E a \in Admins : admin[a].q = q \/ q \in admin[a].todo

\* The types of the variables (the context, its list and the switch of
\* smart_io_throttle.c).
QueuesTypeOK ==
    /\ life \in [Queues -> {"none", "live"} \cup InitSteps \cup ExitSteps]
    /\ alloc \in [Queues -> SUBSET Parts]
    /\ ctl \in [Queues -> [pending : BOOLEAN, timed_out : BOOLEAN, running : BOOLEAN,
                           has_state : BOOLEAN, decision : 0 .. MaxDecisions, source : {"FIXED", "MODEL"}]]
    /\ timer \in [Queues -> [armed : BOOLEAN, queueing : BOOLEAN]]
    /\ queued \in [Queues -> SUBSET {"inference", "timeout"}]
    /\ timeout \in [Queues -> BOOLEAN]
    /\ idle \in [Queues -> Nat]
    /\ infer \in [Runners -> [pc : {"idle", "snapshot", "read", "apply", "cancel",
                                    "complete", "clear"},
                              q : Queues \cup {None}, decision : 0 .. MaxDecisions]]
    /\ slot \in Queues \cup {None}
    /\ reader \in [Handlers -> [at : {"out", "found", "timer", "work", "cancel", "give_up"},
                                 q : Queues \cup {None}]]
    /\ dispatch \in [Queues -> BOOLEAN]
    /\ grace \in [Queues -> SUBSET Handlers]
    /\ throttle_enabled \in BOOLEAN /\ crossed \in BOOLEAN
    /\ admin \in [Admins -> [at : {"out", "clear", "lock", "walk", "timer", "inference",
                                   "timeout", "set"},
                             on : BOOLEAN, q : Queues \cup {None}, todo : SUBSET Queues]]
    /\ mutex \in Admins \cup {None}
    /\ bounds \in [inits : 0 .. MaxInits, decisions : 0 .. MaxDecisions,
                   switches : 0 .. MaxSwitches]

\* Whoever can still reach a context finds all of it there: queue_exit destroys
\* and frees only when no handler, callback, work, thread or writer is left.
UsedIsWhole == \A q \in Queues : InUse(q) => alloc[q] = Parts

\* A context that failed to initialise, or that was torn down, keeps nothing.
NothingLeaks == \A q \in Queues : life[q] = "none" => alloc[q] = {}

\* model_thread_idle counts one exactly when the thread has nothing to do with
\* the context, however the slot was emptied: by the thread, or by an exit.
CompletionBalanced ==
    \A q \in Queues :
       life[q] \in {"live", "sync", "stop_timer", "cancel_thread", "wait_thread"} =>
          idle[q] = IF slot = q \/ ThreadHolds(q) THEN 0 ELSE 1

\* A pending decision of a live context has somebody who will end it: the timer
\* or its work, the inference work, the handler or the dispatcher that is about
\* to arm them, the thread, or the next dispatch.  This takes one writer of the
\* switch at a time.  With two, one may be cancelling in a context that it has
\* reset when the other has set the switch again: a decision that starts there
\* just then loses its timer and its work, and stays.
DecisionHasResolver ==
    \A q \in Active :
       ctl[q].pending /\ ~crossed =>
          \/ timer[q] # TimerOff \/ queued[q] # {} \/ timeout[q]
          \/ infer[q].pc # "idle" \/ slot = q \/ ThreadHolds(q) \/ dispatch[q]
          \/ \E h \in Handlers : reader[h].q = q /\ reader[h].at # "found"
          \/ ctl[q].source = "MODEL" /\ ~ctl[q].running

\* Every queue_exit returns: nothing it waits for waits for it.
ExitEnds == \A q \in Queues : Dying(q) ~> life[q] = "none"

\* Every set_enabled returns, although it waits for works while it holds the
\* mutex that queue_init and queue_exit need.
SwitchEnds == \A a \in Admins : admin[a].at # "out" ~> admin[a].at = "out"

\* A context is whole as long as anybody may reach it, keeps nothing when it
\* is gone, and its completion says whether the thread is in it.
ContextConsistent ==
    /\ QueuesTypeOK
    /\ UsedIsWhole
    /\ NothingLeaks
    /\ CompletionBalanced

\* Neither queue_exit nor set_enabled waits for ever, whatever of the other
\* and of the decisions is under way.
CallsEnd ==
    /\ ExitEnds
    /\ SwitchEnds
=============================================================================
