# TLA+ verification of smart_io_sched

`smart_io_sched` is a Linux kernel module (Android GKI 6.6) that replaces the
mq-deadline I/O scheduler and protects foreground reads: when the storage
device gets slow it limits how many background requests are in flight.  Next to
the scheduler it records every request, keeps statistics per window, limits the
rate at which background tasks dirty pages, and demonstrates a hint to page
reclaim.  The repository has no tests and no documents; the only description is
the code and its comments.  This directory holds TLA+ models of it, TLC
configurations that check them on small instances, and proofs checked by TLAPS.

## 1. The system

| Component | Files in `src/` | State | Operations |
|---|---|---|---|
| throttle: depth accounting | `smart_io_throttle.{c,h}` | a meta per request from a fixed pool; `current_depth`, `bg_current_depth`, `issued_depth`, `pending_fg/bg`, `meta_inuse` | `prepare`, `classify`, `unqueue`, `account_dispatch`, `record_issue`, `record_requeue`, `record_complete`, `finish` |
| throttle: control | same | active / pending / valid, decision, action, gate, feedback, completion window | start, schedule, run, apply, time out, fall back, reset, switch |
| throttle: contexts, model thread | same | the list of contexts; `model_thread_ctx`, `model_thread_running_ctx` | `queue_init`, `queue_exit`, hand over, run, cancel |
| smart-deadline elevator | `smart_deadline.c` | FIFOs and sort trees for HP, RT, BE; statistics | insert, merge, dispatch, finish, has_work |
| UFS hook (demo mode) | `ufs_priority.c` | none | refuse a command |
| request records | `io_semantics.c` | sharded hash of records, `in_flight`, remap tables | insert, issue, requeue, complete, remap, clear |
| window statistics | `io_semantics.c`, `tool.c` | per-CPU buckets, uid lists, busy time | add, roll, swap, snapshot |
| hot inodes, page-cache demo | `io_semantics.c`, `tp_pagecache_demo.c` | 64 inodes with expiry; byte budgets | mark, look up, charge |
| dirty-rate limiter, policy | `smart_io_dirtyrate.c`, `system_context.c` | token bucket, configuration sequence, waiters; hysteresis | charge or wait, configure; poll |
| tracepoints, lifecycle | `tp_*.c`, `setup.c`, `trace_instance.c` | what is registered, allocated, running; the trace instance | init, unwind, retry |
| control plane | `procfs_export.c`, `filter.c` | settings | set, show |
| neural model | `smart_io_model_*` | none | state -> level |
| helpers | `tool.c`, `block_helper.c` | none | format, look up |

How they interact.  The block layer calls the elevator (insert, merge,
dispatch, finish, has_work) and the block tracepoints (insert, issue, requeue,
complete).  Both reach the throttle, which keeps one context per request queue
under `ctx->lock`; completions find it in a list read under RCU.  A completion
may start a decision; a work item or the one model thread computes it, an
hrtimer limits it to 3 ms, and the answer changes what the elevator's gate
(`non_hp_allowed`) lets through.  Whoever opens the gate runs the hardware
queues again.  The tracepoints also feed the request records, and these the
window statistics and the hot inodes.  A polling thread swaps the windows and
decides whether the dirty-rate limiter is active; the limiter's hook is called
by every task that dirties a page.  Procfs writes the settings of all of them,
from the moment the nodes exist until they are removed.

What is hard.  Nearly every function of the throttle drops the lock before it
arms a timer, queues work or runs the queues; timers and work items of one
decision may meet the next one, or the end of the context; the gate check and
the accounting are separate critical sections; a request's handlers find its
meta by two different routes; every wake-up is explicit.  Outside the throttle,
clocks are read before locks, tables are swapped CPU by CPU, switches flip
while requests are under way, and the load may fail when callbacks already run.
The list `hazards` in `PROJECT.json` names the places and the properties about
each.

## 2. Modules

    RequestAccounting  <-- RequestAccountingProofs      RequestRecords  <-- RequestRecordsProofs
      ^                                                   |  DeviceUtil, HotInodes, UidWindows,
    Throttle           <-- ThrottleProofs                 |  WindowStats, PageBudget
      ^                      ^                            |    ^   ^  <-- IoSemanticsProofs
      |                    ThrottleProgressProofs       MCIoSemantics
      |
    MCThrottle,                                         DirtyRate <-- DirtyRatePolicy
    MCRequestAccounting                                   ^             ^
                                                        MCDirtyRate   MCDirtyRatePolicy
    SmartDeadline --> ElevatorOrder (refinement)        DirtyRateProofs (both)
      ^  <-- SmartDeadlineProofs
    MCSmartDeadline                                     ModuleLifecycle, ThrottleQueues
                                                          ^  <-- LifetimesProofs (both)
                                                        MCLifetimes

Every module models a handler as one action where it holds one lock throughout,
and as one action per critical section where it does not.

### RequestAccounting

One action per handler: `Prepare`, `ClassifyRequest`, `UnqueueRequest`,
`AccountDispatch`, `RecordIssue`, `RecordRequeue`, `RecordFinalComplete`,
`FinishRequest`.  `phase` is the block layer's side (what it may call next for
a request), `use_sched` the flag `RQF_USE_SCHED`, `priv` whether
`rq->elv.priv[1]` is set, and `meta` the fields of `smart_io_rq_meta` that
decide anything.  The error paths (empty pool, second reservation, underflow)
are in the model and set `anomaly`; `NoAnomaly` says they are dead.

Left out: sectors, operations, timestamps; RT and BE are one class `NonHP`;
`deadline_forced`, which the compiled dispatch path never sets (the code that
would is inside `#if 0`); partial completions, which change nothing here; the
overflow checks at `U32_MAX`.

### Throttle

Extends the accounting with the control state (`ctl`, a record of the fields of
`ctx` that decide anything) and with the actors:

| Actor | Actions | Code |
|---|---|---|
| block layer and tracepoints | `PrepareRequest` ... `ReturnRequest` | handlers, with their effect on the control state |
| CPUs running the hardware queue | `HasWork`, `HasWorkGate`, `DispatchModel`, `ArmModelTimer`, `PickRequest`, `AccountPicked` | `dd_has_work`, `dd_dispatch_request` |
| completions after their unlock | `ArmTimer`, `QueueInference`, `QueueingFailed` | `schedule_inference` |
| work item and model thread | `ThreadPicksUp`, `ThreadSnapshots`, `ReadDecision`, `ApplyDecision`, `ProviderError`, `CancelTimer`, `ThreadReleases` | `inference_work`, `model_thread_run`, `model_thread_main` |
| other queues | `OtherQueueUsesThread` | the shared model thread |
| timer | `TimerFires`, `TimeoutWork` | hrtimer callback and its work item |
| writer of the switch | `SetEnabled`, `ResetContext`, `ResetCancelsTimer`, `ResetCancelsWorks`, `SwitchDone` | `set_enabled`, `reset_context` |

What follows an unlock is a step of its own where another actor may come
between.  A call of `blk_mq_run_hw_queues` makes `kick` true: a run is due.  It
is counted from the handler's unlock on; as the last thing each of these
handlers does, it cannot fail to happen.

The completion window is kept as the number of samples, the length of the
current run of slow ones, and whether a full window is recent: a decision needs
all samples slow and recent, and no other question is asked of it.  A mixed
vote's mean may come out either way; votes that agree have a determined mean.
`decision` stands for the triple of session, control and decision number that
the code always compares together: it alone never repeats.  The configured
source and level are chosen when a decision starts, which is where the code
copies them.  The model answers any level, fails, or is late.  A request of a
loop device, whose time is excluded, is not modelled.

### ThrottleQueues

The life of a context rather than the life of a decision: `queue_init` with the
unwinding of each allocation, the RCU list, `queue_exit`, and whoever may still
hold the context when it goes.  A decision is a number here.  `reader` is a
completion inside its RCU section, `grace` the readers a `synchronize_rcu`
waits for, `idle` the count of the completion `model_thread_idle`, and
`mutex` is `active_throttle_queues_lock`, which `set_enabled` holds while it
waits for works.  Callback and queueing of the hrtimer are two steps, as
`hrtimer_cancel` tells them apart.  Readers may hold the context of a queue
that is going away; its dispatcher is out, because the block layer freezes and
quiesces the queue first.  The requests are gone by then as well, so that the
path that leaks a busy pool is not taken (`ExitClean` of the accounting).

### SmartDeadline and ElevatorOrder

`SmartDeadline` has the lists, trees, merge hints and counters of the three
queues, from `Prepare` to `Finish`.  The gate is a free answer, asked once for
RT and once more for BE.  Sectors are left out: any two mergeable requests of
equal direction and ioprio may be neighbours.  `ElevatorOrder` is what all this
promises: the high queue first; within a queue the requests put back at its
head, then the one that has waited longest, reads and writes alike; a merge
inherits the earlier place.  `ImplementsOrder` is the refinement.

### RequestRecords

Records from `block_rq_insert` (or `block_rq_issue`) to the last completion,
`in_flight`, and the two remap tables.  The block layer's side is external and
is given by an environment, chosen initially: whether requests are issued
without insertion, complete in parts, are inserted again, are merged into,
are dropped, are remapped, whether the sampling or the switch changes, or
whether the queue has one tag (`serial`).  Each property holds in the
environments it names, and only there: this is the point of the module, since
`in_flight` is exact only without partial completions, re-insertion, growth and
a change of the switch, and the properties say in which direction each of them
moves it.

### UidWindows, WindowStats, DeviceUtil

`UidWindows`: per-CPU lists of kilobytes per uid, with the unlocked allocation
and the swap that goes CPU by CPU.  `WindowStats`: the histograms, their
rolling, and `hist_percentile` checked against the definition of a percentile
of the latencies themselves, which a ghost keeps.  `DeviceUtil`: busy time and
snapshots whose clock was read before the lock, in arithmetic modulo the width.

### HotInodes, PageBudget

`HotInodes`: marks and look-ups with times out of order, expiry, replacement.
`PageBudget`: budgets per uid and inode and window, with shrinkers that read
switch and clock before the lock.  Its history (`granted`, `forgotten`) is that
of one pair of uid and inode, `Watched`, which stands for any.

### DirtyRate and DirtyRatePolicy

`DirtyRate`: the bucket with its integer arithmetic, the hook with its unlocked
and its locked tests, the wait with the configuration sequence, and every
writer of the configuration.  `DirtyRatePolicy` composes it with the polling
thread, which keeps its own copy of whether the limiter is active; the
composition implements `LimiterSpec`, in which the policy is a free caller.  How
the dirty pages grow is one of four values, which is all that the policy's two
comparisons tell apart: "shrinking", "none", "some" and "fast".  The comparison
with the threshold is unsigned (`High`), the one that ends the pressure is
signed (`Rising`); a rate below zero is both high and not rising.

### ModuleLifecycle

`smart_io_init` with its goto labels as stages, each step of which may fail,
and what already runs meanwhile: a probe on another CPU, a writer of a node, a
retry of the trace instance, the polling thread.  There is no unloading:
`module_exit` is commented out.  It assumes that no queue is switched to the
elevator before the load is over; what the kernel does with a scheduler of a
module that is still loading is outside this code.

## 3. Runs

| Run | Instance | Properties |
|---|---|---|
| `throttle_feedback` | 2 requests in either queue, demo mode, window 2, 2 votes, on from the start | `CountersExact`, `MetaConsistent`, `NoAnomaly`, `FeedbackConsistent`, `RefusalLeavesTarget`, the refinement `AccountingSpec` |
| `throttle_decisions` | 1 request, 2 decisions of either source, levels NO and HEAVY, a thread other queues use, 2 sessions | `ControlConsistent`, `DisabledQuiet`, `AppliedIsLatest`, `PendingHasResolver` |
| `throttle_dispatch` | 2 requests, 2 dispatching CPUs, source FIXED, 2 sessions | `GateHasReason`, `NoLostWakeup` |
| `throttle_progress` | 2 requests, fairness | `PendingResolves`, `BackgroundProgress` |
| `accounting_requeue` | 2 requests | finding 1 |
| `deadline` | 3 requests, RT and HP, wrapping counters | `ElevatorConsistent`, `QueuedAgrees`, the refinement `ImplementsOrder` |
| `deadline_grown` | 2 requests, 1 meta | finding 2 |
| `semantics` | the six modules around `io_semantics.c`, each from its initial states | `RecordsConsistent`, `InFlightDrift`, `NothingLeft`, `WindowsTrue`, `FiguresTrue`, `UtilTrue`, `HotTableTrue`, `BudgetsTrue` |
| `dirtyrate` | 1 background writer, rates 0, 3 and 40, fairness | `LimiterConsistent`, `NoStaleSleep`, `RefillIsExact`, `HookReturns` |
| `policy` | 1 writer outside `/background`, 3 windows, fairness | `PolicyConsistent`, `ThreeHighWindows`, `LimiterFollowsPressure`, the refinement `LimiterSpec` |
| `lifetimes` | module: 1 CPU, 1 writer, 1 object per cache; queues: 1 queue created once, 1 handler, 2 writers of the switch, 2 switchings | `NothingDangles`, `CleanFailure`, `DestroyedEmpty`, `EveryLoadEnds`; `ContextConsistent`, `DecisionHasResolver`, `CallsEnd` |
| `lifecycle_release` | 2 writers | finding 3 |

Two runs check several modules that share no state.  `MCIoSemantics` and
`MCLifetimes` have a variable `part` that is chosen initially and never
changes; the other parts stand still.  A behaviour of such a run is a behaviour
of one part, so a property of a part is checked exactly as in a run of its own.
In `MCLifetimes` the part "queues" starts with the module loaded.

A property whose name ends in `Consistent` or `True`, and a few more, is a
conjunction of named parts, each stated and commented where it is defined:

| Property | Parts |
|---|---|
| `MetaConsistent` | types; `MetaMatchesPhase`: what a meta holds follows from the phase; `ExitClean`: the WARN_ONs of `queue_exit` |
| `FeedbackConsistent` | types; `FeedbackMatchesRequest`: the sample is a live request dispatched under the decision in force |
| `ElevatorConsistent` | types; `OnBothLists`; `MergeHintsLinked`; `RightRoot`; `FifoSorted` |
| `RecordsConsistent` | types; `AtMostOneRecord`; `BusyMatchesInFlight` |
| `InFlightDrift` | `InFlightExact`, `InFlightNotOver`, `InFlightNotUnder`: what moves `in_flight`, and which way |
| `NothingLeft` | `NoRecordLeft`, `NoRemapLeft` |
| `WindowsTrue` | `Conserved`: no kilobyte is lost or counted twice; `OneEntryPerUid`; `ReadIsOneWindow` |
| `FiguresTrue` | `PercentilesTrue`, `AnyPercentileTrue`, `AverageWithin` |
| `UtilTrue` | `BusyTimeTrue`, `SnapshotBetween` |
| `HotTableTrue` | `OneSlotPerInode`, `KeptWhileRoom`, `AnswerBacked` |
| `BudgetsTrue` | types; `OneBudgetPerPair`; `GrantsBounded` |
| `LimiterConsistent` | types; `BucketConsistent` |
| `PolicyConsistent` | types; `PolicyKnowsActive`; `OutsidersWaitOnChange` |
| `LimiterFollowsPressure` | `CalmEnds`, `PressureActivates`, `ShrinkingActivates` |
| `NothingDangles` | types; `NoUseAfterDestroy`; `StoredIsReferenced` |
| `ContextConsistent` | types; `UsedIsWhole`; `NothingLeaks`; `CompletionBalanced` |
| `CallsEnd` | `ExitEnds`, `SwitchEnds` |

Bounds.

* Throttle.  `MaxDecision` is how many decisions are started: two are what it
  takes for everything left over from one decision (timer, work item, thread)
  to meet another, and `throttle_decisions` starts two.  `MaxSession` bounds
  how often the throttle is switched on.  `Window` and `FeedbackMax` are 5 in
  the code; the model needs "not yet full, full" and "not the last vote, last
  vote", which 1 and 2 give.  Two requests give one in the way of another, one
  bound and one not; one request, which returns any number of times, is enough
  where only the decisions meet.  `QueueMax` is chosen such that the level's target lies
  below the number of requests, so the depth gate does close.  `LateQueue`
  starts with the throttle on, as for a queue created later (session 0).
  `Bypass`, requests that go round the elevator, is off in the runs of
  `Throttle`: it multiplies the states, and the theorems of section 4 hold for
  either value.
* Records.  Two request structures, each used any number of times; two bios,
  one to merge; `MaxBytes` and `Wrap` make data_bytes wrap after a growth.
* Statistics.  Three operations on two CPUs and two rolls: an operation before,
  during and after a roll.  Latencies fall in different buckets and the last
  one in the overflow bucket.
* Tables.  Two slots for three inodes fill the table and force a replacement;
  clocks run past one expiry or window, and operations may be one unit late.
* Limiter.  A page larger than the slow rate's tokens per unit, a rate that
  fills the bucket at once, and 0; `MaxAge` is the age that fills any bucket.
* Elevator.  Three requests: a merge of two with a third beside them; one unit
  of `jiffies` gives ties and order; counters modulo 4 wrap.
* Lifetimes.  Every step of every stage may fail at each place in its table.
  One life of a queue is enough for the temporal properties: that a context
  that is gone has no timer, work, reader or writer left, for any number of
  lives, is part of what `LifetimesProofs` proves, and `queue_init` resets
  the rest, so a second life starts like the first.  With one queue no other
  queue has the model thread when this one exits; that safety does not depend
  on it is proved for any number of queues, that the exit ends then is not
  checked.

Symmetry under permutation of requests and of dispatching CPUs is used in safety runs only.  Every
property of a passing run has a mutant of the code, listed in `PROJECT.json`,
that breaks it under its run.  Deadlock is checked except where the system may
stop: within the bounds nobody is obliged to submit, switch or load again.

Fairness.  Kernel work items, timers that fired, running callbacks, threads and
system calls that have begun go on (weak fairness of each); hardware-queue runs
that are due happen; a requeued request is inserted again.  Strong fairness is
assumed only of the device in `throttle_progress`: it may send a request back
busy any number of times and must complete it in the end, as the block layer's
request timeout enforces.  Nobody is obliged to submit, merge, refuse, create,
tear down, or touch a switch.  `MCLifetimes` merges some of the conjuncts,
which assumes less.  `HookReturns` is stated for a writer nobody else competes
with: several writers can starve one.  `PressureActivates` and
`ShrinkingActivates` are stated for a policy whose copy agrees whenever it
polls.

### Findings

1. `accounting_requeue`.  `smart_io_throttle.h:160` calls `bg_current_depth`
   "background dispatch to final complete", one line below `current_depth`,
   which is "dispatch to requeue/final complete".  The code releases both at a
   requeue.  The code is the sensible version: a request that waits in the
   elevator again must not block its own redispatch.
2. `deadline_grown`.  A second insertion overwrites `priv[0]` without moving
   the count, and a request without a meta may change its queue in between;
   the statistics that `smart_deadline.c:919` asserts to be zero at exit are
   not.  It takes fewer metas than tags, which is what an `nr_requests` raised
   after `queue_init` leaves.
3. `lifecycle_release`.  The unwinding drops one reference on the trace
   instance and logs it as released while procfs writers can still take and
   store another, which nothing drops.

Behaviour worth knowing that contradicts no comment:

* `timeout_work` returns early when `session_id` is 0, and a queue created
  while the throttle is on has session 0.  The fallback then opens the gate
  without running the queues; the next insert or completion does.
  `NoLostWakeup` therefore excludes session 0 while enabled.
* With source MODEL a completion may start a decision between the two critical
  sections of `dd_has_work`.  The run then ends at the gate; nothing hands the
  decision over until the next release or insertion runs the queue.  The gate
  is marked, so the next release does (`NoLostWakeup`), and for this reason
  `PendingHasResolver` speaks of MODEL decisions that were handed over only.
* Timers are armed after the unlock and not cancelled by every fallback, so a
  stale timer may end a later decision early.  That falls back to no
  throttling: safe, and shorter than intended.  Likewise a stale work item's
  early return clears `inference_running` of a newer decision, which then is
  handed over again and given up because the thread is busy.
* Two concurrent writers of the switch: one may be cancelling in a context that
  it has reset when the other sets the switch again.  A decision that starts
  there just then loses its timer and its work and stays pending until the
  switch is written again.  `DecisionHasResolver` takes one writer at a time.
* Gate check and accounting are separate, and a reissue is not gated at all:
  the target depth may be exceeded.  It is a target, not an invariant, and no
  property claims it.  In demo mode two requests refused at the same time both
  come back later, which undercuts it.
* A background request that bypasses the elevator keeps queue class 0, which is
  HP: it is not counted in `bg_current_depth`.
* The gate may open or close between its checks for RT and BE, so BE may run
  ahead of RT.  No comment promises otherwise.
* A handler that saw the switch on adds its remap entry after switching off has
  cleared the tables; an entry left behind names a device for a later request.
* `system_context.c:114` compares the signed rate of the dirty pages with
  `512ULL`, so the comparison is unsigned and a negative rate is at or above the
  threshold.  Three windows in which the dirty pages become fewer switch the
  limiter on, just as three of fast growth do; the signed test of line 101 then
  takes the same windows for the end of pressure and switches it off again
  after three more.  `ThreeHighWindows` and `ShrinkingActivates` say so.
* `dirtyrate_current_is_background` (`smart_io_dirtyrate.c:145`) takes a
  `cgroup_path` of 0 for success.  In kernels where it returns the length of
  the path (as in 6.6) it is never 0, nobody is found to be in `/background`, and a
  task waits only when the configuration moves between the two checks of the
  hook (`OutsidersWaitOnChange`).  The kernel's side is not in the repository,
  so `Background` is a constant: the theorems hold for any, the run `policy`
  has it empty, the run `dirtyrate` has the writer in it.
* A task outside `/background` passes by the unlocked check of the hook only.
  If the configuration or the foreground moves before the lock is taken, it is
  tested like any other, and may sleep until the change is noticed.
* Without a meta, `dd_request_merged` may ask for another queue than the one
  the request is linked in.  It then takes the request off its tree by the wrong
  root and puts it in the tree of the other queue (`smart_deadline.c:206`),
  while the request stays on its old FIFO.  It takes an `nr_requests` raised after `queue_init`,
  as finding 2 does; the model records it in `wrong_root` and claims nothing of
  the lists from there on.
* A change of the rate refills the bucket, and a pair evicted from the budgets
  starts afresh.

## 4. Proofs

Assumptions: the named `ASSUME`s of the modules, which TLC evaluates in the
runs.  The weightiest is `AccountingAssumption`: a finite set of requests and a
pool at least as large, which is what `meta_capacity` computes from the tag
sets (finding 2 is about what happens without it).

`RequestAccountingProofs` proves, for every set of requests,
`CountersExact`, `NoAnomaly` and `MetaConsistent`, with its parts
`AccountingTypeOK`, `MetaMatchesPhase` and `ExitClean`.  None is inductive alone.  The inductive invariant `AccountingInv`
is the conjunction of types, `CountersExact`, `MetaMatchesPhase` and
`NoAnomaly`, which need each other: exact counters are positive when a place is
given back and leave room in the pool when a meta is asked for, hence no
anomaly; without anomalies every handler stays on its ordinary path, where
places follow phases; and phases exclude that a place is taken twice, which
keeps the counters exact.  The proof splits a handler into what it does to the
one meta (`MetaStep`), what it does to the counters (`CounterStep`), the lemma
that the two together keep the counters exact (`CounterStepExact`, from the
cardinality lemmas of the library), and the lemma that moving one request keeps
the others' places right (`MatchesStep`).  The bound on the counters in
`AccountingTypeOK` is a consequence: they are sizes of sets of requests.

`ThrottleProofs` proves about the whole throttle, for every set of requests and
dispatchers, every window, depth, ratio and bound:

* `Spec => AccountingSpec`: each step is a step of the accounting or leaves it
  alone, so `CountersExact` and `NoAnomaly` hold in every interleaving.  The
  step that needs an argument is `AccountPicked`: it accounts the request that
  was picked, and `LockInv` (one dispatcher at a time between picking and
  accounting, which is what `dd->lock` gives) says that this is one.
* `ControlConsistent`, `AppliedIsLatest` and `DisabledQuiet`, from `ControlInv`:
  the control fields are typed, consistent and the latest (`Good`), each runner
  that is about to apply carries what is still pending if the decision number
  is unchanged (`RunnersFresh`), and the switch is off while it is being
  flipped (`SwitchInv`).  `AppliedIsLatest` is not inductive without
  `RunnersFresh`: a runner reads the decision in one critical section and
  applies in another, and only the growing decision number tells what happened
  in between.  The proof has one lemma per `*_locked` helper (`FallbackTame`,
  `InvalidatedTame`, `AfterReleaseTame`, ...: the helper is `Tame`, it leaves
  the fields good and puts nothing new in place of what is pending), which
  compose; the one step that is not tame is `StartedKeeps`, where the number
  grows.  Inside `CompleteRequest` the fields are inconsistent for a while (the
  last vote unbinds the sample before a new decision starts or is given up);
  `CompleteKeeps` carries only their types across that stretch.
* `GateHasReason`.  The mark of the gate is among the control fields and its
  reason among them and the background depth, which other critical sections
  change.  The invariant is inductive beside `AccountingInv` and `ControlInv`:
  accounting one more request can only strengthen the reason (`GateDeeper`); a
  release, which weakens it, opens the gate it made room for (`GateRelease`);
  every other step is `Excused`, that is, opens the gate, or waits for
  inference, or touches nothing the gate looks at.
* `RefusalLeavesTarget`, an action property: only the hook refuses
  (`OnlyHookRefuses`), and the refused request is one of those it counts.

`ThrottleProgressProofs` proves first `FeedbackConsistent`, its two parts by two
invariants.  `SampleInv` follows the binding of the sample: it is made at
dispatch, moves on at issue, and every other step is `Steady`, it keeps the
binding as it is or undoes it; that the meta is still held then follows from
the request's phase.  The types need the bounds of the counters (`BoundInv`):
no vote exceeds its array because only a bound sample votes and none is bound
once the votes are complete, which is `SampleInv` again; and no more
completions are inside `schedule_inference` than decisions were started, which
`ScheduleInv` says of the sum over its three places.

It then proves the two safety properties that progress rests on; what they add
up to under fairness is checked in `throttle_progress`.

* `PendingHasResolver`, from `ResolverInv`.  The property is not inductive: it
  is satisfied by a timer that is armed, and any runner cancels it.  The
  invariant does without the timer.  It says of a FIXED decision that the
  completion which schedules it, its work item or a runner that has read it is
  under way, of a MODEL decision that the thread has it, and of one that timed
  out that its timeout work is queued.  The critical case is a runner that
  takes up the queued work item of another decision: it reads the one that is
  pending, and so carries it on.  This needs that a FIXED decision has
  `pending_state_valid` from its start, and that the model thread's slot is
  taken for as long as its runner is busy.
* `NoLostWakeup`, from `WakeInv`, which allows for a dispatcher between the two
  critical sections of `dd_has_work`.  Requests enter the elevator only with a
  run of the queues; a marked gate is opened only together with one, or by a
  runner that has one to come (`cancel_timer`), or by a timeout with session 0,
  which the property excludes.  That a release does not fall back silently on
  an underflow needs the exact counters (`NoReleaseFails`), and that a runner
  does not forget the run it owes needs `ResolverInv`.

`LifetimesProofs` proves what comes and goes: contexts, the decisions in them,
and the module itself.

Its first part is `ContextConsistent`, for any number of queues,
handlers and writers of the switch, and for every value of the bounds on the
calls of `queue_init` and the switch and on the decisions started.  The property says what a
context must have while somebody can reach it, but not who may reach it when, so
it is not inductive.  `QueuesInv` confines each kind of holder to a stretch of
the context's life (`Listed`, `Timed`, `Offered`, `Threaded`, `Inferring`,
`Whole`, each containing the one before): `queue_exit` gets rid of readers,
timer, offered thread, running thread, inference work and timeout work in this
order, and what it is rid of can only come back through a kind it has dealt with
before.  Beside that it says that a reader whom `synchronize_rcu` waits for is
in the grace period, that a writer in the walk has the mutex, without which no
queue comes or goes, which parts exist at each step, and that the completion
counts 0 exactly while the thread has, or is offered, the context.  The proof
assumes that `None` is neither a queue nor a writer.

Its second part is `DecisionHasResolver`, from `DecisionInv` on top of
`QueuesInv`.  The property is satisfied by any timer or work item of the
context, also by one of an older decision; the invariant (`Resolves`) names the
one that ends this decision: the timeout work once it has timed out, the handler,
the queued work or a runner that has read this very number for FIXED, the slot
and the thread for MODEL.  A reset cancels all of these in a context.  That no
decision starts there meanwhile is `OneWriter`: a writer that is past clearing
the switch finds it clear until it sets it, if no second writer came in between.
That is the hypothesis `~crossed` of the property, and the reason for it.

Its third part is about `ModuleLifecycle`, for any caches' contents, any nodes,
any probes and any number of CPUs and writers: `NothingDangles`, `CleanFailure`
and the action property `DestroyedEmpty`, from `LifecycleInv`.  The parts go up
in one order and down in the reverse, so each may be up only from its own stage
to the one that undoes it (`PartsUp`, over the sets `BlockStages` and so on,
each containing the next).  A callback or a writer may outlive its registration,
but not the stage that waits for it (`Called`, `Written`).  So when the caches
go nobody is left who could allocate, and when the records are freed nobody is
left who could add one (`CachesUp`).  For the trace instance, the references are
at least those that a writer, the pointer or the load itself holds
(`Referenced`); that they may be more is finding 3.

`SmartDeadlineProofs` proves, for every set of requests and every answer of the
gate:

* Whatever the size of the throttle's pool, `OnBothLists`, `FifoSorted` and
  `MergeHintsLinked` hold as long as `RightRoot` does
  (`ListsConsistentWhileRootsRight`), from `ListInv`: a queued request is once
  on the list of its queue and direction and on no other.  `ListInv` is
  inductive over the steps that leave `wrong_root` false (`ListStep`), and
  `wrong_root` never becomes false again (`RootStaysRight`).
* `ElevatorConsistent`, which adds `RightRoot`, under the hypothesis
  `PoolCovers`: there is a meta for every request.  Without it the tree a
  request is removed from may not be the one it is on; with it `RootInv` says
  that the meta and the counted queue agree, and so `wrong_root` stays false.
* `ElevatorOrder` is implemented (`ImplementsOrder`), step by step, under
  `PoolCovers`.  The two trees of a queue are mapped to the requests that wait
  in it and `fifo_time` to their arrival; that comparing the heads of the two
  FIFOs finds the earliest is `FifoSorted`.
* `QueuedAgrees` under `PoolCovers` and `SpanCovers`, the counters having more
  values than there are requests (2^32 in the code): the difference of two
  wrapping counters is then the number of requests between them.

`RequestRecordsProofs` proves of the request records, for every environment and
any set of requests:

* `RecordsConsistent`: `RecordsTypeOK` (with `in_flight` never below zero,
  although it is decremented without asking whether it was incremented),
  `AtMostOneRecord`, and `BusyMatchesInFlight`: a busy period is open exactly
  while `in_flight` is above zero, whatever it has drifted to.
* `NothingLeft`, from `FreshInv`: where requests do not grow and the switch
  stays on, a record belongs to a request that is not idle and counts exactly
  the bytes it has left (`RecordFresh`), so the completion that finishes the
  request frees the record; and, where no bio ends early either, a recorded
  request has no remap entries (`RemapAwaited`).  A handler that has seen the
  switch on and adds its entry later is covered: its bio goes nowhere until the
  handler has returned.
* `InFlightDrift`, from `DriftInv`: each step changes `in_flight` and the set of
  requests marked as issued together, or only one of them and for a reason that
  is named (`DriftStep`): an early end lowers `in_flight` alone, a dropped mark
  removes a request alone.  The inequality that the reason cannot break is then
  inductive (`DriftDirections`), and both give the exact count.

`IoSemanticsProofs` proves what five further modules promise, each of whose
state is under locks of its own.  Its first section replaces the induction
theorems of the library by induction over sets, and unfolds the folds and sums
of the community modules: a fold over a list is a function of its length, a sum
over a set one of its subsets, from which what an element adds to it follows.

* `UtilTrue`, for any number of readers, requests and windows, from `UtilInv`.
  A snapshot reads the clock before the lock and counts a busy period that may
  have begun after.  `ReadersWithin` says of one that nothing overtook that its
  clock is the very beginning of the window, or lies within it and not before
  the open period, and that the busy time at its clock is at least what it was
  then.  The percentage lies between the two because division is monotonic.  In
  both directions the products stay below the width (`UtilAssumption`), so
  nothing wraps.
* `HotTableTrue`, for any number of callers, inodes and slots, from `HotInv`.
  The step that needs an argument is a mark that displaces an inode.
  `Crowded` says that an inode without a slot before its TTL is over faces more
  inodes marked since, allowing for `MaxHotLate`, than there are slots: when it
  is displaced nothing is expired and the victim was seen first, so the others
  in the table, which differ, and the newcomer have all been marked since
  (`CrowdedOut`, by the pigeonhole lemma of the library); later marks only add to
  them.  The choice of the slot by least number and least time needs that a set
  of naturals has a least element, which `LeastOf` proves from the finite-set
  lemmas, the library's theorem being out of the prover's reach.
* `WindowsTrue`, for any number of CPUs, uids and handlers and any sizes, from
  `UidInv`.  What a reader finds for a uid is the sum over the entries of a list
  that has one per uid; adding to an entry, adding an entry and merging a bucket
  each move exactly their bytes (`Balanced`).  What the swap has freed lies
  between what had been added when the swap before it ended and when it began
  (`WindowBounds`), and while a swap is going from CPU to CPU the pending
  buckets hold what the merged list still lacks.
* `FiguresTrue`, for any number of CPUs and buckets and any latencies, from
  `StatsInv`: every histogram `Describes` the latencies it was made from, that
  is, its buckets count those that fall into them and its sum is theirs.
  `hist_percentile` finds the bucket of the true percentile because buckets grow
  with latencies: the least bucket below which enough requests lie holds it.
  The average lies within the latencies because their sum lies between
  multiples of their number.
* `BudgetsTrue`, for any number of shrinkers, uids, inodes and slots and any
  sizes, from `BudgetInv`. A shrinker reads the clock before the lock, so it
  may find the window later than its time and begin a new one, earlier. `Held`
  says, from the watched entry, how much the last ticks can have seen: those
  that no grant of an earlier window can reach, what this one has used; those
  after a time that no clock still held lies before, a budget more for each
  restart already behind it; and all of them a budget per shrinker more. Each
  shrinker that read the clock before a window began may restart it once
  (`Behind`), and the next reads a later one; windows that follow each other
  begin so far apart (twice the lateness is at most a window,
  `BudgetAssumption`) that no stretch meets three of them.

`DirtyRateProofs` proves of the limiter, for every set of tasks, rates and
bounds: `LimiterConsistent`, `NoStaleSleep` (a waiter reads the
sequence before it tests the bucket under the lock, and every caller moves the
sequence before it wakes) and `OutsidersWaitOnChange`; and of the composition
with the policy, that it implements `LimiterSpec` and `PolicyConsistent`: the
limiter is never active without the policy believing so, and the two counters of
windows stop at the number needed.  The latter is inductive only together with
which counter counts: reaching the number sends the thread to switch the limiter,
and that starts the other one (`PolicyCounts`).  Two action properties follow:

* `RefillIsExact`.  The refill converts an age into bytes and these back into
  the time they used, each by a division that drops a fraction; the proof
  (`RefillExact`) bounds both fractions, so that what is granted is worth the
  time used up within a tick, for every rate and age.  `TimeSuffices` covers the
  shortcut for a full bucket: `dirtyrate_ns_for_bytes` rounds up only when
  the bytes are no multiple of the rate, and that is enough.
* `ThreeHighWindows`, from `WindowsCounted`: while the policy takes the limiter
  for inactive, as many windows as it has counted, the last ones, were high.

Every invariant and action property of the passing runs is proved.  Only
model-checked is what the prover cannot express: the liveness properties
`PendingResolves`, `BackgroundProgress`, `HookReturns`,
`LimiterFollowsPressure`, `EveryLoadEnds` and `CallsEnd`, with the fairness they
assume.  The three findings are counterexamples of TLC.

## 5. Not modelled

* The arithmetic of the neural model: generated weights and straight-line code.
  `Throttle` lets it answer any level, fail, or be late.
* Parsing and formatting of procfs files, trace records and logs; the counters
  and cached samples that only feed them (f2fs, psi, memory, CPU load).
* The capture policy: independent fields read without a lock.
* The probes of `tp_binder.c`, `tp_sched.c` and `tp_filemap.c`, which are
  compiled but never registered, and the page counters only they feed.
* The in-flight sector index and the dispatch statistics of the throttle, which
  no decision that is modelled depends on.
* What the kernel does around the module: the requeue timing of SCSI, the
  module loader, the freezing of a queue.
