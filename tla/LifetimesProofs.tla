---------------------------- MODULE LifetimesProofs ----------------------------
(***************************************************************************)
(* What comes and goes, for any number of queues, handlers, writers, CPUs, *)
(* caches, nodes and probes: the throttle contexts (ThrottleQueues), who   *)
(* ends the decisions in them, and the module itself (ModuleLifecycle).    *)
(*                                                                         *)
(* In each of the three the property says nothing of who may hold what     *)
(* when, so it is not inductive.  The invariants that carry them confine   *)
(* each holder to the stretch of a lifetime in which it may be there:      *)
(* QueuesInv for the contexts, DecisionInv for the decisions, LifecycleInv *)
(* for the module.                                                         *)
(***************************************************************************)
EXTENDS ThrottleQueues, ModuleLifecycle, FiniteSetTheorems, TLAPS

(***************************************************************************)
(* 1.  The life of a throttle context.  queue_exit gets rid of the holders *)
(* one kind at a time, and none of those it is rid of can come back        *)
(* through one that is left.  A handler may re-arm the timer, a timer may  *)
(* queue the work, and the thread may be given the context, but only in    *)
(* that order; so each stretch contains the one before.                    *)
(***************************************************************************)
(* The stretch of a context's life in which each holder may still have it, *)
(* in the order in which queue_exit gets rid of them.                      *)
Listed    == {"live", "sync"}
Timed     == Listed \cup {"stop_timer"}
Offered   == Timed \cup {"cancel_thread"}
Threaded  == Offered \cup {"wait_thread"}
Inferring == Threaded \cup {"stop_inference"}
Whole     == Inferring \cup {"stop_timeout"}

(* A reader has the context of a listed queue, or of one whose exit waits  *)
(* for this reader.                                                        *)
ReadersHold ==
    \A h \in Handlers :
       /\ reader[h].at = "out" <=> reader[h].q = None
       /\ \A q \in Queues : reader[h].q = q =>
             life[q] = "live" \/ (life[q] = "sync" /\ h \in grace[q])

DispatchHolds == \A q \in Queues : dispatch[q] => life[q] = "live"

TimerHolds ==
    \A q \in Queues : timer[q].armed \/ timer[q].queueing => life[q] \in Timed

(* Workqueues: each work item, waiting or running.                         *)
InferenceHolds ==
    \A q \in Queues :
       /\ "inference" \in queued[q] \/ infer[q].pc # "idle" => life[q] \in Inferring
       /\ infer[q].pc # "idle" => infer[q].q = q /\ infer[q].pc \in {"read", "apply", "cancel"}

TimeoutHolds ==
    \A q \in Queues : "timeout" \in queued[q] \/ timeout[q] => life[q] \in Whole

(* The slot and the thread: at most one of them has a context.             *)
ThreadKeeps ==
    /\ infer[Thread].pc = "idle" <=> infer[Thread].q = None
    /\ slot # None => infer[Thread].q = None
    /\ \A q \in Queues : /\ slot = q => life[q] \in Offered
                         /\ ThreadHolds(q) => life[q] \in Threaded

(* A writer in the walk has the mutex, without which no queue comes or     *)
(* goes.                                                                   *)
WalkHolds ==
    \A a \in Admins :
       /\ admin[a].at \in {"walk", "timer", "inference", "timeout"} <=> mutex = a
       /\ admin[a].at \in {"timer", "inference", "timeout"} <=> admin[a].q # None
       /\ \A q \in Queues : admin[a].q = q \/ q \in admin[a].todo =>
                               mutex = a /\ life[q] = "live"

(* The parts that exist at each step of a context's life.                  *)
PartsInStep ==
    \A q \in Queues :
       /\ life[q] \in {"none", "init_pool"} => alloc[q] = {}
       /\ life[q] = "init_iwq" => alloc[q] = {"meta_pool"}
       /\ life[q] = "init_twq" => alloc[q] = {"meta_pool", "inference_wq"}
       /\ life[q] \in {"init_list", "destroy"} \cup Whole => alloc[q] = Parts

(* The completion is set up with the pool, and counts from there.          *)
CompletionInStep ==
    \A q \in Queues :
       /\ life[q] \in {"init_iwq", "init_twq", "init_list"} => idle[q] = 1
       /\ life[q] \in Threaded => idle[q] = IF slot = q \/ ThreadHolds(q) THEN 0 ELSE 1

QueuesInv ==
    /\ QueuesTypeOK
    /\ ReadersHold /\ DispatchHolds /\ TimerHolds
    /\ InferenceHolds /\ TimeoutHolds /\ ThreadKeeps /\ WalkHolds
    /\ PartsInStep /\ CompletionInStep

(* The sets of records that QueuesTypeOK names.                            *)
Controls == [pending : BOOLEAN, timed_out : BOOLEAN, running : BOOLEAN,
             has_state : BOOLEAN, decision : 0 .. MaxDecisions,
             source : {"FIXED", "MODEL"}]
Timers == [armed : BOOLEAN, queueing : BOOLEAN]
Inferences == [pc : {"idle", "snapshot", "read", "apply", "cancel", "complete",
                     "clear"},
               q : Queues \cup {None}, decision : 0 .. MaxDecisions]
Readings == [at : {"out", "found", "timer", "work", "cancel", "give_up"},
             q : Queues \cup {None}]
Switchings == [at : {"out", "clear", "lock", "walk", "timer", "inference",
                     "timeout", "set"},
               on : BOOLEAN, q : Queues \cup {None}, todo : SUBSET Queues]

-----------------------------------------------------------------------------
(* What the helpers of the actions leave behind.                           *)

LEMMA OneSet ==
  ASSUME NEW S, NEW T, NEW f \in [S -> T], NEW x, NEW v \in T
  PROVE  [f EXCEPT ![x] = v] \in [S -> T]
OBVIOUS

LEMMA ControlSet ==
  ASSUME QueuesTypeOK, NEW q \in Queues, NEW c \in Controls,
         ctl' = [ctl EXCEPT ![q] = c]
  PROVE  ctl' \in [Queues -> Controls]
BY DEF QueuesTypeOK, Controls

LEMMA NothingDecided == NoDecision \in Controls
BY ThrottleQueuesAssumption DEF NoDecision, Controls

LEMMA FallenBack ==
  ASSUME QueuesTypeOK, NEW q \in Queues, Fallback(q)
  PROVE  ctl' \in [Queues -> Controls]
<1> DEFINE c == [NoDecision EXCEPT !.decision = ctl[q].decision]
<1>1. ctl[q].decision \in 0 .. MaxDecisions
  BY DEF QueuesTypeOK
<1>2. c \in Controls
  BY <1>1, NothingDecided DEF Controls
<1>3. ctl' = [ctl EXCEPT ![q] = c]
  BY DEF Fallback, QueuesTypeOK
<1> HIDE DEF c
<1> QED BY <1>2, <1>3, ControlSet

LEMMA Stopped ==
  ASSUME QueuesTypeOK, NEW q \in Queues, StopRunning(q)
  PROVE  ctl' \in [Queues -> Controls]
<1> DEFINE c == [ctl[q] EXCEPT !.running = FALSE]
<1>1. ctl[q] \in Controls
  BY DEF QueuesTypeOK, Controls
<1>2. c \in Controls
  BY <1>1 DEF Controls
<1>3. ctl' = [ctl EXCEPT ![q] = c]
  BY DEF StopRunning
<1> HIDE DEF c
<1> QED BY <1>2, <1>3, ControlSet

LEMMA TimerSet ==
  ASSUME QueuesTypeOK, NEW q \in Queues, NEW t \in Timers,
         timer' = [timer EXCEPT ![q] = t]
  PROVE  timer' \in [Queues -> Timers]
BY DEF QueuesTypeOK, Timers

LEMMA TimerArmed ==
  ASSUME QueuesTypeOK, NEW q \in Queues, Arm(q)
  PROVE  timer' \in [Queues -> Timers]
<1> DEFINE t == [timer[q] EXCEPT !.armed = TRUE]
<1>1. timer[q] \in Timers
  BY DEF QueuesTypeOK, Timers
<1>2. t \in Timers
  BY <1>1 DEF Timers
<1>3. timer' = [timer EXCEPT ![q] = t]
  BY DEF Arm
<1> HIDE DEF t
<1> QED BY <1>2, <1>3, TimerSet

LEMMA TimerDisarmed ==
  ASSUME QueuesTypeOK, NEW q \in Queues, Disarm(q)
  PROVE  timer' \in [Queues -> Timers]
<1> DEFINE t == [timer[q] EXCEPT !.armed = FALSE]
<1>1. timer[q] \in Timers
  BY DEF QueuesTypeOK, Timers
<1>2. t \in Timers
  BY <1>1 DEF Timers
<1>3. timer' = [timer EXCEPT ![q] = t]
  BY DEF Disarm
<1> HIDE DEF t
<1> QED BY <1>2, <1>3, TimerSet

(* A runner that moves on, or is done.                                     *)
LEMMA RunnerSet ==
  ASSUME QueuesTypeOK, NEW w \in Runners, NEW i \in Inferences,
         infer' = [infer EXCEPT ![w] = i]
  PROVE  /\ infer' \in [Runners -> Inferences]
         /\ infer'[w] = i
         /\ \A x \in Runners : x # w => infer'[x] = infer[x]
BY DEF QueuesTypeOK, Inferences

LEMMA RunnerMoves ==
  ASSUME QueuesTypeOK, NEW w \in Runners,
         NEW pc \in {"read", "apply", "cancel", "complete", "clear"}, Goto(w, pc)
  PROVE  /\ infer' \in [Runners -> Inferences]
         /\ infer'[w].pc = pc /\ infer'[w].q = infer[w].q
         /\ \A x \in Runners : x # w => infer'[x] = infer[x]
<1> DEFINE i == [infer[w] EXCEPT !.pc = pc]
<1>1. infer[w] \in Inferences
  BY DEF QueuesTypeOK, Inferences
<1>2. i \in Inferences /\ i.pc = pc /\ i.q = infer[w].q
  BY <1>1 DEF Inferences
<1>3. infer' = [infer EXCEPT ![w] = i]
  BY DEF Goto
<1> HIDE DEF i
<1> QED BY <1>2, <1>3, RunnerSet

LEMMA RunnerFinishes ==
  ASSUME QueuesTypeOK, NEW w \in Runners, Finish(w)
  PROVE  /\ infer' \in [Runners -> Inferences]
         /\ IF w = Thread THEN infer'[w].pc = "complete" /\ infer'[w].q = infer[w].q
                          ELSE infer'[w] = Asleep
         /\ \A x \in Runners : x # w => infer'[x] = infer[x]
<1>1. CASE w = Thread
  BY <1>1, RunnerMoves DEF Finish
<1>2. CASE w # Thread
  <2>1. Asleep \in Inferences
    BY ThrottleQueuesAssumption DEF Asleep, Inferences
  <2>2. infer' = [infer EXCEPT ![w] = Asleep]
    BY <1>2 DEF Finish
  <2> QED BY <1>2, <2>1, <2>2, RunnerSet
<1> QED BY <1>1, <1>2

(* Whoever has a context has the context of some queue.                    *)
LEMMA RunnersQueue ==
  ASSUME QueuesInv, NEW w \in Runners, infer[w].pc # "idle"
  PROVE  infer[w].q \in Queues
BY ThrottleQueuesAssumption
   DEF QueuesInv, QueuesTypeOK, InferenceHolds, ThreadKeeps, Runners

LEMMA ReadersQueue ==
  ASSUME QueuesInv, NEW h \in Handlers, reader[h].at # "out"
  PROVE  reader[h].q \in Queues
BY DEF QueuesInv, QueuesTypeOK, ReadersHold

LEMMA WritersQueue ==
  ASSUME QueuesInv, NEW a \in Admins,
         admin[a].at \in {"timer", "inference", "timeout"}
  PROVE  admin[a].q \in Queues
BY DEF QueuesInv, QueuesTypeOK, WalkHolds

(* A runner that moves on keeps its context; one that is done lets it go.  *)
LEMMA RunnerKeepsHold ==
  ASSUME QueuesInv, NEW w \in Runners, infer[w].pc # "idle",
         \/ \E pc \in {"read", "apply", "cancel"} : Goto(w, pc)
         \/ Finish(w)
         \/ w = Thread /\ Goto(w, "complete"),
         UNCHANGED <<life, queued>>
  PROVE  InferenceHolds'
<1>1. /\ infer'[w] = Asleep \/ infer'[w].q = infer[w].q
      /\ w # Thread => infer'[w] = Asleep \/ infer'[w].pc \in {"read", "apply", "cancel"}
      /\ \A x \in Runners : x # w => infer'[x] = infer[x]
  <2>1. CASE Finish(w)
    BY <2>1, RunnerFinishes DEF QueuesInv
  <2>2. CASE ~Finish(w)
    BY <2>2, RunnerMoves DEF QueuesInv
  <2> QED BY <2>1, <2>2
<1> QED
  BY <1>1, ThrottleQueuesAssumption
     DEF QueuesInv, InferenceHolds, Runners, Asleep

LEMMA ControlMarked ==
  ASSUME QueuesTypeOK, NEW q \in Queues,
         \/ ctl' = [ctl EXCEPT ![q].running = TRUE]
         \/ ctl' = [ctl EXCEPT ![q].timed_out = TRUE]
         \/ ctl' = [ctl EXCEPT ![q].has_state = TRUE]
         \/ ctl' = [ctl EXCEPT ![q].pending = FALSE, ![q].running = FALSE]
  PROVE  ctl' \in [Queues -> Controls]
<1> DEFINE r == [ctl[q] EXCEPT !.running = TRUE]
<1> DEFINE t == [ctl[q] EXCEPT !.timed_out = TRUE]
<1> DEFINE s == [ctl[q] EXCEPT !.has_state = TRUE]
<1> DEFINE d == [[ctl[q] EXCEPT !.pending = FALSE] EXCEPT !.running = FALSE]
<1>1. ctl[q] \in Controls
  BY DEF QueuesTypeOK, Controls
<1>2. r \in Controls /\ t \in Controls /\ s \in Controls
  BY <1>1 DEF Controls
<1>3. d \in Controls
  BY <1>1 DEF Controls
<1>4. \/ ctl' = [ctl EXCEPT ![q] = r] \/ ctl' = [ctl EXCEPT ![q] = t]
      \/ ctl' = [ctl EXCEPT ![q] = s] \/ ctl' = [ctl EXCEPT ![q] = d]
  <2>1. ctl \in [Queues -> Controls]
    BY DEF QueuesTypeOK, Controls
  <2>2. CASE ctl' = [ctl EXCEPT ![q].pending = FALSE, ![q].running = FALSE]
    <3>1. ctl' = [ctl EXCEPT ![q] = d]
      BY <2>1, <2>2
    <3> QED BY <3>1
  <2> QED BY <2>2
<1> HIDE DEF r, t, s, d
<1> QED BY <1>2, <1>3, <1>4, ControlSet

LEMMA WriterSet ==
  ASSUME QueuesTypeOK, NEW a \in Admins, NEW s \in Switchings,
         admin' = [admin EXCEPT ![a] = s]
  PROVE  /\ admin' \in [Admins -> Switchings]
         /\ admin'[a] = s
         /\ \A b \in Admins : b # a => admin'[b] = admin[b]
BY DEF QueuesTypeOK, Switchings

LEMMA WriterMoves ==
  ASSUME QueuesTypeOK, NEW a \in Admins,
         NEW at \in {"lock", "walk", "inference", "timeout", "set"}, Switching(a, at)
  PROVE  /\ admin' \in [Admins -> Switchings]
         /\ admin'[a].at = at /\ admin'[a].q = admin[a].q
         /\ admin'[a].todo = admin[a].todo
         /\ \A b \in Admins : b # a => admin'[b] = admin[b]
<1> DEFINE s == [admin[a] EXCEPT !.at = at]
<1>1. admin[a] \in Switchings
  BY DEF QueuesTypeOK, Switchings
<1>2. s \in Switchings /\ s.at = at /\ s.q = admin[a].q /\ s.todo = admin[a].todo
  BY <1>1 DEF Switchings
<1>3. admin' = [admin EXCEPT ![a] = s]
  BY DEF Switching
<1> HIDE DEF s
<1> QED BY <1>2, <1>3, WriterSet

LEMMA HandlerMoves ==
  ASSUME QueuesTypeOK, NEW h \in Handlers,
         NEW at \in {"timer", "work", "cancel", "give_up"}, MoveHandler(h, at)
  PROVE  /\ reader' \in [Handlers -> Readings]
         /\ reader'[h].at = at /\ reader'[h].q = reader[h].q
         /\ \A g \in Handlers : g # h => reader'[g] = reader[g]
<1> DEFINE r == [reader[h] EXCEPT !.at = at]
<1>1. reader[h] \in Readings /\ reader \in [Handlers -> Readings]
  BY DEF QueuesTypeOK, Readings
<1>2. r \in Readings /\ r.at = at /\ r.q = reader[h].q
  BY <1>1 DEF Readings
<1>3. reader' = [reader EXCEPT ![h] = r]
  BY DEF MoveHandler
<1> HIDE DEF r
<1> QED BY <1>1, <1>2, <1>3

LEMMA HandlerLeaves ==
  ASSUME QueuesTypeOK, NEW h \in Handlers, Leave(h)
  PROVE  /\ reader' \in [Handlers -> Readings]
         /\ reader'[h] = Out
         /\ \A g \in Handlers : g # h => reader'[g] = reader[g]
         /\ grace' \in [Queues -> SUBSET Handlers]
         /\ \A q \in Queues, g \in Handlers : g # h /\ g \in grace[q] => g \in grace'[q]
<1>1. Out \in Readings
  BY DEF Out, Readings
<1>2. reader \in [Handlers -> Readings] /\ grace \in [Queues -> SUBSET Handlers]
  BY DEF QueuesTypeOK, Readings
<1>3. reader' = [reader EXCEPT ![h] = Out] /\ grace' = [q \in Queues |-> grace[q] \ {h}]
  BY DEF Leave
<1> QED BY <1>1, <1>2, <1>3

(* A handler that moves on keeps its context; one that leaves lets it go.  *)
LEMMA HandlerKeepsHold ==
  ASSUME QueuesInv, NEW h \in Handlers, reader[h].at # "out",
         \/ \E at \in {"timer", "work", "cancel", "give_up"} :
               MoveHandler(h, at) /\ UNCHANGED grace
         \/ Leave(h),
         UNCHANGED life
  PROVE  ReadersHold'
<1>1. CASE Leave(h)
  BY <1>1, HandlerLeaves, ThrottleQueuesAssumption DEF QueuesInv, ReadersHold, Out
<1>2. CASE ~Leave(h)
  BY <1>2, HandlerMoves DEF QueuesInv, ReadersHold
<1> QED BY <1>1, <1>2

USE DEF Listed, Timed, Offered, Threaded, Inferring, Whole

-----------------------------------------------------------------------------
(* queue_init.                                                             *)

LEMMA StartInitKeeps ==
  ASSUME QueuesInv, NEW q \in Queues, StartInit(q)
  PROVE  QueuesInv'
<1>1. QueuesTypeOK'
  <2>1. bounds.inits + 1 \in 0 .. MaxInits
    BY ThrottleQueuesAssumption DEF QueuesInv, QueuesTypeOK, StartInit
  <2> QED
    BY <2>1, ThrottleQueuesAssumption
       DEF QueuesInv, QueuesTypeOK, Runners, Parts, InitSteps, ExitSteps,
           others, switch, Live, StartInit
<1>2. ReadersHold'
  BY ThrottleQueuesAssumption
     DEF QueuesInv, QueuesTypeOK, ReadersHold, others, Live, StartInit
<1>3. DispatchHolds'
  BY ThrottleQueuesAssumption
     DEF QueuesInv, QueuesTypeOK, DispatchHolds, others, Live, StartInit
<1>4. TimerHolds'
  BY ThrottleQueuesAssumption
     DEF QueuesInv, QueuesTypeOK, TimerHolds, Live, StartInit
<1>5. InferenceHolds'
  BY ThrottleQueuesAssumption
     DEF QueuesInv, QueuesTypeOK, InferenceHolds, others, Live, StartInit
<1>6. TimeoutHolds'
  BY ThrottleQueuesAssumption
     DEF QueuesInv, QueuesTypeOK, TimeoutHolds, Live, StartInit
<1>7. ThreadKeeps'
  BY ThrottleQueuesAssumption
     DEF QueuesInv, QueuesTypeOK, ThreadKeeps, others, Live, StartInit,
         ThreadHolds
<1>8. WalkHolds'
  BY ThrottleQueuesAssumption
     DEF QueuesInv, QueuesTypeOK, WalkHolds, switch, Live, StartInit
<1>9. PartsInStep'
  BY ThrottleQueuesAssumption
     DEF QueuesInv, QueuesTypeOK, PartsInStep, Parts, Live, StartInit
<1>10. CompletionInStep'
  BY ThrottleQueuesAssumption
     DEF QueuesInv, QueuesTypeOK, CompletionInStep, others, Live, StartInit,
         ThreadHolds
<1> QED
  BY <1>1, <1>2, <1>3, <1>4, <1>5, <1>6, <1>7, <1>8, <1>9, <1>10 DEF QueuesInv

LEMMA AllocateKeeps ==
  ASSUME QueuesInv, NEW q \in Queues, Allocate(q)
  PROVE  QueuesInv'
<1>1. QueuesTypeOK'
  <2>1. ctl' \in [Queues -> Controls]
    <3>1. ctl' = [ctl EXCEPT ![q] = NoDecision] \/ ctl' = ctl
      BY DEF Allocate
    <3> QED
      BY <3>1, ControlSet, NothingDecided DEF QueuesInv, QueuesTypeOK, Controls
  <2>2. life[q] \in {"init_pool", "init_iwq", "init_twq"}
    BY DEF Allocate, PartOf
  <2>3. life' \in [Queues -> {"none", "live"} \cup InitSteps \cup ExitSteps]
    BY <2>2
       DEF QueuesInv, QueuesTypeOK, InitSteps, ExitSteps, Live, AfterStep,
           Allocate
  <2>4. alloc' \in [Queues -> SUBSET Parts]
    <3>1. PartOf[life[q]] \in Parts /\ Undone(life[q], alloc[q]) \subseteq alloc[q]
      BY <2>2 DEF PartOf, Undone, Parts
    <3> DEFINE more == alloc[q] \cup {PartOf[life[q]]}
    <3> DEFINE less == Undone(life[q], alloc[q])
    <3>2. alloc' = [alloc EXCEPT ![q] = more] \/ alloc' = [alloc EXCEPT ![q] = less]
      BY DEF Allocate
    <3>3. alloc[q] \in SUBSET Parts
      BY DEF QueuesInv, QueuesTypeOK
    <3>4. more \in SUBSET Parts /\ less \in SUBSET Parts
      BY <3>1, <3>3
    <3>5. alloc \in [Queues -> SUBSET Parts]
      BY DEF QueuesInv, QueuesTypeOK
    <3> HIDE DEF more, less
    <3>6. CASE alloc' = [alloc EXCEPT ![q] = more]
      BY Zenon, <3>4, <3>5, <3>6, OneSet
    <3>7. CASE alloc' = [alloc EXCEPT ![q] = less]
      BY Zenon, <3>4, <3>5, <3>7, OneSet
    <3> QED BY <3>2, <3>6, <3>7
  <2> QED
    BY <2>1, <2>2, <2>3, <2>4, ThrottleQueuesAssumption
       DEF QueuesInv, QueuesTypeOK, Controls, Runners, Parts, InitSteps,
           ExitSteps, context, others, switch, Allocate
<1>2. ReadersHold'
  BY ThrottleQueuesAssumption
     DEF QueuesInv, QueuesTypeOK, ReadersHold, context, others, Live, AfterStep,
         PartOf, Undone, Allocate
<1>3. DispatchHolds'
  BY ThrottleQueuesAssumption
     DEF QueuesInv, QueuesTypeOK, DispatchHolds, context, others, Live,
         AfterStep, PartOf, Undone, Allocate
<1>4. TimerHolds'
  <2>1. life[q] \in {"init_pool", "init_iwq", "init_twq"}
    BY DEF Allocate, PartOf
  <2>2. /\ life' = [life EXCEPT ![q] = life'[q]]
        /\ \A p \in Queues : p # q => life'[p] = life[p]
        /\ UNCHANGED <<timer>>
    BY DEF QueuesInv, QueuesTypeOK, Allocate, Live
  <2> QED
    BY <2>1, <2>2 DEF QueuesInv, TimerHolds
<1>5. InferenceHolds'
  BY ThrottleQueuesAssumption
     DEF QueuesInv, QueuesTypeOK, TimerHolds, InferenceHolds, others,
         NoDecision, Live, AfterStep, PartOf, Allocate
<1>6. TimeoutHolds'
  <2>1. life[q] \in {"init_pool", "init_iwq", "init_twq"}
    BY DEF Allocate, PartOf
  <2>2. /\ life' = [life EXCEPT ![q] = life'[q]]
        /\ \A p \in Queues : p # q => life'[p] = life[p]
        /\ UNCHANGED <<queued, timeout>>
    BY DEF QueuesInv, QueuesTypeOK, Allocate, Live
  <2> QED
    BY <2>1, <2>2 DEF QueuesInv, TimeoutHolds
<1>7. ThreadKeeps'
  BY ThrottleQueuesAssumption
     DEF QueuesInv, QueuesTypeOK, ThreadKeeps, context, others, Live, AfterStep,
         PartOf, Undone, Allocate, ThreadHolds
<1>8. WalkHolds'
  BY ThrottleQueuesAssumption
     DEF QueuesInv, QueuesTypeOK, WalkHolds, context, switch, Live, AfterStep,
         PartOf, Undone, Allocate
<1>9. PartsInStep'
  BY ThrottleQueuesAssumption
     DEF QueuesInv, QueuesTypeOK, ReadersHold, DispatchHolds, TimerHolds,
         InferenceHolds, TimeoutHolds, ThreadKeeps, WalkHolds, PartsInStep,
         CompletionInStep, Runners, Parts, InitSteps, ExitSteps, context,
         others, switch, NoDecision, Live, AfterStep, PartOf, Undone, Allocate,
         ThreadHolds
<1>10. CompletionInStep'
  BY ThrottleQueuesAssumption
     DEF QueuesInv, QueuesTypeOK, CompletionInStep, context, others, Live,
         AfterStep, PartOf, Undone, Allocate, ThreadHolds
<1> QED
  BY <1>1, <1>2, <1>3, <1>4, <1>5, <1>6, <1>7, <1>8, <1>9, <1>10 DEF QueuesInv

LEMMA AddToListKeeps ==
  ASSUME QueuesInv, NEW q \in Queues, AddToList(q)
  PROVE  QueuesInv'
<1>1. QueuesTypeOK'
  BY ThrottleQueuesAssumption
     DEF QueuesInv, QueuesTypeOK, Runners, Parts, InitSteps, ExitSteps, others,
         switch, Live, AddToList
<1>2. ReadersHold'
  BY ThrottleQueuesAssumption
     DEF QueuesInv, QueuesTypeOK, ReadersHold, others, Live, AddToList
<1>3. DispatchHolds'
  BY ThrottleQueuesAssumption
     DEF QueuesInv, QueuesTypeOK, DispatchHolds, others, Live, AddToList
<1>4. TimerHolds'
  BY ThrottleQueuesAssumption
     DEF QueuesInv, QueuesTypeOK, TimerHolds, Live, AddToList
<1>5. InferenceHolds'
  BY ThrottleQueuesAssumption
     DEF QueuesInv, QueuesTypeOK, InferenceHolds, others, Live, AddToList
<1>6. TimeoutHolds'
  BY ThrottleQueuesAssumption
     DEF QueuesInv, QueuesTypeOK, TimeoutHolds, Live, AddToList
<1>7. ThreadKeeps'
  BY ThrottleQueuesAssumption
     DEF QueuesInv, QueuesTypeOK, ThreadKeeps, others, Live, AddToList,
         ThreadHolds
<1>8. WalkHolds'
  BY ThrottleQueuesAssumption
     DEF QueuesInv, QueuesTypeOK, WalkHolds, switch, Live, AddToList
<1>9. PartsInStep'
  BY ThrottleQueuesAssumption
     DEF QueuesInv, QueuesTypeOK, PartsInStep, Parts, Live, AddToList
<1>10. CompletionInStep'
  BY ThrottleQueuesAssumption
     DEF QueuesInv, ThreadKeeps, CompletionInStep, others, Live, AddToList,
         ThreadHolds
<1> QED
  BY <1>1, <1>2, <1>3, <1>4, <1>5, <1>6, <1>7, <1>8, <1>9, <1>10 DEF QueuesInv

-----------------------------------------------------------------------------
(* A completion.                                                           *)

LEMMA FindContextKeeps ==
  ASSUME QueuesInv, NEW h \in Handlers, NEW q \in Queues, FindContext(h, q)
  PROVE  QueuesInv'
<1>1. QueuesTypeOK'
  BY ThrottleQueuesAssumption
     DEF QueuesInv, QueuesTypeOK, Runners, Parts, InitSteps, ExitSteps, context,
         switch, Active, FindContext
<1>2. ReadersHold'
  BY ThrottleQueuesAssumption
     DEF QueuesInv, QueuesTypeOK, ReadersHold, context, Active, FindContext
<1>3. DispatchHolds' /\ TimerHolds' /\ InferenceHolds' /\ TimeoutHolds' /\
       ThreadKeeps' /\ WalkHolds' /\ PartsInStep' /\ CompletionInStep'
  BY DEF QueuesInv, DispatchHolds, TimerHolds, InferenceHolds, TimeoutHolds,
         ThreadKeeps, WalkHolds, PartsInStep, CompletionInStep, context, switch,
         FindContext, ThreadHolds
<1> QED
  BY <1>1, <1>2, <1>3 DEF QueuesInv

LEMMA LeaveUnchangedKeeps ==
  ASSUME QueuesInv, NEW h \in Handlers, LeaveUnchanged(h)
  PROVE  QueuesInv'
<1>1. QueuesTypeOK'
  BY ThrottleQueuesAssumption
     DEF QueuesInv, QueuesTypeOK, Runners, Parts, InitSteps, ExitSteps, context,
         switch, Out, Leave, LeaveUnchanged
<1>2. ReadersHold'
  BY ThrottleQueuesAssumption
     DEF QueuesInv, QueuesTypeOK, ReadersHold, context, Out, Leave,
         LeaveUnchanged
<1>3. DispatchHolds' /\ TimerHolds' /\ InferenceHolds' /\ TimeoutHolds' /\
       ThreadKeeps' /\ WalkHolds' /\ PartsInStep' /\ CompletionInStep'
  BY DEF QueuesInv, DispatchHolds, TimerHolds, InferenceHolds, TimeoutHolds,
         ThreadKeeps, WalkHolds, PartsInStep, CompletionInStep, context, switch,
         LeaveUnchanged, ThreadHolds
<1> QED
  BY <1>1, <1>2, <1>3 DEF QueuesInv

LEMMA StartInferenceKeeps ==
  ASSUME QueuesInv, NEW h \in Handlers, NEW source \in {"FIXED", "MODEL"}, StartInference(h, source)
  PROVE  QueuesInv'
<1>1. QueuesTypeOK'
  <2>1. reader[h].q \in Queues
    BY ReadersQueue DEF StartInference
  <2>2. bounds.decisions + 1 \in 0 .. MaxDecisions
    BY ThrottleQueuesAssumption DEF QueuesInv, QueuesTypeOK, StartInference
  <2>3. ctl' \in [Queues -> Controls]
    BY <2>1, <2>2 DEF QueuesInv, QueuesTypeOK, StartInference, Controls
  <2>4. bounds' \in [inits : 0 .. MaxInits, decisions : 0 .. MaxDecisions,
                   switches : 0 .. MaxSwitches]
    BY <2>2 DEF QueuesInv, QueuesTypeOK, StartInference
  <2>5. reader' \in [Handlers -> Readings] /\ grace' \in [Queues -> SUBSET Handlers]
    BY HandlerMoves, HandlerLeaves
       DEF QueuesInv, QueuesTypeOK, StartInference
  <2> QED
    BY <2>1, <2>2, <2>3, <2>4, <2>5, ThrottleQueuesAssumption
       DEF QueuesInv, QueuesTypeOK, Controls, Readings, Runners, Parts,
           InitSteps, ExitSteps, switch, StartInference
<1>2. ReadersHold'
  BY HandlerKeepsHold DEF StartInference
<1>3. DispatchHolds' /\ TimerHolds' /\ InferenceHolds' /\ TimeoutHolds' /\
       ThreadKeeps' /\ WalkHolds' /\ PartsInStep' /\ CompletionInStep'
  BY DEF QueuesInv, DispatchHolds, TimerHolds, InferenceHolds, TimeoutHolds,
         ThreadKeeps, WalkHolds, PartsInStep, CompletionInStep, switch,
         StartInference, ThreadHolds
<1> QED
  BY <1>1, <1>2, <1>3 DEF QueuesInv

LEMMA ArmTimerKeeps ==
  ASSUME QueuesInv, NEW h \in Handlers, ArmTimer(h)
  PROVE  QueuesInv'
<1>1. QueuesTypeOK'
  <2>1. timer' \in [Queues -> Timers]
    BY TimerArmed, ReadersQueue DEF QueuesInv, ArmTimer
  <2>2. reader' \in [Handlers -> Readings]
    BY HandlerMoves DEF QueuesInv, ArmTimer
  <2>3. UNCHANGED <<life, alloc, ctl, queued, timeout, idle, infer, slot, dispatch, grace,
                    throttle_enabled, admin, mutex, crossed, bounds>>
    BY DEF ArmTimer, switch
  <2> QED
    BY <2>1, <2>2, <2>3 DEF QueuesInv, QueuesTypeOK, Timers, Readings
<1>2. ReadersHold'
  BY ThrottleQueuesAssumption
     DEF QueuesInv, QueuesTypeOK, ReadersHold, MoveHandler, ArmTimer
<1>3. TimerHolds'
  BY ThrottleQueuesAssumption
     DEF QueuesInv, ReadersHold, TimerHolds, Arm, ArmTimer
<1>4. DispatchHolds' /\ InferenceHolds' /\ TimeoutHolds' /\ ThreadKeeps' /\ WalkHolds'
       /\ PartsInStep' /\ CompletionInStep'
  BY DEF QueuesInv, DispatchHolds, InferenceHolds, TimeoutHolds, ThreadKeeps,
         WalkHolds, PartsInStep, CompletionInStep, switch, ArmTimer, ThreadHolds
<1> QED
  BY <1>1, <1>2, <1>3, <1>4 DEF QueuesInv

LEMMA QueueInferenceKeeps ==
  ASSUME QueuesInv, NEW h \in Handlers, QueueInference(h)
  PROVE  QueuesInv'
<1>1. reader[h].q \in Queues
  BY ReadersQueue DEF QueueInference
<1>2. QueuesTypeOK'
  <2>1. queued' \in [Queues -> SUBSET {"inference", "timeout"}]
    <3>1. queued \in [Queues -> SUBSET {"inference", "timeout"}]
      BY DEF QueuesInv, QueuesTypeOK
    <3>2. PICK q \in Queues : q = reader[h].q
      BY <1>1
    <3>3. PICK more \in SUBSET {"inference", "timeout"} : more = queued[q] \cup {"inference"}
      BY <3>1, <3>2
    <3>4. queued' = queued \/ queued' = [queued EXCEPT ![q] = more]
      BY <3>2, <3>3 DEF QueueInference
    <3>5. CASE queued' = queued
      BY <3>1, <3>5
    <3>6. CASE queued' = [queued EXCEPT ![q] = more]
      BY <3>1, <3>6
    <3> QED BY <3>4, <3>5, <3>6
  <2>2. reader' \in [Handlers -> Readings] /\ grace' \in [Queues -> SUBSET Handlers]
    BY HandlerMoves, HandlerLeaves
       DEF QueuesInv, QueuesTypeOK, QueueInference
  <2> QED
    BY <2>1, <2>2, ThrottleQueuesAssumption
       DEF QueuesInv, QueuesTypeOK, Readings, Runners, Parts, InitSteps,
           ExitSteps, switch, QueueInference
<1>3. ReadersHold'
  BY HandlerKeepsHold DEF QueueInference
<1>4. InferenceHolds'
  <2>1. life' = life /\ life[reader[h].q] \in Listed
    BY <1>1 DEF QueuesInv, ReadersHold, QueueInference, Listed
  <2>2. /\ UNCHANGED <<infer>>
        /\ \/ UNCHANGED queued
           \/ queued' = [queued EXCEPT ![reader[h].q] = @ \cup {"inference"}]
    BY DEF QueueInference
  <2> QED
    BY <1>1, <2>1, <2>2 DEF QueuesInv, QueuesTypeOK, InferenceHolds
<1>5. TimeoutHolds'
  <2>1. life' = life /\ life[reader[h].q] \in Listed
    BY <1>1 DEF QueuesInv, ReadersHold, QueueInference, Listed
  <2>2. timeout' = timeout /\ TimeoutHolds
    BY DEF QueueInference, QueuesInv
  <2>3. \A q \in Queues : "timeout" \in queued'[q] => "timeout" \in queued[q]
    <3>1. queued \in [Queues -> SUBSET {"inference", "timeout"}]
      BY DEF QueuesInv, QueuesTypeOK
    <3>2. \/ queued' = queued
          \/ queued' = [queued EXCEPT ![reader[h].q] = @ \cup {"inference"}]
      BY DEF QueueInference
    <3> QED BY <3>1, <3>2
  <2> QED
    BY <2>1, <2>2, <2>3 DEF TimeoutHolds
<1>6. DispatchHolds' /\ TimerHolds' /\ ThreadKeeps' /\ WalkHolds' /\ PartsInStep' /\
       CompletionInStep'
  BY DEF QueuesInv, DispatchHolds, TimerHolds, ThreadKeeps, WalkHolds,
         PartsInStep, CompletionInStep, switch, QueueInference, ThreadHolds
<1> QED
  BY <1>2, <1>3, <1>4, <1>5, <1>6 DEF QueuesInv

LEMMA QueueingFailedKeeps ==
  ASSUME QueuesInv, NEW h \in Handlers, QueueingFailed(h)
  PROVE  QueuesInv'
<1>1. reader[h].q \in Queues
  BY ReadersQueue DEF QueueingFailed
<1>2. QueuesTypeOK'
  <2>1. ctl' \in [Queues -> Controls]
    BY <1>1, FallenBack DEF QueuesInv, QueuesTypeOK, QueueingFailed, Controls
  <2>2. timer' \in [Queues -> Timers]
    BY <1>1, TimerDisarmed DEF QueuesInv, QueuesTypeOK, QueueingFailed, Timers
  <2>3. reader' \in [Handlers -> Readings] /\ grace' \in [Queues -> SUBSET Handlers]
    BY HandlerMoves, HandlerLeaves
       DEF QueuesInv, QueuesTypeOK, QueueingFailed
  <2> QED
    BY <2>1, <2>2, <2>3, ThrottleQueuesAssumption
       DEF QueuesInv, QueuesTypeOK, Controls, Timers, Readings, Runners, Parts,
           InitSteps, ExitSteps, switch, CallbackDone, QueueingFailed
<1>3. ReadersHold'
  BY HandlerKeepsHold DEF QueueingFailed
<1>4. TimerHolds'
  <2>1. UNCHANGED timer \/ Disarm(reader[h].q)
    BY DEF QueueingFailed
  <2>2. life' = life /\ life[reader[h].q] \in Listed
    BY <1>1 DEF QueuesInv, ReadersHold, QueueingFailed, Listed
  <2> QED
    BY <1>1, <2>1, <2>2 DEF QueuesInv, QueuesTypeOK, TimerHolds, Disarm
<1>5. DispatchHolds' /\ InferenceHolds' /\ TimeoutHolds' /\ ThreadKeeps' /\ WalkHolds'
       /\ PartsInStep' /\ CompletionInStep'
  BY DEF QueuesInv, DispatchHolds, InferenceHolds, TimeoutHolds, ThreadKeeps,
         WalkHolds, PartsInStep, CompletionInStep, switch, QueueingFailed,
         ThreadHolds
<1> QED
  BY <1>2, <1>3, <1>4, <1>5 DEF QueuesInv

-----------------------------------------------------------------------------
(* The dispatcher, the timer and timeout_work.                             *)

LEMMA DispatchModelKeeps ==
  ASSUME QueuesInv, NEW q \in Queues, DispatchModel(q)
  PROVE  QueuesInv'
<1>1. QueuesTypeOK'
  <2>1. ctl' \in [Queues -> Controls]
    BY FallenBack, ControlMarked DEF QueuesInv, DispatchModel
  <2>2. dispatch' \in [Queues -> BOOLEAN]
    <3>1. dispatch' = dispatch \/ dispatch' = [dispatch EXCEPT ![q] = TRUE]
      BY DEF DispatchModel
    <3> QED BY <3>1 DEF QueuesInv, QueuesTypeOK
  <2>3. slot' \in Queues \cup {None} /\ idle' \in [Queues -> Nat]
    BY DEF QueuesInv, QueuesTypeOK, DispatchModel
  <2>4. UNCHANGED <<life, alloc, timer, queued, timeout, infer, reader, grace,
                    throttle_enabled, admin, mutex, crossed, bounds>>
    BY DEF DispatchModel, switch
  <2> QED BY <2>1, <2>2, <2>3, <2>4 DEF QueuesInv, QueuesTypeOK, Controls
<1>2. DispatchHolds'
  <2>1. dispatch' = dispatch \/ dispatch' = [dispatch EXCEPT ![q] = TRUE]
    BY DEF DispatchModel
  <2>2. life' = life /\ life[q] = "live"
    BY DEF DispatchModel
  <2> QED
    BY <2>1, <2>2 DEF QueuesInv, QueuesTypeOK, DispatchHolds
<1>3. ThreadKeeps'
  BY ThrottleQueuesAssumption
     DEF QueuesInv, QueuesTypeOK, ThreadKeeps, DispatchModel, ThreadHolds
<1>4. CompletionInStep'
  BY ThrottleQueuesAssumption
     DEF QueuesInv, QueuesTypeOK, CompletionInStep, DispatchModel, ThreadHolds
<1>5. ReadersHold' /\ TimerHolds' /\ InferenceHolds' /\ TimeoutHolds' /\ WalkHolds' /\
       PartsInStep'
  BY DEF QueuesInv, ReadersHold, TimerHolds, InferenceHolds, TimeoutHolds,
         WalkHolds, PartsInStep, switch, DispatchModel
<1> QED
  BY <1>1, <1>2, <1>3, <1>4, <1>5 DEF QueuesInv

LEMMA ArmModelTimerKeeps ==
  ASSUME QueuesInv, NEW q \in Queues, ArmModelTimer(q)
  PROVE  QueuesInv'
<1>1. QueuesTypeOK'
  <2>1. timer' \in [Queues -> Timers]
    BY TimerArmed DEF QueuesInv, ArmModelTimer
  <2> QED
    BY <2>1, ThrottleQueuesAssumption
       DEF QueuesInv, QueuesTypeOK, Timers, Runners, Parts, InitSteps,
           ExitSteps, switch, ArmModelTimer
<1>2. DispatchHolds'
  BY ThrottleQueuesAssumption
     DEF QueuesInv, QueuesTypeOK, DispatchHolds, ArmModelTimer
<1>3. TimerHolds'
  BY ThrottleQueuesAssumption
     DEF QueuesInv, DispatchHolds, TimerHolds, Arm, ArmModelTimer
<1>4. ReadersHold' /\ InferenceHolds' /\ TimeoutHolds' /\ ThreadKeeps' /\ WalkHolds'
       /\ PartsInStep' /\ CompletionInStep'
  BY DEF QueuesInv, ReadersHold, InferenceHolds, TimeoutHolds, ThreadKeeps,
         WalkHolds, PartsInStep, CompletionInStep, switch, ArmModelTimer,
         ThreadHolds
<1> QED
  BY <1>1, <1>2, <1>3, <1>4 DEF QueuesInv

LEMMA TimerFiresKeeps ==
  ASSUME QueuesInv, NEW q \in Queues, TimerFires(q)
  PROVE  QueuesInv'
<1>1. QueuesTypeOK'
  <2>1. ctl' \in [Queues -> Controls]
    <3>1. UNCHANGED ctl \/ ctl' = [ctl EXCEPT ![q].timed_out = TRUE]
      BY DEF TimerFires
    <3> QED
      BY <3>1, ControlMarked DEF QueuesInv, QueuesTypeOK, Controls
  <2>2. timer' \in [Queues -> Timers]
    <3> DEFINE late == ctl[q].pending /\ ~Dying(q)
    <3> DEFINE t == [armed |-> FALSE, queueing |-> late]
    <3>1. t \in Timers
      <4>1. late \in BOOLEAN
        OBVIOUS
      <4> HIDE DEF late
      <4> QED BY <4>1 DEF Timers
    <3>2. timer' = [timer EXCEPT ![q] = t]
      BY DEF TimerFires
    <3> HIDE DEF t
    <3> QED BY <3>1, <3>2, TimerSet DEF QueuesInv
  <2>3. UNCHANGED <<life, alloc, queued, timeout, idle, others, switch, bounds>>
    BY DEF TimerFires
  <2> QED
    BY <2>1, <2>2, <2>3
       DEF QueuesInv, QueuesTypeOK, Controls, Timers, others, switch
<1>2. TimerHolds'
  BY ThrottleQueuesAssumption
     DEF QueuesInv, QueuesTypeOK, TimerHolds, TimerFires
<1>3. ReadersHold' /\ DispatchHolds' /\ InferenceHolds' /\ TimeoutHolds' /\
       ThreadKeeps' /\ WalkHolds' /\ PartsInStep' /\ CompletionInStep'
  BY DEF QueuesInv, ReadersHold, DispatchHolds, InferenceHolds, TimeoutHolds,
         ThreadKeeps, WalkHolds, PartsInStep, CompletionInStep, others, switch,
         TimerFires, ThreadHolds
<1> QED
  BY <1>1, <1>2, <1>3 DEF QueuesInv

LEMMA QueueTimeoutKeeps ==
  ASSUME QueuesInv, NEW q \in Queues, QueueTimeout(q)
  PROVE  QueuesInv'
<1>1. QueuesTypeOK'
  <2>1. timer' \in [Queues -> Timers]
    <3> DEFINE t == [timer[q] EXCEPT !.queueing = FALSE]
    <3>1. timer[q] \in Timers
      BY DEF QueuesInv, QueuesTypeOK, Timers
    <3>2. t \in Timers
      BY <3>1 DEF Timers
    <3>3. timer' = [timer EXCEPT ![q] = t]
      BY DEF QueueTimeout
    <3> HIDE DEF t
    <3> QED BY <3>2, <3>3, TimerSet DEF QueuesInv
  <2>2. queued' \in [Queues -> SUBSET {"inference", "timeout"}]
    BY DEF QueuesInv, QueuesTypeOK, QueueTimeout
  <2> QED
    BY <2>1, <2>2, ThrottleQueuesAssumption
       DEF QueuesInv, QueuesTypeOK, Timers, Runners, Parts, InitSteps,
           ExitSteps, others, switch, QueueTimeout
<1>2. TimerHolds'
  BY ThrottleQueuesAssumption
     DEF QueuesInv, QueuesTypeOK, TimerHolds, QueueTimeout
<1>3. InferenceHolds'
  BY ThrottleQueuesAssumption
     DEF QueuesInv, QueuesTypeOK, InferenceHolds, others, QueueTimeout
<1>4. TimeoutHolds'
  BY ThrottleQueuesAssumption
     DEF QueuesInv, TimerHolds, TimeoutHolds, QueueTimeout
<1>5. ReadersHold' /\ DispatchHolds' /\ ThreadKeeps' /\ WalkHolds' /\ PartsInStep' /\
       CompletionInStep'
  BY DEF QueuesInv, ReadersHold, DispatchHolds, ThreadKeeps, WalkHolds,
         PartsInStep, CompletionInStep, others, switch, QueueTimeout,
         ThreadHolds
<1> QED
  BY <1>1, <1>2, <1>3, <1>4, <1>5 DEF QueuesInv

LEMMA TimeoutStartsKeeps ==
  ASSUME QueuesInv, NEW q \in Queues, TimeoutStarts(q)
  PROVE  QueuesInv'
<1>1. QueuesTypeOK'
  BY ThrottleQueuesAssumption
     DEF QueuesInv, QueuesTypeOK, Runners, Parts, InitSteps, ExitSteps, others,
         switch, TimeoutStarts
<1>2. InferenceHolds'
  BY ThrottleQueuesAssumption
     DEF QueuesInv, QueuesTypeOK, InferenceHolds, others, TimeoutStarts
<1>3. TimeoutHolds'
  BY ThrottleQueuesAssumption
     DEF QueuesInv, QueuesTypeOK, TimeoutHolds, TimeoutStarts
<1>4. ReadersHold' /\ DispatchHolds' /\ TimerHolds' /\ ThreadKeeps' /\ WalkHolds' /\
       PartsInStep' /\ CompletionInStep'
  BY DEF QueuesInv, ReadersHold, DispatchHolds, TimerHolds, ThreadKeeps,
         WalkHolds, PartsInStep, CompletionInStep, others, switch,
         TimeoutStarts, ThreadHolds
<1> QED
  BY <1>1, <1>2, <1>3, <1>4 DEF QueuesInv

LEMMA TimeoutWorkKeeps ==
  ASSUME QueuesInv, NEW q \in Queues, TimeoutWork(q)
  PROVE  QueuesInv'
<1>1. QueuesTypeOK'
  <2>1. ctl' \in [Queues -> Controls]
    BY FallenBack DEF QueuesInv, QueuesTypeOK, TimeoutWork, Controls
  <2> QED
    BY <2>1, ThrottleQueuesAssumption
       DEF QueuesInv, QueuesTypeOK, Controls, Runners, Parts, InitSteps,
           ExitSteps, others, switch, TimeoutWork
<1>2. TimeoutHolds'
  BY ThrottleQueuesAssumption
     DEF QueuesInv, QueuesTypeOK, TimeoutHolds, TimeoutWork
<1>3. ReadersHold' /\ DispatchHolds' /\ TimerHolds' /\ InferenceHolds' /\ ThreadKeeps'
       /\ WalkHolds' /\ PartsInStep' /\ CompletionInStep'
  BY DEF QueuesInv, ReadersHold, DispatchHolds, TimerHolds, InferenceHolds,
         ThreadKeeps, WalkHolds, PartsInStep, CompletionInStep, others, switch,
         TimeoutWork, ThreadHolds
<1> QED
  BY <1>1, <1>2, <1>3 DEF QueuesInv

-----------------------------------------------------------------------------
(* inference_work and the model thread.                                    *)

LEMMA WorkStartsKeeps ==
  ASSUME QueuesInv, NEW q \in Queues, WorkStarts(q)
  PROVE  QueuesInv'
<1>1. QueuesTypeOK'
  BY ThrottleQueuesAssumption
     DEF QueuesInv, QueuesTypeOK, Runners, Parts, InitSteps, ExitSteps, switch,
         WorkStarts
<1>2. InferenceHolds'
  BY ThrottleQueuesAssumption
     DEF QueuesInv, QueuesTypeOK, InferenceHolds, WorkStarts
<1>3. TimeoutHolds'
  BY ThrottleQueuesAssumption
     DEF QueuesInv, QueuesTypeOK, TimeoutHolds, WorkStarts
<1>4. ThreadKeeps'
  BY ThrottleQueuesAssumption
     DEF QueuesInv, QueuesTypeOK, ThreadKeeps, WorkStarts, ThreadHolds
<1>5. CompletionInStep'
  BY ThrottleQueuesAssumption
     DEF QueuesInv, QueuesTypeOK, CompletionInStep, WorkStarts, ThreadHolds
<1>6. ReadersHold' /\ DispatchHolds' /\ TimerHolds' /\ WalkHolds' /\ PartsInStep'
  BY DEF QueuesInv, ReadersHold, DispatchHolds, TimerHolds, WalkHolds,
         PartsInStep, switch, WorkStarts
<1> QED
  BY <1>1, <1>2, <1>3, <1>4, <1>5, <1>6 DEF QueuesInv

LEMMA ReadDecisionKeeps ==
  ASSUME QueuesInv, NEW w \in Runners, ReadDecision(w)
  PROVE  QueuesInv'
<1>1. infer[w].pc # "idle" /\ infer[w].q \in Queues
  BY RunnersQueue DEF ReadDecision
<1>2. QueuesTypeOK'
  <2>1. ctl' \in [Queues -> Controls]
    BY <1>1, Stopped DEF QueuesInv, QueuesTypeOK, ReadDecision, Controls
  <2>2. infer' \in [Runners -> Inferences]
    <3>1. CASE Finish(w)
      BY <3>1, RunnerFinishes DEF QueuesInv
    <3>2. CASE ~Finish(w)
      <4> DEFINE d == ctl[infer[w].q].decision
      <4> DEFINE i == [[infer[w] EXCEPT !.pc = "apply"] EXCEPT !.decision = d]
      <4>1. infer[w] \in Inferences /\ d \in 0 .. MaxDecisions
        BY <1>1 DEF QueuesInv, QueuesTypeOK, Inferences
      <4>2. i \in Inferences
        BY <4>1 DEF Inferences
      <4>3. infer' = [infer EXCEPT ![w] = i]
        BY <3>2 DEF QueuesInv, QueuesTypeOK, ReadDecision
      <4> HIDE DEF i
      <4> QED BY <4>2, <4>3, RunnerSet DEF QueuesInv
    <3> QED BY <3>1, <3>2
  <2> QED
    BY <2>1, <2>2, ThrottleQueuesAssumption
       DEF QueuesInv, QueuesTypeOK, Controls, Inferences, Runners, Parts,
           InitSteps, ExitSteps, switch, ReadDecision
<1>3. InferenceHolds'
  <2>1. CASE Finish(w)
    BY <1>1, <2>1, RunnerKeepsHold DEF ReadDecision
  <2>2. CASE ~Finish(w)
    <3>1. /\ infer'[w].pc = "apply" /\ infer'[w].q = infer[w].q
          /\ \A x \in Runners : x # w => infer'[x] = infer[x]
      BY <2>2 DEF QueuesInv, QueuesTypeOK, ReadDecision
    <3>2. UNCHANGED <<life, queued>>
      BY DEF ReadDecision
    <3> QED
      BY <1>1, <3>1, <3>2, ThrottleQueuesAssumption
         DEF QueuesInv, InferenceHolds, Runners
  <2> QED BY <2>1, <2>2
<1>4. ThreadKeeps'
  BY ThrottleQueuesAssumption
     DEF QueuesInv, QueuesTypeOK, ThreadKeeps, Runners, Goto, Finish,
         ReadDecision, ThreadHolds
<1>5. CompletionInStep'
  BY ThrottleQueuesAssumption
     DEF QueuesInv, QueuesTypeOK, CompletionInStep, Runners, Goto, Finish,
         ReadDecision, ThreadHolds
<1>6. ReadersHold' /\ DispatchHolds' /\ TimerHolds' /\ TimeoutHolds' /\ WalkHolds' /\
       PartsInStep'
  BY DEF QueuesInv, ReadersHold, DispatchHolds, TimerHolds, TimeoutHolds,
         WalkHolds, PartsInStep, switch, ReadDecision
<1> QED
  BY <1>2, <1>3, <1>4, <1>5, <1>6 DEF QueuesInv

LEMMA ApplyDecisionKeeps ==
  ASSUME QueuesInv, NEW w \in Runners, ApplyDecision(w)
  PROVE  QueuesInv'
<1>1. infer[w].pc # "idle" /\ infer[w].q \in Queues
  BY RunnersQueue DEF ApplyDecision
<1>2. QueuesTypeOK'
  <2>1. ctl' \in [Queues -> Controls]
    BY <1>1, FallenBack, Stopped, ControlMarked
       DEF QueuesInv, QueuesTypeOK, ApplyDecision, Controls
  <2>2. infer' \in [Runners -> Inferences]
    BY RunnerMoves, RunnerFinishes DEF QueuesInv, ApplyDecision
  <2> QED
    BY <2>1, <2>2, ThrottleQueuesAssumption
       DEF QueuesInv, QueuesTypeOK, Controls, Inferences, Runners, Parts,
           InitSteps, ExitSteps, switch, ApplyDecision
<1>3. InferenceHolds'
  <2>1. Goto(w, "cancel") \/ Finish(w)
    BY DEF ApplyDecision
  <2> QED BY <1>1, <2>1, RunnerKeepsHold DEF ApplyDecision
<1>4. ThreadKeeps'
  BY ThrottleQueuesAssumption
     DEF QueuesInv, QueuesTypeOK, ThreadKeeps, Runners, Goto, Finish,
         ApplyDecision, ThreadHolds
<1>5. CompletionInStep'
  BY ThrottleQueuesAssumption
     DEF QueuesInv, QueuesTypeOK, CompletionInStep, Runners, Goto, Finish,
         ApplyDecision, ThreadHolds
<1>6. ReadersHold' /\ DispatchHolds' /\ TimerHolds' /\ TimeoutHolds' /\ WalkHolds' /\
       PartsInStep'
  BY DEF QueuesInv, ReadersHold, DispatchHolds, TimerHolds, TimeoutHolds,
         WalkHolds, PartsInStep, switch, ApplyDecision
<1> QED
  BY <1>2, <1>3, <1>4, <1>5, <1>6 DEF QueuesInv

LEMMA CancelTimerKeeps ==
  ASSUME QueuesInv, NEW w \in Runners, CancelTimer(w)
  PROVE  QueuesInv'
<1>1. infer[w].pc # "idle" /\ infer[w].q \in Queues
  BY RunnersQueue DEF CancelTimer
<1>2. QueuesTypeOK'
  <2>1. timer' \in [Queues -> Timers]
    BY <1>1, TimerDisarmed DEF QueuesInv, CancelTimer
  <2>2. infer' \in [Runners -> Inferences]
    BY RunnerFinishes DEF QueuesInv, CancelTimer
  <2> QED
    BY <2>1, <2>2, ThrottleQueuesAssumption
       DEF QueuesInv, QueuesTypeOK, Timers, Inferences, Runners, Parts,
           InitSteps, ExitSteps, switch, CallbackDone, CancelTimer
<1>3. TimerHolds'
  BY ThrottleQueuesAssumption
     DEF QueuesInv, QueuesTypeOK, TimerHolds, Disarm, CancelTimer
<1>4. InferenceHolds'
  BY <1>1, RunnerKeepsHold DEF CancelTimer
<1>5. ThreadKeeps'
  BY ThrottleQueuesAssumption
     DEF QueuesInv, QueuesTypeOK, ThreadKeeps, Runners, Goto, Finish,
         CancelTimer, ThreadHolds
<1>6. CompletionInStep'
  <2>1. UNCHANGED <<life, idle, slot>> /\ Finish(w) /\ infer[w].pc = "cancel"
    BY DEF CancelTimer
  <2>2. QueuesTypeOK /\ CompletionInStep
    BY DEF QueuesInv
  <2>3. Thread \in Runners
    BY DEF Runners
  <2>4. /\ w = Thread => infer'[Thread].pc = "complete" /\ infer'[Thread].q = infer[Thread].q
        /\ w # Thread => infer'[Thread] = infer[Thread]
    BY <2>1, <2>2, <2>3, RunnerFinishes
  <2>5. \A q \in Queues : ThreadHolds(q)' <=> ThreadHolds(q)
    BY <2>1, <2>4 DEF ThreadHolds
  <2> QED BY <2>1, <2>2, <2>5 DEF CompletionInStep
<1>7. ReadersHold' /\ DispatchHolds' /\ TimeoutHolds' /\ WalkHolds' /\ PartsInStep'
  BY DEF QueuesInv, ReadersHold, DispatchHolds, TimeoutHolds, WalkHolds,
         PartsInStep, switch, CancelTimer
<1> QED
  BY <1>2, <1>3, <1>4, <1>5, <1>6, <1>7 DEF QueuesInv

LEMMA ThreadPicksUpKeeps ==
  ASSUME QueuesInv, ThreadPicksUp
  PROVE  QueuesInv'
<1>1. QueuesTypeOK'
  BY ThrottleQueuesAssumption
     DEF QueuesInv, QueuesTypeOK, Runners, Parts, InitSteps, ExitSteps, context,
         switch, ThreadPicksUp
<1>2. InferenceHolds'
  BY ThrottleQueuesAssumption
     DEF QueuesInv, QueuesTypeOK, InferenceHolds, context, ThreadPicksUp
<1>3. ThreadKeeps'
  BY ThrottleQueuesAssumption
     DEF QueuesInv, QueuesTypeOK, ThreadKeeps, context, ThreadPicksUp,
         ThreadHolds
<1>4. CompletionInStep'
  BY ThrottleQueuesAssumption
     DEF QueuesInv, QueuesTypeOK, ThreadKeeps, CompletionInStep, Runners,
         context, ThreadPicksUp, ThreadHolds
<1>5. ReadersHold' /\ DispatchHolds' /\ TimerHolds' /\ TimeoutHolds' /\ WalkHolds' /\
       PartsInStep'
  BY DEF QueuesInv, ReadersHold, DispatchHolds, TimerHolds, TimeoutHolds,
         WalkHolds, PartsInStep, context, switch, ThreadPicksUp
<1> QED
  BY <1>1, <1>2, <1>3, <1>4, <1>5 DEF QueuesInv

LEMMA ThreadSnapshotsKeeps ==
  ASSUME QueuesInv, ThreadSnapshots
  PROVE  QueuesInv'
<1>1. infer[Thread].pc # "idle" /\ infer[Thread].q \in Queues
  BY RunnersQueue DEF ThreadSnapshots, Runners
<1>2. \E pc \in {"read", "cancel", "complete"} : Goto(Thread, pc)
  BY DEF ThreadSnapshots
<1>3. QueuesTypeOK'
  <2>1. ctl' \in [Queues -> Controls]
    BY <1>1, FallenBack, Stopped, ControlMarked DEF QueuesInv, ThreadSnapshots
  <2>2. infer' \in [Runners -> Inferences]
    BY <1>2, RunnerMoves DEF QueuesInv, Runners
  <2> QED
    BY <2>1, <2>2, ThrottleQueuesAssumption
       DEF QueuesInv, QueuesTypeOK, Controls, Inferences, Runners, Parts,
           InitSteps, ExitSteps, switch, ThreadSnapshots
<1>4. InferenceHolds'
  BY <1>1, <1>2, RunnerKeepsHold DEF ThreadSnapshots, Runners
<1>5. ThreadKeeps'
  BY ThrottleQueuesAssumption
     DEF QueuesInv, QueuesTypeOK, ThreadKeeps, Runners, Goto, ThreadSnapshots,
         ThreadHolds
<1>6. CompletionInStep'
  BY ThrottleQueuesAssumption
     DEF QueuesInv, QueuesTypeOK, CompletionInStep, Runners, Goto,
         ThreadSnapshots, ThreadHolds
<1>7. ReadersHold' /\ DispatchHolds' /\ TimerHolds' /\ TimeoutHolds' /\ WalkHolds' /\
       PartsInStep'
  BY DEF QueuesInv, ReadersHold, DispatchHolds, TimerHolds, TimeoutHolds,
         WalkHolds, PartsInStep, switch, ThreadSnapshots
<1> QED
  BY <1>3, <1>4, <1>5, <1>6, <1>7 DEF QueuesInv

LEMMA ThreadCompletesKeeps ==
  ASSUME QueuesInv, ThreadCompletes
  PROVE  QueuesInv'
<1>1. infer[Thread].q \in Queues
  BY RunnersQueue DEF ThreadCompletes, Runners
<1>2. QueuesTypeOK'
  <2>1. infer' \in [Runners -> Inferences]
    BY RunnerMoves DEF QueuesInv, ThreadCompletes, Runners
  <2>2. idle' \in [Queues -> Nat]
    BY <1>1 DEF QueuesInv, QueuesTypeOK, ThreadCompletes
  <2> QED
    BY <2>1, <2>2, ThrottleQueuesAssumption
       DEF QueuesInv, QueuesTypeOK, Inferences, Runners, Parts, InitSteps,
           ExitSteps, switch, ThreadCompletes
<1>3. InferenceHolds'
  BY ThrottleQueuesAssumption
     DEF QueuesInv, QueuesTypeOK, InferenceHolds, Goto, ThreadCompletes
<1>4. ThreadKeeps'
  BY ThrottleQueuesAssumption
     DEF QueuesInv, QueuesTypeOK, ThreadKeeps, Goto, ThreadCompletes,
         ThreadHolds
<1>5. CompletionInStep'
  BY ThrottleQueuesAssumption
     DEF QueuesInv, QueuesTypeOK, ThreadKeeps, CompletionInStep, Runners,
         Goto, ThreadCompletes, ThreadHolds
<1>6. ReadersHold' /\ DispatchHolds' /\ TimerHolds' /\ TimeoutHolds' /\ WalkHolds' /\
       PartsInStep'
  BY DEF QueuesInv, ReadersHold, DispatchHolds, TimerHolds, TimeoutHolds,
         WalkHolds, PartsInStep, switch, ThreadCompletes
<1> QED
  BY <1>2, <1>3, <1>4, <1>5, <1>6 DEF QueuesInv

LEMMA ThreadClearsKeeps ==
  ASSUME QueuesInv, ThreadClears
  PROVE  QueuesInv'
<1>1. QueuesTypeOK'
  BY ThrottleQueuesAssumption
     DEF QueuesInv, QueuesTypeOK, Runners, Parts, InitSteps, ExitSteps, context,
         switch, Asleep, ThreadClears
<1>2. InferenceHolds'
  BY ThrottleQueuesAssumption
     DEF QueuesInv, QueuesTypeOK, InferenceHolds, context, Asleep, ThreadClears
<1>3. ThreadKeeps'
  BY ThrottleQueuesAssumption
     DEF QueuesInv, QueuesTypeOK, ThreadKeeps, context, Asleep, ThreadClears,
         ThreadHolds
<1>4. CompletionInStep'
  BY ThrottleQueuesAssumption
     DEF QueuesInv, QueuesTypeOK, CompletionInStep, context, Asleep,
         ThreadClears, ThreadHolds
<1>5. ReadersHold' /\ DispatchHolds' /\ TimerHolds' /\ TimeoutHolds' /\ WalkHolds' /\
       PartsInStep'
  BY DEF QueuesInv, ReadersHold, DispatchHolds, TimerHolds, TimeoutHolds,
         WalkHolds, PartsInStep, context, switch, ThreadClears
<1> QED
  BY <1>1, <1>2, <1>3, <1>4, <1>5 DEF QueuesInv

-----------------------------------------------------------------------------
(* queue_exit.                                                             *)

LEMMA StartExitKeeps ==
  ASSUME QueuesInv, NEW q \in Queues, StartExit(q)
  PROVE  QueuesInv'
<1>1. QueuesTypeOK'
  BY ThrottleQueuesAssumption
     DEF QueuesInv, QueuesTypeOK, Runners, Parts, InitSteps, ExitSteps, switch,
         Live, Readers, StartExit
<1>2. ReadersHold'
  BY ThrottleQueuesAssumption
     DEF QueuesInv, QueuesTypeOK, ReadersHold, Live, Readers, StartExit
<1>3. DispatchHolds'
  BY ThrottleQueuesAssumption
     DEF QueuesInv, QueuesTypeOK, DispatchHolds, Live, Readers, StartExit
<1>4. TimerHolds'
  BY ThrottleQueuesAssumption
     DEF QueuesInv, QueuesTypeOK, TimerHolds, Live, Readers, StartExit
<1>5. InferenceHolds'
  BY ThrottleQueuesAssumption
     DEF QueuesInv, QueuesTypeOK, InferenceHolds, Live, Readers, StartExit
<1>6. TimeoutHolds'
  BY ThrottleQueuesAssumption
     DEF QueuesInv, QueuesTypeOK, TimeoutHolds, Live, Readers, StartExit
<1>7. ThreadKeeps'
  BY ThrottleQueuesAssumption
     DEF QueuesInv, QueuesTypeOK, ThreadKeeps, Live, Readers, StartExit,
         ThreadHolds
<1>8. WalkHolds'
  BY ThrottleQueuesAssumption
     DEF QueuesInv, QueuesTypeOK, WalkHolds, switch, Live, Readers, StartExit
<1>9. PartsInStep'
  BY ThrottleQueuesAssumption
     DEF QueuesInv, QueuesTypeOK, PartsInStep, Parts, Live, Readers, StartExit
<1>10. CompletionInStep'
  BY ThrottleQueuesAssumption
     DEF QueuesInv, QueuesTypeOK, CompletionInStep, Live, Readers, StartExit,
         ThreadHolds
<1> QED
  BY <1>1, <1>2, <1>3, <1>4, <1>5, <1>6, <1>7, <1>8, <1>9, <1>10 DEF QueuesInv

LEMMA SynchronizeKeeps ==
  ASSUME QueuesInv, NEW q \in Queues, Synchronize(q)
  PROVE  QueuesInv'
<1>1. QueuesTypeOK'
  BY ThrottleQueuesAssumption
     DEF QueuesInv, QueuesTypeOK, Runners, Parts, InitSteps, ExitSteps, others,
         switch, Live, Synchronize
<1>2. ReadersHold'
  BY ThrottleQueuesAssumption
     DEF QueuesInv, QueuesTypeOK, ReadersHold, others, Live, Synchronize
<1>3. DispatchHolds'
  BY ThrottleQueuesAssumption
     DEF QueuesInv, QueuesTypeOK, DispatchHolds, others, Live, Synchronize
<1>4. TimerHolds'
  BY ThrottleQueuesAssumption
     DEF QueuesInv, QueuesTypeOK, TimerHolds, Live, Synchronize
<1>5. InferenceHolds'
  BY ThrottleQueuesAssumption
     DEF QueuesInv, QueuesTypeOK, InferenceHolds, others, Live, Synchronize
<1>6. TimeoutHolds'
  BY ThrottleQueuesAssumption
     DEF QueuesInv, QueuesTypeOK, TimeoutHolds, Live, Synchronize
<1>7. ThreadKeeps'
  BY ThrottleQueuesAssumption
     DEF QueuesInv, QueuesTypeOK, ThreadKeeps, others, Live, Synchronize,
         ThreadHolds
<1>8. WalkHolds'
  BY ThrottleQueuesAssumption
     DEF QueuesInv, QueuesTypeOK, WalkHolds, switch, Live, Synchronize
<1>9. PartsInStep'
  BY ThrottleQueuesAssumption
     DEF QueuesInv, QueuesTypeOK, PartsInStep, Parts, Live, Synchronize
<1>10. CompletionInStep'
  BY ThrottleQueuesAssumption
     DEF QueuesInv, QueuesTypeOK, CompletionInStep, others, Live, Synchronize,
         ThreadHolds
<1> QED
  BY <1>1, <1>2, <1>3, <1>4, <1>5, <1>6, <1>7, <1>8, <1>9, <1>10 DEF QueuesInv

LEMMA ExitCancelsTimerKeeps ==
  ASSUME QueuesInv, NEW q \in Queues, ExitCancelsTimer(q)
  PROVE  QueuesInv'
<1>1. QueuesTypeOK'
  <2>1. timer' \in [Queues -> Timers]
    BY TimerDisarmed DEF QueuesInv, ExitCancelsTimer
  <2> QED
    BY <2>1, ThrottleQueuesAssumption
       DEF QueuesInv, QueuesTypeOK, Timers, Runners, Parts, InitSteps,
           ExitSteps, others, switch, Live, CallbackDone, ExitCancelsTimer
<1>2. ReadersHold'
  BY ThrottleQueuesAssumption
     DEF QueuesInv, QueuesTypeOK, ReadersHold, others, Live, ExitCancelsTimer
<1>3. DispatchHolds'
  BY ThrottleQueuesAssumption
     DEF QueuesInv, QueuesTypeOK, DispatchHolds, others, Live, ExitCancelsTimer
<1>4. TimerHolds'
  BY ThrottleQueuesAssumption
     DEF QueuesInv, QueuesTypeOK, TimerHolds, others, switch, Live, Disarm,
         CallbackDone, ExitCancelsTimer
<1>5. InferenceHolds'
  BY ThrottleQueuesAssumption
     DEF QueuesInv, QueuesTypeOK, InferenceHolds, others, Live, ExitCancelsTimer
<1>6. TimeoutHolds'
  BY ThrottleQueuesAssumption
     DEF QueuesInv, QueuesTypeOK, TimeoutHolds, Live, ExitCancelsTimer
<1>7. ThreadKeeps'
  BY ThrottleQueuesAssumption
     DEF QueuesInv, QueuesTypeOK, ThreadKeeps, others, Live, ExitCancelsTimer,
         ThreadHolds
<1>8. WalkHolds'
  BY ThrottleQueuesAssumption
     DEF QueuesInv, QueuesTypeOK, WalkHolds, switch, Live, ExitCancelsTimer
<1>9. PartsInStep'
  BY ThrottleQueuesAssumption
     DEF QueuesInv, QueuesTypeOK, PartsInStep, Parts, Live, ExitCancelsTimer
<1>10. CompletionInStep'
  BY ThrottleQueuesAssumption
     DEF QueuesInv, QueuesTypeOK, CompletionInStep, others, Live,
         ExitCancelsTimer, ThreadHolds
<1> QED
  BY <1>1, <1>2, <1>3, <1>4, <1>5, <1>6, <1>7, <1>8, <1>9, <1>10 DEF QueuesInv

LEMMA ExitCancelsThreadKeeps ==
  ASSUME QueuesInv, NEW q \in Queues, ExitCancelsThread(q)
  PROVE  QueuesInv'
<1>1. QueuesTypeOK'
  BY ThrottleQueuesAssumption
     DEF QueuesInv, QueuesTypeOK, Runners, Parts, InitSteps, ExitSteps, switch,
         Live, Cancelled, ExitCancelsThread
<1>2. ReadersHold'
  BY ThrottleQueuesAssumption
     DEF QueuesInv, QueuesTypeOK, ReadersHold, Live, Cancelled,
         ExitCancelsThread
<1>3. DispatchHolds'
  BY ThrottleQueuesAssumption
     DEF QueuesInv, QueuesTypeOK, DispatchHolds, Live, Cancelled,
         ExitCancelsThread
<1>4. TimerHolds'
  BY ThrottleQueuesAssumption
     DEF QueuesInv, QueuesTypeOK, TimerHolds, Live, Cancelled, ExitCancelsThread
<1>5. InferenceHolds'
  BY ThrottleQueuesAssumption
     DEF QueuesInv, QueuesTypeOK, InferenceHolds, Live, Cancelled,
         ExitCancelsThread
<1>6. TimeoutHolds'
  BY ThrottleQueuesAssumption
     DEF QueuesInv, QueuesTypeOK, TimeoutHolds, Live, Cancelled,
         ExitCancelsThread
<1>7. ThreadKeeps'
  BY ThrottleQueuesAssumption
     DEF QueuesInv, QueuesTypeOK, ThreadKeeps, Live, Cancelled,
         ExitCancelsThread, ThreadHolds
<1>8. WalkHolds'
  BY ThrottleQueuesAssumption
     DEF QueuesInv, QueuesTypeOK, WalkHolds, switch, Live, Cancelled,
         ExitCancelsThread
<1>9. PartsInStep'
  BY ThrottleQueuesAssumption
     DEF QueuesInv, QueuesTypeOK, PartsInStep, Parts, Live, Cancelled,
         ExitCancelsThread
<1>10. CompletionInStep'
  BY ThrottleQueuesAssumption
     DEF QueuesInv, QueuesTypeOK, ThreadKeeps, CompletionInStep, Live,
         Cancelled, ExitCancelsThread, ThreadHolds
<1> QED
  BY <1>1, <1>2, <1>3, <1>4, <1>5, <1>6, <1>7, <1>8, <1>9, <1>10 DEF QueuesInv

LEMMA ExitWaitsForThreadKeeps ==
  ASSUME QueuesInv, NEW q \in Queues, ExitWaitsForThread(q)
  PROVE  QueuesInv'
<1>1. QueuesTypeOK'
  BY ThrottleQueuesAssumption
     DEF QueuesInv, QueuesTypeOK, Runners, Parts, InitSteps, ExitSteps, others,
         switch, Live, ExitWaitsForThread
<1>2. ReadersHold'
  BY ThrottleQueuesAssumption
     DEF QueuesInv, QueuesTypeOK, ReadersHold, others, Live, ExitWaitsForThread
<1>3. DispatchHolds'
  BY ThrottleQueuesAssumption
     DEF QueuesInv, QueuesTypeOK, DispatchHolds, others, Live,
         ExitWaitsForThread
<1>4. TimerHolds'
  BY ThrottleQueuesAssumption
     DEF QueuesInv, QueuesTypeOK, TimerHolds, Live, ExitWaitsForThread
<1>5. InferenceHolds'
  BY ThrottleQueuesAssumption
     DEF QueuesInv, QueuesTypeOK, InferenceHolds, others, Live,
         ExitWaitsForThread
<1>6. TimeoutHolds'
  BY ThrottleQueuesAssumption
     DEF QueuesInv, QueuesTypeOK, TimeoutHolds, Live, ExitWaitsForThread
<1>7. ThreadKeeps'
  BY ThrottleQueuesAssumption
     DEF QueuesInv, ThreadKeeps, CompletionInStep, others, Live,
         ExitWaitsForThread, ThreadHolds
<1>8. WalkHolds'
  BY ThrottleQueuesAssumption
     DEF QueuesInv, QueuesTypeOK, WalkHolds, switch, Live, ExitWaitsForThread
<1>9. PartsInStep'
  BY ThrottleQueuesAssumption
     DEF QueuesInv, QueuesTypeOK, PartsInStep, Parts, Live, ExitWaitsForThread
<1>10. CompletionInStep'
  BY ThrottleQueuesAssumption
     DEF QueuesInv, QueuesTypeOK, CompletionInStep, others, Live,
         ExitWaitsForThread, ThreadHolds
<1> QED
  BY <1>1, <1>2, <1>3, <1>4, <1>5, <1>6, <1>7, <1>8, <1>9, <1>10 DEF QueuesInv

LEMMA ExitCancelsInferenceKeeps ==
  ASSUME QueuesInv, NEW q \in Queues, ExitCancelsInference(q)
  PROVE  QueuesInv'
<1>1. QueuesTypeOK'
  BY ThrottleQueuesAssumption
     DEF QueuesInv, QueuesTypeOK, Runners, Parts, InitSteps, ExitSteps, others,
         switch, Live, ExitCancelsInference
<1>2. ReadersHold'
  BY ThrottleQueuesAssumption
     DEF QueuesInv, QueuesTypeOK, ReadersHold, others, Live,
         ExitCancelsInference
<1>3. DispatchHolds'
  BY ThrottleQueuesAssumption
     DEF QueuesInv, QueuesTypeOK, DispatchHolds, others, Live,
         ExitCancelsInference
<1>4. TimerHolds'
  BY ThrottleQueuesAssumption
     DEF QueuesInv, QueuesTypeOK, TimerHolds, Live, ExitCancelsInference
<1>5. InferenceHolds'
  BY ThrottleQueuesAssumption
     DEF QueuesInv, QueuesTypeOK, InferenceHolds, others, Live,
         ExitCancelsInference
<1>6. TimeoutHolds'
  BY ThrottleQueuesAssumption
     DEF QueuesInv, QueuesTypeOK, TimeoutHolds, Live, ExitCancelsInference
<1>7. ThreadKeeps'
  BY ThrottleQueuesAssumption
     DEF QueuesInv, QueuesTypeOK, ThreadKeeps, others, Live,
         ExitCancelsInference, ThreadHolds
<1>8. WalkHolds'
  BY ThrottleQueuesAssumption
     DEF QueuesInv, QueuesTypeOK, WalkHolds, switch, Live, ExitCancelsInference
<1>9. PartsInStep'
  BY ThrottleQueuesAssumption
     DEF QueuesInv, QueuesTypeOK, PartsInStep, Parts, Live, ExitCancelsInference
<1>10. CompletionInStep'
  BY ThrottleQueuesAssumption
     DEF QueuesInv, QueuesTypeOK, CompletionInStep, others, Live,
         ExitCancelsInference, ThreadHolds
<1> QED
  BY <1>1, <1>2, <1>3, <1>4, <1>5, <1>6, <1>7, <1>8, <1>9, <1>10 DEF QueuesInv

LEMMA ExitCancelsTimeoutKeeps ==
  ASSUME QueuesInv, NEW q \in Queues, ExitCancelsTimeout(q)
  PROVE  QueuesInv'
<1>1. QueuesTypeOK'
  BY ThrottleQueuesAssumption
     DEF QueuesInv, QueuesTypeOK, Runners, Parts, InitSteps, ExitSteps, others,
         switch, Live, ExitCancelsTimeout
<1>2. ReadersHold'
  BY ThrottleQueuesAssumption
     DEF QueuesInv, QueuesTypeOK, ReadersHold, others, Live, ExitCancelsTimeout
<1>3. DispatchHolds'
  BY ThrottleQueuesAssumption
     DEF QueuesInv, QueuesTypeOK, DispatchHolds, others, Live,
         ExitCancelsTimeout
<1>4. TimerHolds'
  BY ThrottleQueuesAssumption
     DEF QueuesInv, QueuesTypeOK, TimerHolds, Live, ExitCancelsTimeout
<1>5. InferenceHolds'
  BY ThrottleQueuesAssumption
     DEF QueuesInv, QueuesTypeOK, InferenceHolds, others, Live,
         ExitCancelsTimeout
<1>6. TimeoutHolds'
  BY ThrottleQueuesAssumption
     DEF QueuesInv, QueuesTypeOK, TimeoutHolds, Live, ExitCancelsTimeout
<1>7. ThreadKeeps'
  BY ThrottleQueuesAssumption
     DEF QueuesInv, QueuesTypeOK, ThreadKeeps, others, Live, ExitCancelsTimeout,
         ThreadHolds
<1>8. WalkHolds'
  BY ThrottleQueuesAssumption
     DEF QueuesInv, QueuesTypeOK, WalkHolds, switch, Live, ExitCancelsTimeout
<1>9. PartsInStep'
  BY ThrottleQueuesAssumption
     DEF QueuesInv, QueuesTypeOK, PartsInStep, Parts, Live, ExitCancelsTimeout
<1>10. CompletionInStep'
  BY ThrottleQueuesAssumption
     DEF QueuesInv, QueuesTypeOK, CompletionInStep, others, Live,
         ExitCancelsTimeout, ThreadHolds
<1> QED
  BY <1>1, <1>2, <1>3, <1>4, <1>5, <1>6, <1>7, <1>8, <1>9, <1>10 DEF QueuesInv

LEMMA DestroyContextKeeps ==
  ASSUME QueuesInv, NEW q \in Queues, DestroyContext(q)
  PROVE  QueuesInv'
<1>1. QueuesTypeOK'
  <2>1. \/ /\ life' = [life EXCEPT ![q] = "free"] /\ life[q] = "destroy"
           /\ alloc' = [alloc EXCEPT ![q] = {"meta_pool"}]
        \/ /\ life' = [life EXCEPT ![q] = "none"] /\ life[q] = "free"
           /\ alloc' = [alloc EXCEPT ![q] = {}]
    BY DEF DestroyContext, Live
  <2>2. UNCHANGED <<ctl, timer, queued, timeout, idle, others, switch, bounds>>
    BY DEF DestroyContext
  <2>3. life' \in [Queues -> {"none", "live"} \cup InitSteps \cup ExitSteps]
    <3> DEFINE steps == {"none", "live"} \cup InitSteps \cup ExitSteps
    <3>1. "free" \in steps /\ "none" \in steps
      BY DEF ExitSteps
    <3>2. life \in [Queues -> steps]
      BY DEF QueuesInv, QueuesTypeOK
    <3> HIDE DEF steps
    <3>3. life' \in [Queues -> steps]
      BY <2>1, <3>1, <3>2
    <3> QED BY <3>3 DEF steps
  <2>4. alloc' \in [Queues -> SUBSET Parts]
    <3>1. {} \in SUBSET Parts /\ {"meta_pool"} \in SUBSET Parts
      BY DEF Parts
    <3> QED BY <2>1, <3>1 DEF QueuesInv, QueuesTypeOK
  <2> QED
    BY <2>2, <2>3, <2>4 DEF QueuesInv, QueuesTypeOK, others, switch
<1>2. ReadersHold'
  <2>1. \/ /\ life' = [life EXCEPT ![q] = "free"] /\ life[q] = "destroy"
           /\ alloc' = [alloc EXCEPT ![q] = {"meta_pool"}]
        \/ /\ life' = [life EXCEPT ![q] = "none"] /\ life[q] = "free"
           /\ alloc' = [alloc EXCEPT ![q] = {}]
    BY DEF DestroyContext, Live
  <2>2. UNCHANGED <<reader, grace>>
    BY DEF DestroyContext, others
  <2> QED
    BY <2>1, <2>2 DEF QueuesInv, QueuesTypeOK, ReadersHold
<1>3. DispatchHolds'
  BY ThrottleQueuesAssumption
     DEF QueuesInv, QueuesTypeOK, DispatchHolds, others, Live, DestroyContext
<1>4. TimerHolds'
  BY ThrottleQueuesAssumption
     DEF QueuesInv, QueuesTypeOK, TimerHolds, Live, DestroyContext
<1>5. InferenceHolds'
  <2>1. life[q] \notin Inferring
    BY DEF DestroyContext
  <2>2. \A x \in Queues : x # q => life'[x] = life[x]
    BY DEF DestroyContext, Live, QueuesInv, QueuesTypeOK
  <2>3. UNCHANGED <<queued, infer>>
    BY DEF DestroyContext, others
  <2>4. InferenceHolds
    BY DEF QueuesInv
  <2> QED
    BY <2>1, <2>2, <2>3, <2>4 DEF InferenceHolds
<1>6. TimeoutHolds'
  <2>1. life[q] \notin Whole
    BY DEF DestroyContext
  <2>2. \A x \in Queues : x # q => life'[x] = life[x]
    BY DEF DestroyContext, Live, QueuesInv, QueuesTypeOK
  <2>3. UNCHANGED <<queued, timeout>>
    BY DEF DestroyContext
  <2>4. TimeoutHolds
    BY DEF QueuesInv
  <2> QED
    BY <2>1, <2>2, <2>3, <2>4 DEF TimeoutHolds
<1>7. ThreadKeeps'
  BY ThrottleQueuesAssumption
     DEF QueuesInv, QueuesTypeOK, ThreadKeeps, others, Live, DestroyContext,
         ThreadHolds
<1>8. WalkHolds'
  BY ThrottleQueuesAssumption
     DEF QueuesInv, QueuesTypeOK, WalkHolds, switch, Live, DestroyContext
<1>9. PartsInStep'
  <2>1. \/ /\ life' = [life EXCEPT ![q] = "free"] /\ life[q] = "destroy"
           /\ alloc' = [alloc EXCEPT ![q] = {"meta_pool"}]
        \/ /\ life' = [life EXCEPT ![q] = "none"] /\ life[q] = "free"
           /\ alloc' = [alloc EXCEPT ![q] = {}]
    BY DEF DestroyContext, Live
  <2>2. \A p \in Queues : p # q => life'[p] = life[p] /\ alloc'[p] = alloc[p]
    BY <2>1 DEF QueuesInv, QueuesTypeOK
  <2>3. \/ life'[q] = "free"
        \/ life'[q] = "none" /\ alloc'[q] = {}
    BY <2>1 DEF QueuesInv, QueuesTypeOK
  <2> QED
    BY <2>2, <2>3 DEF QueuesInv, PartsInStep, Parts
<1>10. CompletionInStep'
  BY ThrottleQueuesAssumption
     DEF QueuesInv, QueuesTypeOK, CompletionInStep, others, Live,
         DestroyContext, ThreadHolds
<1> QED
  BY <1>1, <1>2, <1>3, <1>4, <1>5, <1>6, <1>7, <1>8, <1>9, <1>10 DEF QueuesInv

-----------------------------------------------------------------------------
(* set_enabled.                                                            *)

LEMMA CallSetEnabledKeeps ==
  ASSUME QueuesInv, NEW a \in Admins, NEW on \in BOOLEAN, CallSetEnabled(a, on)
  PROVE  QueuesInv'
<1>1. QueuesTypeOK'
  <2>1. bounds.switches + 1 \in 0 .. MaxSwitches
    BY ThrottleQueuesAssumption DEF QueuesInv, QueuesTypeOK, CallSetEnabled
  <2>2. admin' \in [Admins -> Switchings]
    BY DEF QueuesInv, QueuesTypeOK, Switchings, NotSwitching, CallSetEnabled
  <2> QED
    BY <2>1, <2>2, ThrottleQueuesAssumption
       DEF QueuesInv, QueuesTypeOK, Switchings, Runners, Parts, InitSteps,
           ExitSteps, context, others, CallSetEnabled
<1>2. WalkHolds'
  BY ThrottleQueuesAssumption
     DEF QueuesInv, QueuesTypeOK, WalkHolds, context, NotSwitching,
         CallSetEnabled
<1>3. ReadersHold' /\ DispatchHolds' /\ TimerHolds' /\ InferenceHolds' /\
       TimeoutHolds' /\ ThreadKeeps' /\ PartsInStep' /\ CompletionInStep'
  BY DEF QueuesInv, ReadersHold, DispatchHolds, TimerHolds, InferenceHolds,
         TimeoutHolds, ThreadKeeps, PartsInStep, CompletionInStep, context,
         others, CallSetEnabled, ThreadHolds
<1> QED
  BY <1>1, <1>2, <1>3 DEF QueuesInv

LEMMA ClearSwitchKeeps ==
  ASSUME QueuesInv, NEW a \in Admins, ClearSwitch(a)
  PROVE  QueuesInv'
<1>1. QueuesTypeOK'
  <2>1. admin' \in [Admins -> Switchings]
    BY WriterMoves DEF QueuesInv, ClearSwitch
  <2> QED
    BY <2>1, ThrottleQueuesAssumption
       DEF QueuesInv, QueuesTypeOK, Switchings, Runners, Parts, InitSteps,
           ExitSteps, context, others, ClearSwitch
<1>2. WalkHolds'
  BY ThrottleQueuesAssumption
     DEF QueuesInv, QueuesTypeOK, WalkHolds, context, Switching, ClearSwitch
<1>3. ReadersHold' /\ DispatchHolds' /\ TimerHolds' /\ InferenceHolds' /\
       TimeoutHolds' /\ ThreadKeeps' /\ PartsInStep' /\ CompletionInStep'
  BY DEF QueuesInv, ReadersHold, DispatchHolds, TimerHolds, InferenceHolds,
         TimeoutHolds, ThreadKeeps, PartsInStep, CompletionInStep, context,
         others, ClearSwitch, ThreadHolds
<1> QED
  BY <1>1, <1>2, <1>3 DEF QueuesInv

LEMMA LockListKeeps ==
  ASSUME QueuesInv, NEW a \in Admins, LockList(a)
  PROVE  QueuesInv'
<1>1. QueuesTypeOK'
  <2>1. admin' \in [Admins -> Switchings]
    <3> DEFINE s == [[admin[a] EXCEPT !.at = "walk"] EXCEPT !.todo = Active]
    <3>1. admin[a] \in Switchings /\ Active \in SUBSET Queues
      BY DEF QueuesInv, QueuesTypeOK, Switchings, Active
    <3>2. s \in Switchings
      BY <3>1 DEF Switchings
    <3>3. admin' = [admin EXCEPT ![a] = s]
      BY DEF QueuesInv, QueuesTypeOK, LockList
    <3> HIDE DEF s
    <3> QED BY <3>2, <3>3, WriterSet DEF QueuesInv
  <2> QED
    BY <2>1, ThrottleQueuesAssumption
       DEF QueuesInv, QueuesTypeOK, Switchings, Runners, Parts, InitSteps,
           ExitSteps, context, others, LockList
<1>2. WalkHolds'
  BY ThrottleQueuesAssumption
     DEF QueuesInv, QueuesTypeOK, WalkHolds, context, Active, LockList
<1>3. ReadersHold' /\ DispatchHolds' /\ TimerHolds' /\ InferenceHolds' /\
       TimeoutHolds' /\ ThreadKeeps' /\ PartsInStep' /\ CompletionInStep'
  BY DEF QueuesInv, ReadersHold, DispatchHolds, TimerHolds, InferenceHolds,
         TimeoutHolds, ThreadKeeps, PartsInStep, CompletionInStep, context,
         others, LockList, ThreadHolds
<1> QED
  BY <1>1, <1>2, <1>3 DEF QueuesInv

LEMMA ResetContextKeeps ==
  ASSUME QueuesInv, NEW a \in Admins, NEW q \in Queues, ResetContext(a, q)
  PROVE  QueuesInv'
<1>1. QueuesTypeOK'
  <2>1. ctl' \in [Queues -> Controls]
    BY FallenBack DEF QueuesInv, ResetContext, ResetControl
  <2>2. admin' \in [Admins -> Switchings]
    <3> DEFINE s == [[[admin[a] EXCEPT !.at = "timer"] EXCEPT !.q = q]
                       EXCEPT !.todo = admin[a].todo \ {q}]
    <3>1. admin[a] \in Switchings
      BY DEF QueuesInv, QueuesTypeOK, Switchings
    <3>2. s \in Switchings
      BY <3>1 DEF Switchings
    <3>3. admin' = [admin EXCEPT ![a] = s]
      BY DEF QueuesInv, QueuesTypeOK, ResetContext
    <3> HIDE DEF s
    <3> QED BY <3>2, <3>3, WriterSet DEF QueuesInv
  <2> QED
    BY <2>1, <2>2, ThrottleQueuesAssumption
       DEF QueuesInv, QueuesTypeOK, Controls, Switchings, Runners, Parts,
           InitSteps, ExitSteps, others, ResetContext
<1>2. WalkHolds'
  BY ThrottleQueuesAssumption
     DEF QueuesInv, QueuesTypeOK, WalkHolds, ResetControl, ResetContext
<1>3. ReadersHold' /\ DispatchHolds' /\ TimerHolds' /\ InferenceHolds' /\
       TimeoutHolds' /\ ThreadKeeps' /\ PartsInStep' /\ CompletionInStep'
  BY DEF QueuesInv, ReadersHold, DispatchHolds, TimerHolds, InferenceHolds,
         TimeoutHolds, ThreadKeeps, PartsInStep, CompletionInStep, others,
         ResetContext, ThreadHolds
<1> QED
  BY <1>1, <1>2, <1>3 DEF QueuesInv

LEMMA ResetCancelsTimerKeeps ==
  ASSUME QueuesInv, NEW a \in Admins, ResetCancelsTimer(a)
  PROVE  QueuesInv'
<1>1. QueuesTypeOK'
  <2>1. timer' \in [Queues -> Timers]
    BY WritersQueue, TimerDisarmed DEF QueuesInv, ResetCancelsTimer
  <2>2. admin' \in [Admins -> Switchings]
    BY WriterMoves DEF QueuesInv, ResetCancelsTimer
  <2> QED
    BY <2>1, <2>2, ThrottleQueuesAssumption
       DEF QueuesInv, QueuesTypeOK, Timers, Switchings, Runners, Parts,
           InitSteps, ExitSteps, others, CallbackDone, ResetCancelsTimer
<1>2. TimerHolds'
  BY ThrottleQueuesAssumption
     DEF QueuesInv, QueuesTypeOK, TimerHolds, Disarm, ResetCancelsTimer
<1>3. WalkHolds'
  BY ThrottleQueuesAssumption
     DEF QueuesInv, QueuesTypeOK, WalkHolds, Switching, ResetCancelsTimer
<1>4. ReadersHold' /\ DispatchHolds' /\ InferenceHolds' /\ TimeoutHolds' /\
       ThreadKeeps' /\ PartsInStep' /\ CompletionInStep'
  BY DEF QueuesInv, ReadersHold, DispatchHolds, InferenceHolds, TimeoutHolds,
         ThreadKeeps, PartsInStep, CompletionInStep, others, ResetCancelsTimer,
         ThreadHolds
<1> QED
  BY <1>1, <1>2, <1>3, <1>4 DEF QueuesInv

LEMMA ResetCancelsWorksKeeps ==
  ASSUME QueuesInv, NEW a \in Admins, ResetCancelsWorks(a)
  PROVE  QueuesInv'
<1>1. admin[a].q \in Queues
  BY WritersQueue DEF ResetCancelsWorks
<1>2. \/ Switching(a, "timeout") /\ admin[a].at = "inference"
      \/ /\ admin' = [admin EXCEPT ![a].at = "walk", ![a].q = None]
         /\ admin[a].at = "timeout"
  BY DEF ResetCancelsWorks
<1>3. QueuesTypeOK'
  <2>1. admin' \in [Admins -> Switchings]
    <3>1. CASE Switching(a, "timeout")
      BY <3>1, WriterMoves DEF QueuesInv
    <3>2. CASE admin' = [admin EXCEPT ![a].at = "walk", ![a].q = None]
      <4> DEFINE s == [[admin[a] EXCEPT !.at = "walk"] EXCEPT !.q = None]
      <4>1. admin[a] \in Switchings
        BY DEF QueuesInv, QueuesTypeOK, Switchings
      <4>2. s \in Switchings
        BY <4>1 DEF Switchings
      <4>3. admin' = [admin EXCEPT ![a] = s]
        BY <3>2 DEF QueuesInv, QueuesTypeOK
      <4> HIDE DEF s
      <4> QED BY <4>2, <4>3, WriterSet DEF QueuesInv
    <3> QED BY <1>2, <3>1, <3>2
  <2>2. queued' \in [Queues -> SUBSET {"inference", "timeout"}]
    <3>1. \E work \in {"inference", "timeout"} :
             queued' = [queued EXCEPT ![admin[a].q] = @ \ {work}]
      BY DEF ResetCancelsWorks
    <3> QED BY <1>1, <3>1 DEF QueuesInv, QueuesTypeOK
  <2> QED
    BY <2>1, <2>2, ThrottleQueuesAssumption
       DEF QueuesInv, QueuesTypeOK, Switchings, Runners, Parts, InitSteps,
           ExitSteps, others, ResetCancelsWorks
<1>4. InferenceHolds'
  BY ThrottleQueuesAssumption
     DEF QueuesInv, QueuesTypeOK, InferenceHolds, WalkHolds, others,
         ResetCancelsWorks
<1>5. TimeoutHolds'
  <2>1. UNCHANGED <<life, timeout>>
    BY DEF ResetCancelsWorks
  <2>2. \A x \in Queues : queued'[x] \subseteq queued[x]
    <3>1. queued \in [Queues -> SUBSET {"inference", "timeout"}]
      BY DEF QueuesInv, QueuesTypeOK
    <3>2. \E work : queued' = [queued EXCEPT ![admin[a].q] = @ \ {work}]
      BY DEF ResetCancelsWorks
    <3> QED BY <1>1, <3>1, <3>2
  <2>3. TimeoutHolds
    BY DEF QueuesInv
  <2> QED
    BY <2>1, <2>2, <2>3 DEF TimeoutHolds
<1>6. WalkHolds'
  <2>1. UNCHANGED <<life, mutex>>
    BY DEF ResetCancelsWorks
  <2>2. admin \in [Admins -> Switchings]
    BY DEF QueuesInv, QueuesTypeOK, Switchings
  <2>3. WalkHolds
    BY DEF QueuesInv
  <2>4. CASE Switching(a, "timeout") /\ admin[a].at = "inference"
    <3>1. /\ admin'[a].at = "timeout" /\ admin'[a].q = admin[a].q
          /\ admin'[a].todo = admin[a].todo
          /\ \A b \in Admins : b # a => admin'[b] = admin[b]
      BY <2>4, WriterMoves DEF QueuesInv
    <3> QED BY <2>1, <2>3, <2>4, <3>1 DEF WalkHolds
  <2>5. CASE /\ admin' = [admin EXCEPT ![a].at = "walk", ![a].q = None]
             /\ admin[a].at = "timeout"
    <3>1. /\ admin'[a].at = "walk" /\ admin'[a].q = None
          /\ admin'[a].todo = admin[a].todo
          /\ \A b \in Admins : b # a => admin'[b] = admin[b]
      BY <2>2, <2>5 DEF Switchings
    <3>2. /\ mutex = a
          /\ \A x \in Queues : x \in admin[a].todo => life[x] = "live"
      BY <2>3, <2>5 DEF WalkHolds
    <3>3. \A x \in Queues : admin'[a].q # x
      BY <3>1, ThrottleQueuesAssumption
    <3> QED BY <2>1, <2>3, <3>1, <3>2, <3>3 DEF WalkHolds
  <2> QED BY <1>2, <2>4, <2>5
<1>7. ReadersHold' /\ DispatchHolds' /\ TimerHolds' /\ ThreadKeeps' /\ PartsInStep' /\
       CompletionInStep'
  BY DEF QueuesInv, ReadersHold, DispatchHolds, TimerHolds, ThreadKeeps,
         PartsInStep, CompletionInStep, others, ResetCancelsWorks, ThreadHolds
<1> QED
  BY <1>3, <1>4, <1>5, <1>6, <1>7 DEF QueuesInv

LEMMA UnlockListKeeps ==
  ASSUME QueuesInv, NEW a \in Admins, UnlockList(a)
  PROVE  QueuesInv'
<1>1. Switching(a, "set") \/ admin' = [admin EXCEPT ![a] = NotSwitching]
  BY DEF UnlockList
<1>2. NotSwitching \in Switchings
  BY DEF NotSwitching, Switchings
<1>3. QueuesTypeOK'
  <2>1. admin' \in [Admins -> Switchings]
    BY <1>1, <1>2, WriterMoves, WriterSet DEF QueuesInv
  <2> QED
    BY <2>1, ThrottleQueuesAssumption
       DEF QueuesInv, QueuesTypeOK, Switchings, Runners, Parts, InitSteps,
           ExitSteps, context, others, UnlockList
<1>4. WalkHolds'
  <2>1. /\ admin[a].at = "walk" /\ admin[a].todo = {}
        /\ mutex' = None /\ life' = life
    BY DEF UnlockList, context
  <2>2. /\ admin'[a].at \in {"set", "out"} /\ admin'[a].todo = {}
        /\ admin'[a].q = None
        /\ \A b \in Admins : b # a => admin'[b] = admin[b]
    <3>1. CASE Switching(a, "set")
      BY <2>1, <3>1, WriterMoves DEF QueuesInv, WalkHolds
    <3>2. CASE admin' = [admin EXCEPT ![a] = NotSwitching]
      BY <1>2, <3>2, WriterSet DEF QueuesInv, NotSwitching
    <3> QED BY <1>1, <3>1, <3>2
  <2> QED
    BY <2>1, <2>2, ThrottleQueuesAssumption DEF QueuesInv, WalkHolds
<1>5. ReadersHold' /\ DispatchHolds' /\ TimerHolds' /\ InferenceHolds' /\
       TimeoutHolds' /\ ThreadKeeps' /\ PartsInStep' /\ CompletionInStep'
  BY DEF QueuesInv, ReadersHold, DispatchHolds, TimerHolds, InferenceHolds,
         TimeoutHolds, ThreadKeeps, PartsInStep, CompletionInStep, context,
         others, UnlockList, ThreadHolds
<1> QED
  BY <1>3, <1>4, <1>5 DEF QueuesInv

LEMMA SetSwitchKeeps ==
  ASSUME QueuesInv, NEW a \in Admins, SetSwitch(a)
  PROVE  QueuesInv'
<1>1. QueuesTypeOK'
  BY ThrottleQueuesAssumption
     DEF QueuesInv, QueuesTypeOK, Runners, Parts, InitSteps, ExitSteps, context,
         others, NotSwitching, SetSwitch
<1>2. WalkHolds'
  BY ThrottleQueuesAssumption
     DEF QueuesInv, QueuesTypeOK, WalkHolds, context, NotSwitching, SetSwitch
<1>3. ReadersHold' /\ DispatchHolds' /\ TimerHolds' /\ InferenceHolds' /\
       TimeoutHolds' /\ ThreadKeeps' /\ PartsInStep' /\ CompletionInStep'
  BY DEF QueuesInv, ReadersHold, DispatchHolds, TimerHolds, InferenceHolds,
         TimeoutHolds, ThreadKeeps, PartsInStep, CompletionInStep, context,
         others, SetSwitch, ThreadHolds
<1> QED
  BY <1>1, <1>2, <1>3 DEF QueuesInv

-----------------------------------------------------------------------------
(* All steps together.                                                     *)

LEMMA QueuesInvInit ==
  ASSUME QueuesInit
  PROVE  QueuesInv
<1>1. QueuesTypeOK
  <2>1. ctl \in [Queues -> Controls]
    BY NothingDecided DEF QueuesInit
  <2>2. infer \in [Runners -> Inferences]
    <3>1. Asleep \in Inferences
      BY ThrottleQueuesAssumption DEF Asleep, Inferences
    <3> QED BY <3>1 DEF QueuesInit
  <2>3. admin \in [Admins -> Switchings]
    <3>1. NotSwitching \in Switchings
      BY DEF NotSwitching, Switchings
    <3> QED BY <3>1 DEF QueuesInit
  <2>4. timer \in [Queues -> Timers]
    <3>1. TimerOff \in Timers
      BY DEF TimerOff, Timers
    <3> QED BY <3>1 DEF QueuesInit
  <2>5. reader \in [Handlers -> Readings]
    <3>1. Out \in Readings
      BY DEF Out, Readings
    <3> QED BY <3>1 DEF QueuesInit
  <2>6. bounds \in [inits : 0 .. MaxInits, decisions : 0 .. MaxDecisions,
                   switches : 0 .. MaxSwitches]
    BY ThrottleQueuesAssumption DEF QueuesInit
  <2> QED
    BY <2>1, <2>2, <2>3, <2>4, <2>5, <2>6
       DEF QueuesInit, QueuesTypeOK, Controls, Inferences, Switchings, Timers,
           Readings
<1>2. ReadersHold /\ DispatchHolds
  BY ThrottleQueuesAssumption DEF QueuesInit, ReadersHold, DispatchHolds, Out
<1>3. TimerHolds
  <2>1. TimerOff.armed = FALSE /\ TimerOff.queueing = FALSE
    BY DEF TimerOff
  <2> QED BY <2>1 DEF QueuesInit, TimerHolds
<1>4. InferenceHolds /\ TimeoutHolds /\ ThreadKeeps
  BY ThrottleQueuesAssumption
     DEF QueuesInit, InferenceHolds, TimeoutHolds, ThreadKeeps, ThreadHolds,
         Asleep, Runners
<1>5. WalkHolds
  BY ThrottleQueuesAssumption DEF QueuesInit, WalkHolds, NotSwitching
<1>6. PartsInStep /\ CompletionInStep
  BY DEF QueuesInit, PartsInStep, CompletionInStep
<1> QED BY <1>1, <1>2, <1>3, <1>4, <1>5, <1>6 DEF QueuesInv

LEMMA StuttersKeep ==
  ASSUME QueuesInv, UNCHANGED queueVars
  PROVE  QueuesInv'
<1>1. QueuesTypeOK'
  BY DEF QueuesInv, QueuesTypeOK, queueVars, context, others, switch
<1>2. ReadersHold' /\ DispatchHolds' /\ TimerHolds' /\ InferenceHolds' /\ TimeoutHolds'
  BY DEF QueuesInv, ReadersHold, DispatchHolds, TimerHolds, InferenceHolds,
         TimeoutHolds, queueVars, context, others
<1>3. ThreadKeeps' /\ WalkHolds' /\ PartsInStep' /\ CompletionInStep'
  BY DEF QueuesInv, ThreadKeeps, WalkHolds, PartsInStep, CompletionInStep,
         ThreadHolds, queueVars, context, others, switch
<1> QED BY <1>1, <1>2, <1>3 DEF QueuesInv

LEMMA QueuesInvNext ==
  ASSUME QueuesInv, [QueuesNext]_queueVars
  PROVE  QueuesInv'
<1>1. CASE \E q \in Queues : QueueNext(q)
  <2> PICK q \in Queues : QueueNext(q)
    BY <1>1
  <2>1. CASE StartInit(q) \/ Allocate(q) \/ AddToList(q) \/ StartExit(q)
    BY <2>1, StartInitKeeps, AllocateKeeps, AddToListKeeps, StartExitKeeps
  <2>2. CASE ExitNext(q)
    BY <2>2, SynchronizeKeeps, ExitCancelsTimerKeeps, ExitCancelsThreadKeeps,
       ExitWaitsForThreadKeeps, ExitCancelsInferenceKeeps,
       ExitCancelsTimeoutKeeps, DestroyContextKeeps DEF ExitNext
  <2>3. CASE DispatchModel(q) \/ ArmModelTimer(q) \/ TimerFires(q) \/ QueueTimeout(q)
    BY <2>3, DispatchModelKeeps, ArmModelTimerKeeps, TimerFiresKeeps,
       QueueTimeoutKeeps
  <2>4. CASE TimeoutStarts(q) \/ TimeoutWork(q) \/ WorkStarts(q)
    BY <2>4, TimeoutStartsKeeps, TimeoutWorkKeeps, WorkStartsKeeps
  <2> QED BY <2>1, <2>2, <2>3, <2>4 DEF QueueNext
<1>2. CASE \E h \in Handlers : HandlerNext(h)
  <2> PICK h \in Handlers : HandlerNext(h)
    BY <1>2
  <2>1. CASE \E q \in Queues : FindContext(h, q)
    BY <2>1, FindContextKeeps
  <2>2. CASE \E source \in {"FIXED", "MODEL"} : StartInference(h, source)
    BY <2>2, StartInferenceKeeps
  <2>3. CASE HandlerSteps(h)
    BY <2>3, LeaveUnchangedKeeps, ArmTimerKeeps, QueueInferenceKeeps,
       QueueingFailedKeeps DEF HandlerSteps
  <2> QED BY <2>1, <2>2, <2>3 DEF HandlerNext
<1>3. CASE \E w \in Runners : RunnerNext(w)
  BY <1>3, ReadDecisionKeeps, ApplyDecisionKeeps, CancelTimerKeeps DEF RunnerNext
<1>4. CASE ThreadNext
  BY <1>4, ThreadPicksUpKeeps, ThreadSnapshotsKeeps, ThreadCompletesKeeps,
     ThreadClearsKeeps DEF ThreadNext
<1>5. CASE \E a \in Admins : AdminStep(a)
  <2> PICK a \in Admins : AdminStep(a)
    BY <1>5
  <2>1. CASE \E q \in Queues : ResetContext(a, q)
    BY <2>1, ResetContextKeeps
  <2>2. CASE ~\E q \in Queues : ResetContext(a, q)
    BY <2>2, ClearSwitchKeeps, LockListKeeps, ResetCancelsTimerKeeps,
       ResetCancelsWorksKeeps, UnlockListKeeps, SetSwitchKeeps DEF AdminStep
  <2> QED BY <2>1, <2>2
<1>6. CASE \E a \in Admins, on \in BOOLEAN : CallSetEnabled(a, on)
  BY <1>6, CallSetEnabledKeeps
<1>7. CASE UNCHANGED queueVars
  BY <1>7, StuttersKeep
<1> QED BY <1>1, <1>2, <1>3, <1>4, <1>5, <1>6, <1>7 DEF QueuesNext

(* Every holder is confined to a stretch in which the context is whole.    *)
LEMMA HoldersFindItWhole ==
  ASSUME QueuesInv
  PROVE  ContextConsistent
<1>1. UsedIsWhole
  <2> SUFFICES ASSUME NEW q \in Queues, InUse(q)
               PROVE  alloc[q] = Parts
    BY DEF UsedIsWhole
  <2>1. life[q] \in Whole
    <3>1. CASE \E h \in Handlers : reader[h].q = q
      BY <3>1 DEF QueuesInv, ReadersHold
    <3>2. CASE dispatch[q]
      BY <3>2 DEF QueuesInv, DispatchHolds
    <3>3. CASE timer[q] # TimerOff
      <4>1. timer[q] \in Timers
        BY DEF QueuesInv, QueuesTypeOK, Timers
      <4>2. timer[q].armed \/ timer[q].queueing
        BY <3>3, <4>1 DEF Timers, TimerOff
      <4> QED BY <4>2 DEF QueuesInv, TimerHolds
    <3>4. CASE queued[q] # {} \/ timeout[q] \/ infer[q].pc # "idle"
      <4>1. queued[q] \in SUBSET {"inference", "timeout"}
        BY DEF QueuesInv, QueuesTypeOK
      <4>2. \/ "inference" \in queued[q] \/ infer[q].pc # "idle"
            \/ "timeout" \in queued[q] \/ timeout[q]
        BY <3>4, <4>1
      <4>3. CASE "inference" \in queued[q] \/ infer[q].pc # "idle"
        BY <4>3 DEF QueuesInv, InferenceHolds
      <4>4. CASE "timeout" \in queued[q] \/ timeout[q]
        BY <4>4 DEF QueuesInv, TimeoutHolds
      <4> QED BY <4>2, <4>3, <4>4
    <3>5. CASE slot = q \/ ThreadHolds(q)
      BY <3>5 DEF QueuesInv, ThreadKeeps
    <3>6. CASE \E a \in Admins : admin[a].q = q \/ q \in admin[a].todo
      BY <3>6 DEF QueuesInv, WalkHolds
    <3> QED BY <3>1, <3>2, <3>3, <3>4, <3>5, <3>6 DEF InUse
  <2> QED BY <2>1 DEF QueuesInv, PartsInStep
<1>2. NothingLeaks
  BY DEF QueuesInv, PartsInStep, NothingLeaks
<1>3. CompletionBalanced
  BY DEF QueuesInv, CompletionInStep, CompletionBalanced
<1> QED BY <1>1, <1>2, <1>3 DEF QueuesInv, ContextConsistent

(* queue_exit destroys the workqueues and frees the context only when no   *)
(* handler, dispatcher, timer callback, work item, model thread or writer  *)
(* of the switch can reach it any more; queue_init that fails, and         *)
(* queue_exit, leave nothing allocated; and model_thread_idle is complete  *)
(* exactly when the thread is out of the context, so that the exit waits   *)
(* neither too little nor for ever.                                        *)
THEOREM ThrottleContextConsistent == QueuesSpec => []ContextConsistent
<1>1. QueuesInit => QueuesInv
  BY QueuesInvInit
<1>2. QueuesInv /\ [QueuesNext]_queueVars => QueuesInv'
  BY QueuesInvNext
<1>3. QueuesInv => ContextConsistent
  BY HoldersFindItWhole
<1> QED BY <1>1, <1>2, <1>3, PTL DEF QueuesSpec

-----------------------------------------------------------------------------
(***************************************************************************)
(* 2.  Who ends a decision.  DecisionInv says it more exactly than the     *)
(* property: a decision that has timed out is ended only by its timeout,   *)
(* one of a fixed depth by its handler, its work or a runner that took it  *)
(* up, and so on; a work that is queued, or a timer that is armed, for     *)
(* another decision does not count.                                        *)
(***************************************************************************)

(* Without crossed writers, one that is past the clearing of the switch    *)
(* finds it off until it sets it.                                          *)
OneWriter ==
    ~crossed =>
       /\ \A a, b \in Admins : admin[a].at # "out" /\ admin[b].at # "out" => a = b
       /\ \A a \in Admins : admin[a].at \notin {"out", "clear"} => ~throttle_enabled

(* So no decision starts in a context whose works it is cancelling.        *)
ResetSettled ==
    ~crossed => \A a \in Admins, q \in Queues : admin[a].q = q => ~ctl[q].pending

NewUndecided ==
    \A q \in Queues :
       life[q] \in {"init_iwq", "init_twq", "init_list"} => ~ctl[q].pending

FixedReady ==
    \A q \in Queues : ctl[q].pending /\ ctl[q].source = "FIXED" => ctl[q].has_state

(* Who ends the decision in progress: once it has timed out, the timeout   *)
(* work; before, a handler on its way to queue the work, the work queued,  *)
(* or a runner that took this decision up; for the model also the          *)
(* dispatcher, when nobody runs, the slot and the thread.                  *)
Arming(q) == \E h \in Handlers : reader[h].q = q /\ reader[h].at # "found"
Carries(w, q) ==
    /\ infer[w].q = q
    /\ \/ infer[w].pc = "read"
       \/ infer[w].pc = "apply" /\ infer[w].decision = ctl[q].decision
Late(q) == timer[q].queueing \/ "timeout" \in queued[q] \/ timeout[q]
FixedEnds(q) ==
    Arming(q) \/ "inference" \in queued[q] \/ Carries(q, q) \/ Carries(Thread, q)
ModelEnds(q) ==
    \/ ~ctl[q].running \/ slot = q \/ Carries(q, q) \/ Carries(Thread, q)
    \/ infer[Thread].q = q /\ infer[Thread].pc = "snapshot"
Resolves(q) ==
    IF ctl[q].timed_out THEN Late(q)
    ELSE IF ctl[q].source = "FIXED" THEN FixedEnds(q) ELSE ModelEnds(q)

Resolved == ~crossed => \A q \in Active : ctl[q].pending => Resolves(q)

DecisionInv == OneWriter /\ ResetSettled /\ NewUndecided /\ FixedReady /\ Resolved

-----------------------------------------------------------------------------
(* Only start_inference_locked starts a decision: every other step leaves  *)
(* those that are pending as they were, but for who runs and whether they  *)
(* timed out, or ends them.                                                *)
Subsides ==
    \A q \in Queues : ctl'[q].pending =>
       /\ ctl[q].pending /\ ctl'[q].source = ctl[q].source
       /\ ctl'[q].decision = ctl[q].decision
       /\ ctl[q].has_state => ctl'[q].has_state

(* The steps that touch the control of one context.                        *)
LEMMA FallbackEnds ==
  ASSUME QueuesTypeOK, NEW q \in Queues, Fallback(q)
  PROVE  /\ ~ctl'[q].pending
         /\ \A p \in Queues : p # q => ctl'[p] = ctl[p]
BY DEF QueuesTypeOK, Fallback, NoDecision

LEMMA StopEnds ==
  ASSUME QueuesTypeOK, NEW q \in Queues, StopRunning(q)
  PROVE  /\ ~ctl'[q].running
         /\ ctl'[q].pending = ctl[q].pending /\ ctl'[q].timed_out = ctl[q].timed_out
         /\ ctl'[q].source = ctl[q].source /\ ctl'[q].decision = ctl[q].decision
         /\ ctl'[q].has_state = ctl[q].has_state
         /\ \A p \in Queues : p # q => ctl'[p] = ctl[p]
<1> DEFINE c == [ctl[q] EXCEPT !.running = FALSE]
<1>1. ctl[q] \in Controls
  BY DEF QueuesTypeOK, Controls
<1>2. /\ ~c.running
      /\ c.pending = ctl[q].pending /\ c.timed_out = ctl[q].timed_out
      /\ c.source = ctl[q].source /\ c.decision = ctl[q].decision
      /\ c.has_state = ctl[q].has_state
  BY <1>1 DEF Controls
<1>3. ctl' = [ctl EXCEPT ![q] = c]
  BY DEF StopRunning
<1> HIDE DEF c
<1> QED BY <1>2, <1>3 DEF QueuesTypeOK

(* Arming and cancelling the timer leave its callback alone.               *)
LEMMA ArmedOnly ==
  ASSUME QueuesTypeOK, NEW q \in Queues, UNCHANGED timer \/ Arm(q) \/ Disarm(q)
  PROVE  \A p \in Queues : timer'[p].queueing = timer[p].queueing
<1> DEFINE on == [timer[q] EXCEPT !.armed = TRUE]
<1> DEFINE off == [timer[q] EXCEPT !.armed = FALSE]
<1>1. timer[q] \in Timers
  BY DEF QueuesTypeOK, Timers
<1>2. on.queueing = timer[q].queueing /\ off.queueing = timer[q].queueing
  BY <1>1 DEF Timers
<1>3. \/ UNCHANGED timer \/ timer' = [timer EXCEPT ![q] = on]
      \/ timer' = [timer EXCEPT ![q] = off]
  BY DEF Arm, Disarm
<1> HIDE DEF on, off
<1> QED BY <1>2, <1>3 DEF QueuesTypeOK

(* The parts that follow wherever no decision starts.                      *)
LEMMA RestKept ==
  ASSUME QueuesInv, DecisionInv, Subsides, UNCHANGED switch,
         \A q \in Queues :
            life'[q] \in {"init_iwq", "init_twq", "init_list"} =>
               \/ life[q] \in {"init_iwq", "init_twq", "init_list"}
               \/ ~ctl'[q].pending
  PROVE  OneWriter' /\ ResetSettled' /\ NewUndecided' /\ FixedReady'
<1>1. OneWriter'
  BY DEF DecisionInv, OneWriter, switch
<1>2. ResetSettled'
  BY DEF DecisionInv, ResetSettled, switch, Subsides
<1>3. NewUndecided'
  BY DEF DecisionInv, NewUndecided, Subsides
<1>4. FixedReady'
  BY DEF DecisionInv, FixedReady, Subsides
<1> QED BY <1>1, <1>2, <1>3, <1>4

(* A context that the step does not touch.                                 *)
LEMMA Undisturbed ==
  ASSUME NEW q \in Queues, Resolves(q), ctl'[q] = ctl[q],
         Late(q) => Late(q)',
         FixedEnds(q) => FixedEnds(q)',
         ModelEnds(q) => ModelEnds(q)'
  PROVE  Resolves(q)'
BY DEF Resolves

(* A step of the life of a queue that leaves what ends decisions alone.    *)
LEMMA LifeMovesOn ==
  ASSUME QueuesInv, DecisionInv, NEW q \in Queues,
         \E step : Live(q, step) /\ step \notin {"init_iwq", "init_twq", "init_list", "live"},
         UNCHANGED <<ctl, infer, reader, switch>>,
         \A p \in Queues \ {q} :
            /\ timer'[p] = timer[p] /\ queued'[p] = queued[p] /\ timeout'[p] = timeout[p]
            /\ slot = p => slot' = p
  PROVE  DecisionInv'
<1>1. /\ \A p \in Queues \ {q} : life'[p] = life[p]
      /\ life'[q] \notin {"init_iwq", "init_twq", "init_list", "live"}
  BY DEF QueuesInv, QueuesTypeOK, Live
<1>2. Subsides
  BY DEF Subsides
<1>3. OneWriter' /\ ResetSettled' /\ NewUndecided' /\ FixedReady'
  BY <1>1, <1>2, RestKept
<1>4. Resolved'
  <2> SUFFICES ASSUME ~crossed', NEW p \in Queues, life'[p] = "live", ctl'[p].pending
               PROVE  Resolves(p)'
    BY DEF Resolved, Active
  <2>1. p # q /\ life[p] = "live" /\ ctl[p].pending /\ ~crossed
    BY <1>1 DEF switch
  <2>2. Resolves(p)
    BY <2>1 DEF DecisionInv, Resolved, Active
  <2>3. Late(p) => Late(p)'
    BY <2>1 DEF Late
  <2>4. FixedEnds(p) => FixedEnds(p)'
    BY <2>1 DEF FixedEnds, Arming, Carries
  <2>5. ModelEnds(p) => ModelEnds(p)'
    BY <2>1 DEF ModelEnds, Carries
  <2> QED BY <2>2, <2>3, <2>4, <2>5, Undisturbed
<1> QED BY <1>3, <1>4 DEF DecisionInv

LEMMA StartInitDecides ==
  ASSUME QueuesInv, DecisionInv, NEW q \in Queues, StartInit(q)
  PROVE  DecisionInv'
<1>1. Live(q, "init_pool") /\ UNCHANGED <<ctl, timer, queued, timeout, infer, slot, reader, switch>>
  BY DEF StartInit, others
<1> QED BY <1>1, LifeMovesOn

LEMMA ExitDecides ==
  ASSUME QueuesInv, DecisionInv, NEW q \in Queues, StartExit(q) \/ ExitNext(q)
  PROVE  DecisionInv'
<1>1. \E step : Live(q, step) /\ step \notin {"init_iwq", "init_twq", "init_list", "live"}
  BY DEF StartExit, ExitNext, Synchronize, ExitCancelsTimer, ExitCancelsThread,
         ExitWaitsForThread, ExitCancelsInference, ExitCancelsTimeout, DestroyContext
<1>2. UNCHANGED <<ctl, infer, reader, switch>>
  BY DEF StartExit, ExitNext, Synchronize, ExitCancelsTimer, ExitCancelsThread,
         ExitWaitsForThread, ExitCancelsInference, ExitCancelsTimeout, DestroyContext,
         others
<1>3. \A p \in Queues \ {q} : timer'[p] = timer[p]
  BY DEF StartExit, ExitNext, Synchronize, ExitCancelsTimer, ExitCancelsThread,
         ExitWaitsForThread, ExitCancelsInference, ExitCancelsTimeout, DestroyContext,
         Disarm, QueuesInv, QueuesTypeOK
<1>4. \A p \in Queues \ {q} : queued'[p] = queued[p] /\ timeout'[p] = timeout[p]
  BY DEF StartExit, ExitNext, Synchronize, ExitCancelsTimer, ExitCancelsThread,
         ExitWaitsForThread, ExitCancelsInference, ExitCancelsTimeout, DestroyContext,
         QueuesInv, QueuesTypeOK
<1>5. \A p \in Queues \ {q} : slot = p => slot' = p
  BY DEF StartExit, ExitNext, Synchronize, ExitCancelsTimer, ExitCancelsThread,
         ExitWaitsForThread, ExitCancelsInference, ExitCancelsTimeout, DestroyContext,
         others
<1> QED BY <1>1, <1>2, <1>3, <1>4, <1>5, LifeMovesOn

LEMMA AllocateDecides ==
  ASSUME QueuesInv, DecisionInv, NEW q \in Queues, Allocate(q)
  PROVE  DecisionInv'
<1>1. /\ life[q] \in {"init_pool", "init_iwq", "init_twq"}
      /\ life'[q] # "live"
      /\ \A p \in Queues \ {q} : life'[p] = life[p] /\ ctl'[p] = ctl[p]
      /\ UNCHANGED <<timer, queued, timeout, infer, slot, reader, switch>>
  BY DEF QueuesInv, QueuesTypeOK, Allocate, Live, AfterStep, PartOf, others
<1>2. ctl'[q] = ctl[q] \/ ~ctl'[q].pending
  BY DEF QueuesInv, QueuesTypeOK, Allocate, NoDecision
<1>3. life[q] = "init_pool" /\ life'[q] # "none" => ~ctl'[q].pending
  BY DEF QueuesInv, QueuesTypeOK, Allocate, NoDecision, Live
<1>4. OneWriter' /\ ResetSettled' /\ NewUndecided' /\ FixedReady'
  <2>1. Subsides
    BY <1>1, <1>2 DEF Subsides
  <2> QED BY <1>1, <1>3, <2>1, RestKept
<1>5. Resolved'
  <2> SUFFICES ASSUME ~crossed', NEW p \in Queues, life'[p] = "live", ctl'[p].pending
               PROVE  Resolves(p)'
    BY DEF Resolved, Active
  <2>1. p # q /\ life[p] = "live" /\ ctl[p].pending /\ ~crossed /\ ctl'[p] = ctl[p]
    BY <1>1 DEF switch
  <2>2. Resolves(p)
    BY <2>1 DEF DecisionInv, Resolved, Active
  <2>3. Late(p) => Late(p)'
    BY <1>1 DEF Late
  <2>4. FixedEnds(p) => FixedEnds(p)'
    BY <1>1, <2>1 DEF FixedEnds, Arming, Carries
  <2>5. ModelEnds(p) => ModelEnds(p)'
    BY <1>1, <2>1 DEF ModelEnds, Carries
  <2> QED BY <2>1, <2>2, <2>3, <2>4, <2>5, Undisturbed
<1> QED BY <1>4, <1>5 DEF DecisionInv

LEMMA AddToListDecides ==
  ASSUME QueuesInv, DecisionInv, NEW q \in Queues, AddToList(q)
  PROVE  DecisionInv'
<1>1. /\ life[q] = "init_list" /\ life'[q] = "live"
      /\ \A p \in Queues \ {q} : life'[p] = life[p]
      /\ UNCHANGED <<ctl, timer, queued, timeout, infer, slot, reader, switch>>
  BY DEF QueuesInv, QueuesTypeOK, AddToList, Live, others
<1>2. ~ctl'[q].pending
  BY <1>1 DEF DecisionInv, NewUndecided
<1>4. OneWriter' /\ ResetSettled' /\ NewUndecided' /\ FixedReady'
  <2>1. Subsides
    BY <1>1, <1>2 DEF Subsides
  <2> QED BY <1>1, <2>1, RestKept
<1>5. Resolved'
  BY <1>1, <1>2 DEF DecisionInv, Resolved, Resolves, Active, Late, FixedEnds,
     ModelEnds, Arming, Carries, switch
<1> QED BY <1>4, <1>5 DEF DecisionInv

(* A step between the coming and the going of queues, with the switch left *)
(* alone: what counts is that each decision it leaves pending is still     *)
(* resolved.                                                               *)
LEMMA StepDecides ==
  ASSUME QueuesInv, DecisionInv, Subsides, UNCHANGED <<life, switch>>,
         \A p \in Queues : life[p] = "live" /\ Resolves(p) /\ ctl'[p].pending => Resolves(p)'
  PROVE  DecisionInv'
<1>1. OneWriter' /\ ResetSettled' /\ NewUndecided' /\ FixedReady'
  BY RestKept
<1>2. Resolved'
  BY DEF DecisionInv, Resolved, Active, Subsides, switch
<1> QED BY <1>1, <1>2 DEF DecisionInv

-----------------------------------------------------------------------------
(* A completion.                                                           *)

LEMMA ReaderDecides ==
  ASSUME QueuesInv, DecisionInv, NEW h \in Handlers,
         (\E q \in Queues : FindContext(h, q)) \/ LeaveUnchanged(h)
  PROVE  DecisionInv'
<1>1. UNCHANGED <<life, ctl, timer, queued, timeout, infer, slot, switch>>
  BY DEF FindContext, LeaveUnchanged, context
<1>2. reader[h].at \in {"out", "found"}
  BY DEF FindContext, LeaveUnchanged
<1>3. \A g \in Handlers : g # h => reader'[g] = reader[g]
  BY DEF FindContext, LeaveUnchanged, Leave, QueuesInv, QueuesTypeOK
<1>4. \A p \in Queues : Arming(p) => Arming(p)'
  BY <1>2, <1>3, ThrottleQueuesAssumption DEF Arming, QueuesInv, ReadersHold
<1>5. Subsides
  BY <1>1 DEF Subsides
<1>6. ASSUME NEW p \in Queues, Resolves(p)
      PROVE  Resolves(p)'
  <2>1. Late(p)' = Late(p) /\ ModelEnds(p)' = ModelEnds(p)
    BY <1>1 DEF Late, ModelEnds, Carries
  <2>2. FixedEnds(p) => FixedEnds(p)'
    BY <1>1, <1>4 DEF FixedEnds, Carries
  <2> QED BY <1>1, <1>6, <2>1, <2>2, Undisturbed
<1> QED BY <1>1, <1>5, <1>6, StepDecides

(* The switch is on, so no writer is cancelling: the decision that starts  *)
(* has its handler, or waits for the dispatcher.                           *)
LEMMA StartInferenceDecides ==
  ASSUME QueuesInv, DecisionInv, NEW h \in Handlers, NEW source \in {"FIXED", "MODEL"},
         StartInference(h, source)
  PROVE  DecisionInv'
<1> DEFINE q == reader[h].q
<1>1. q \in Queues
  BY ReadersQueue DEF StartInference
<1>2. /\ throttle_enabled /\ reader[h].at = "found"
      /\ UNCHANGED <<life, timer, queued, timeout, infer, slot, switch>>
  BY DEF StartInference, CanStart
<1>3. /\ \A p \in Queues \ {q} : ctl'[p] = ctl[p]
      /\ ~ctl'[q].timed_out /\ ~ctl'[q].running /\ ctl'[q].source = source
      /\ ctl'[q].has_state = (source = "FIXED")
  BY <1>1 DEF StartInference, QueuesInv, QueuesTypeOK
<1>4. OneWriter'
  BY <1>2 DEF DecisionInv, OneWriter, switch
<1>5. ResetSettled'
  <2> SUFFICES ASSUME ~crossed', NEW a \in Admins, NEW p \in Queues, admin'[a].q = p
               PROVE  ~ctl'[p].pending
    BY DEF ResetSettled
  <2>1. admin[a].at \in {"timer", "inference", "timeout"} /\ ~crossed /\ admin[a].q = p
    BY <1>2, ThrottleQueuesAssumption DEF QueuesInv, WalkHolds, switch
  <2> QED BY <1>2, <2>1 DEF DecisionInv, OneWriter
<1>6. NewUndecided'
  <2>1. life[q] \in {"live", "sync"}
    BY <1>1 DEF QueuesInv, ReadersHold
  <2> QED BY <1>2, <1>3, <2>1 DEF DecisionInv, NewUndecided
<1>7. FixedReady'
  BY <1>3 DEF DecisionInv, FixedReady
<1>8. Resolved'
  <2> SUFFICES ASSUME ~crossed', NEW p \in Queues, life'[p] = "live", ctl'[p].pending
               PROVE  Resolves(p)'
    BY DEF Resolved, Active
  <2>1. CASE p = q /\ source = "FIXED"
    <3>1. MoveHandler(h, "timer")
      BY <2>1 DEF StartInference
    <3>2. reader'[h].at = "timer" /\ reader'[h].q = p
      BY <2>1, <3>1, HandlerMoves DEF QueuesInv
    <3> QED BY <1>3, <2>1, <3>2 DEF Resolves, FixedEnds, Arming
  <2>2. CASE p = q /\ source = "MODEL"
    BY <1>3, <2>2 DEF Resolves, ModelEnds
  <2>3. CASE p # q
    <3>1. Resolves(p) /\ ctl'[p] = ctl[p]
      BY <1>2, <1>3, <2>3 DEF DecisionInv, Resolved, Active, switch
    <3>2. Late(p)' = Late(p) /\ ModelEnds(p)' = ModelEnds(p)
      BY <1>2, <3>1 DEF Late, ModelEnds, Carries
    <3>3. Arming(p) => Arming(p)'
      <4>1. \A g \in Handlers : g # h => reader'[g] = reader[g]
        BY HandlerMoves, HandlerLeaves DEF StartInference, QueuesInv
      <4> QED BY <1>2, <4>1 DEF Arming
    <3>4. FixedEnds(p) => FixedEnds(p)'
      BY <1>2, <3>1, <3>3 DEF FixedEnds, Carries
    <3> QED BY <3>1, <3>2, <3>4, Undisturbed
  <2> QED BY <2>1, <2>2, <2>3
<1> QED BY <1>4, <1>5, <1>6, <1>7, <1>8 DEF DecisionInv

(* schedule_inference, up to its last step, which falls back.              *)
LEMMA ScheduleDecides ==
  ASSUME QueuesInv, DecisionInv, NEW h \in Handlers,
         ArmTimer(h) \/ QueueInference(h) \/ QueueingFailed(h)
  PROVE  DecisionInv'
<1> DEFINE q == reader[h].q
<1>1. q \in Queues
  BY ReadersQueue DEF ArmTimer, QueueInference, QueueingFailed
<1>2. UNCHANGED <<life, timeout, infer, slot, switch>>
  BY DEF ArmTimer, QueueInference, QueueingFailed
<1>3. \A p \in Queues : timer'[p].queueing = timer[p].queueing
  <2>1. UNCHANGED timer \/ Arm(q) \/ Disarm(q)
    BY DEF ArmTimer, QueueInference, QueueingFailed
  <2> QED BY <1>1, <2>1, ArmedOnly DEF QueuesInv
<1>4. \A p \in Queues : queued[p] \subseteq queued'[p]
  BY <1>1 DEF ArmTimer, QueueInference, QueueingFailed, QueuesInv, QueuesTypeOK
<1>5. UNCHANGED ctl \/ (Fallback(q) /\ reader[h].at = "give_up")
  BY DEF ArmTimer, QueueInference, QueueingFailed
<1>6. /\ ~ctl'[q].pending \/ UNCHANGED ctl
      /\ \A p \in Queues \ {q} : ctl'[p] = ctl[p]
  BY <1>1, <1>5, FallbackEnds DEF QueuesInv
<1>7. Subsides
  BY <1>6 DEF Subsides
<1>8. \/ \E at \in {"timer", "work", "cancel", "give_up"} : MoveHandler(h, at)
      \/ Leave(h) /\ ("inference" \in queued'[q] \/ ~ctl'[q].pending)
  <2>1. CASE ArmTimer(h) \/ QueueInference(h)
    BY <1>1, <2>1 DEF ArmTimer, QueueInference, QueuesInv, QueuesTypeOK
  <2>2. CASE QueueingFailed(h)
    BY <1>1, <2>2, FallbackEnds DEF QueueingFailed, QueuesInv
  <2> QED BY <2>1, <2>2
<1>9. ASSUME NEW p \in Queues, Resolves(p), ctl'[p].pending
      PROVE  Resolves(p)'
  <2>1. ctl'[p] = ctl[p]
    BY <1>6, <1>9
  <2>2. Late(p) => Late(p)'
    BY <1>2, <1>3, <1>4 DEF Late
  <2>3. ModelEnds(p) => ModelEnds(p)'
    BY <1>2, <2>1 DEF ModelEnds, Carries
  <2>4. Arming(p) => Arming(p)' \/ "inference" \in queued'[p]
    <3>1. CASE Leave(h)
      <4>1. \A g \in Handlers : g # h => reader'[g] = reader[g]
        BY <3>1, HandlerLeaves DEF QueuesInv
      <4>2. q = p => "inference" \in queued'[p]
        <5>1. CASE \E at \in {"timer", "work", "cancel", "give_up"} : MoveHandler(h, at)
          <6>1. reader'[h].at # "out"
            BY <5>1, HandlerMoves DEF QueuesInv
          <6> QED BY <3>1, <6>1, HandlerLeaves DEF QueuesInv, Out
        <5> QED BY <1>8, <1>9, <5>1
      <4> QED BY <4>1, <4>2 DEF Arming
    <3>2. CASE \E at \in {"timer", "work", "cancel", "give_up"} : MoveHandler(h, at)
      <4>1. /\ reader'[h].q = reader[h].q /\ reader'[h].at # "found"
            /\ \A g \in Handlers : g # h => reader'[g] = reader[g]
        BY <3>2, HandlerMoves DEF QueuesInv
      <4> QED BY <4>1 DEF Arming
    <3> QED BY <1>8, <3>1, <3>2
  <2>5. FixedEnds(p) => FixedEnds(p)'
    BY <1>2, <1>4, <2>1, <2>4 DEF FixedEnds, Carries
  <2> QED BY <1>9, <2>1, <2>2, <2>3, <2>5, Undisturbed
<1> QED BY <1>2, <1>7, <1>9, StepDecides

-----------------------------------------------------------------------------
(* The dispatcher, the timer and timeout_work.                             *)

LEMMA DispatchModelDecides ==
  ASSUME QueuesInv, DecisionInv, NEW q \in Queues, DispatchModel(q)
  PROVE  DecisionInv'
<1>1. UNCHANGED <<life, timer, queued, timeout, infer, reader, switch>>
  BY DEF DispatchModel
<1>2. /\ \A p \in Queues \ {q} : ctl'[p] = ctl[p]
      /\ \/ ~ctl'[q].pending
         \/ /\ slot' = q /\ ctl'[q].source = ctl[q].source
            /\ ctl'[q].decision = ctl[q].decision
            /\ ctl'[q].has_state = ctl[q].has_state
            /\ ctl'[q].timed_out = ctl[q].timed_out
            /\ ctl'[q].source = "MODEL" /\ ctl'[q].pending = ctl[q].pending
      /\ slot' = slot \/ (slot = None /\ slot' = q)
  <2>1. CASE Fallback(q) /\ slot' = slot
    BY <2>1, FallbackEnds DEF QueuesInv
  <2>2. CASE slot = None /\ slot' = q /\ ctl' = [ctl EXCEPT ![q].running = TRUE]
    <3> DEFINE c == [ctl[q] EXCEPT !.running = TRUE]
    <3>1. ctl[q] \in Controls /\ ctl[q].source = "MODEL"
      BY DEF QueuesInv, QueuesTypeOK, Controls, DispatchModel
    <3>2. /\ c.source = ctl[q].source /\ c.decision = ctl[q].decision
          /\ c.has_state = ctl[q].has_state /\ c.timed_out = ctl[q].timed_out
          /\ c.pending = ctl[q].pending
      BY <3>1 DEF Controls
    <3>3. ctl' = [ctl EXCEPT ![q] = c]
      BY <2>2
    <3> HIDE DEF c
    <3>4. ctl'[q] = c /\ \A p \in Queues \ {q} : ctl'[p] = ctl[p]
      BY <3>3 DEF QueuesInv, QueuesTypeOK
    <3> QED BY <2>2, <3>1, <3>2, <3>4
  <2>3. \/ Fallback(q) /\ slot' = slot
        \/ slot = None /\ slot' = q /\ ctl' = [ctl EXCEPT ![q].running = TRUE]
    BY DEF DispatchModel
  <2> QED BY <2>1, <2>2, <2>3
<1>3. Subsides
  BY <1>2 DEF Subsides, DispatchModel
<1>4. ASSUME NEW p \in Queues, Resolves(p), ctl'[p].pending
      PROVE  Resolves(p)'
  <2>1. Late(p)' = Late(p)
    BY <1>1 DEF Late
  <2>2. CASE p = q
    BY <1>2, <1>4, <2>1, <2>2 DEF Resolves, ModelEnds
  <2>3. CASE p # q
    <3>1. ctl'[p] = ctl[p] /\ (slot = p => slot' = p)
      BY <1>2, <2>3, ThrottleQueuesAssumption
    <3>2. ModelEnds(p) => ModelEnds(p)'
      BY <1>1, <3>1 DEF ModelEnds, Carries
    <3>3. FixedEnds(p) => FixedEnds(p)'
      BY <1>1, <3>1 DEF FixedEnds, Arming, Carries
    <3> QED BY <1>4, <2>1, <3>1, <3>2, <3>3, Undisturbed
  <2> QED BY <2>2, <2>3
<1> QED BY <1>1, <1>3, <1>4, StepDecides

LEMMA TimerFiresDecides ==
  ASSUME QueuesInv, DecisionInv, NEW q \in Queues, TimerFires(q)
  PROVE  DecisionInv'
<1>1. UNCHANGED <<life, queued, timeout, infer, slot, reader, switch>>
  BY DEF TimerFires, others
<1> DEFINE late == ctl[q].pending /\ ~Dying(q)
<1>2. /\ \A p \in Queues \ {q} : ctl'[p] = ctl[p] /\ timer'[p] = timer[p]
      /\ timer'[q].queueing = late /\ ~timer[q].queueing
      /\ late => ctl'[q].timed_out
      /\ ctl'[q].source = ctl[q].source /\ ctl'[q].decision = ctl[q].decision
      /\ ctl'[q].has_state = ctl[q].has_state /\ ctl'[q].pending = ctl[q].pending
  <2>1. /\ \A p \in Queues \ {q} : timer'[p] = timer[p]
        /\ timer'[q].queueing = late /\ ~timer[q].queueing
    BY DEF TimerFires, QueuesInv, QueuesTypeOK
  <2>2. ctl' = IF late THEN [ctl EXCEPT ![q].timed_out = TRUE] ELSE ctl
    BY DEF TimerFires
  <2>3. /\ \A p \in Queues \ {q} : ctl'[p] = ctl[p]
        /\ late => ctl'[q].timed_out
        /\ ctl'[q].source = ctl[q].source /\ ctl'[q].decision = ctl[q].decision
        /\ ctl'[q].has_state = ctl[q].has_state /\ ctl'[q].pending = ctl[q].pending
    BY <2>2 DEF QueuesInv, QueuesTypeOK
  <2> QED BY <2>1, <2>3
<1>3. Subsides
  BY <1>2 DEF Subsides
<1>4. ASSUME NEW p \in Queues, life[p] = "live", Resolves(p), ctl'[p].pending
      PROVE  Resolves(p)'
  <2>1. CASE p = q
    <3>1. late
      BY <1>2, <1>4, <2>1 DEF Dying, ExitSteps
    <3> QED BY <1>2, <2>1, <3>1 DEF Resolves, Late
  <2>2. CASE p # q
    <3>1. ctl'[p] = ctl[p] /\ timer'[p] = timer[p]
      BY <1>2, <2>2
    <3>2. Late(p)' = Late(p) /\ ModelEnds(p)' = ModelEnds(p) /\ FixedEnds(p)' = FixedEnds(p)
      BY <1>1, <3>1 DEF Late, ModelEnds, FixedEnds, Arming, Carries
    <3> QED BY <1>4, <3>1, <3>2, Undisturbed
  <2> QED BY <2>1, <2>2
<1> QED BY <1>1, <1>3, <1>4, StepDecides

(* The callback queues the work, and the work starts; the model's timer is *)
(* armed.                                                                  *)
LEMMA TimeoutMovesOn ==
  ASSUME QueuesInv, DecisionInv, NEW q \in Queues,
         QueueTimeout(q) \/ TimeoutStarts(q) \/ ArmModelTimer(q)
  PROVE  DecisionInv'
<1>1. UNCHANGED <<life, ctl, infer, slot, reader, switch>>
  BY DEF QueueTimeout, TimeoutStarts, ArmModelTimer, others
<1>2. /\ \A p \in Queues : Late(p) => Late(p)'
      /\ \A p \in Queues : "inference" \in queued[p] => "inference" \in queued'[p]
  <2>1. CASE QueueTimeout(q)
    BY <2>1 DEF QueueTimeout, Late, QueuesInv, QueuesTypeOK
  <2>2. CASE TimeoutStarts(q)
    BY <2>2 DEF TimeoutStarts, Late, QueuesInv, QueuesTypeOK
  <2>3. CASE ArmModelTimer(q)
    BY <2>3, ArmedOnly DEF ArmModelTimer, Late, QueuesInv
  <2> QED BY <2>1, <2>2, <2>3
<1>3. Subsides
  BY <1>1 DEF Subsides
<1>4. ASSUME NEW p \in Queues, Resolves(p)
      PROVE  Resolves(p)'
  <2>1. ModelEnds(p)' = ModelEnds(p)
    BY <1>1 DEF ModelEnds, Carries
  <2>2. FixedEnds(p) => FixedEnds(p)'
    BY <1>1, <1>2 DEF FixedEnds, Arming, Carries
  <2> QED BY <1>1, <1>2, <1>4, <2>1, <2>2, Undisturbed
<1> QED BY <1>1, <1>3, <1>4, StepDecides

LEMMA TimeoutWorkDecides ==
  ASSUME QueuesInv, DecisionInv, NEW q \in Queues, TimeoutWork(q)
  PROVE  DecisionInv'
<1>1. UNCHANGED <<life, timer, queued, infer, slot, reader, switch>>
  BY DEF TimeoutWork, others
<1>2. /\ \A p \in Queues \ {q} : ctl'[p] = ctl[p] /\ timeout'[p] = timeout[p]
      /\ \/ ~ctl'[q].pending
         \/ ctl'[q] = ctl[q] /\ ~ctl[q].timed_out
         \/ ctl'[q] = ctl[q] /\ ~ctl[q].pending
  BY FallbackEnds DEF TimeoutWork, QueuesInv, QueuesTypeOK
<1>3. Subsides
  BY <1>2 DEF Subsides
<1>4. ASSUME NEW p \in Queues, Resolves(p), ctl'[p].pending
      PROVE  Resolves(p)'
  <2>1. ctl'[p] = ctl[p] /\ (p = q => ~ctl[p].timed_out)
    BY <1>2, <1>4
  <2>2. ModelEnds(p)' = ModelEnds(p) /\ FixedEnds(p)' = FixedEnds(p)
    BY <1>1, <2>1 DEF ModelEnds, FixedEnds, Arming, Carries
  <2>3. p # q => Late(p)' = Late(p)
    BY <1>1, <1>2 DEF Late
  <2> QED BY <1>4, <2>1, <2>2, <2>3 DEF Resolves
<1> QED BY <1>1, <1>3, <1>4, StepDecides

-----------------------------------------------------------------------------
(* inference_work and the thread.                                          *)

LEMMA WorkStartsDecides ==
  ASSUME QueuesInv, DecisionInv, NEW q \in Queues, WorkStarts(q)
  PROVE  DecisionInv'
<1>1. UNCHANGED <<life, ctl, timer, timeout, slot, reader, switch>>
  BY DEF WorkStarts
<1>2. /\ q \in Runners /\ q # Thread
      /\ infer'[q].pc = "read" /\ infer'[q].q = q /\ infer[q].pc = "idle"
      /\ \A w \in Runners : w # q => infer'[w] = infer[w]
  BY ThrottleQueuesAssumption DEF WorkStarts, QueuesInv, QueuesTypeOK, Runners
<1>3. /\ \A p \in Queues : "timeout" \in queued[p] => "timeout" \in queued'[p]
      /\ \A p \in Queues \ {q} : queued'[p] = queued[p]
  BY DEF WorkStarts, QueuesInv, QueuesTypeOK
<1>4. Subsides
  BY <1>1 DEF Subsides
<1>5. ASSUME NEW p \in Queues, Resolves(p)
      PROVE  Resolves(p)'
  <2>1. Late(p) => Late(p)'
    BY <1>1, <1>3 DEF Late
  <2>2. infer'[Thread] = infer[Thread] /\ Carries(Thread, p)' = Carries(Thread, p)
    BY <1>1, <1>2 DEF Carries, Runners
  <2>3. Carries(p, p) => Carries(p, p)'
    BY <1>1, <1>2 DEF Carries, Runners
  <2>4. Carries(q, q)'
    BY <1>2 DEF Carries
  <2>5. FixedEnds(p) => FixedEnds(p)'
    BY <1>1, <1>3, <2>2, <2>3, <2>4 DEF FixedEnds, Arming
  <2>6. ModelEnds(p) => ModelEnds(p)'
    BY <1>1, <2>2, <2>3 DEF ModelEnds
  <2> QED BY <1>1, <1>5, <2>1, <2>5, <2>6, Undisturbed
<1> QED BY <1>1, <1>4, <1>5, StepDecides

(* A runner leaves the decisions of other contexts to whoever has them.    *)
LEMMA OthersCarried ==
  ASSUME QueuesInv, NEW w \in Runners, infer[w].pc \in {"read", "apply", "cancel"},
         NEW p \in Queues, infer[w].q # p,
         infer'[w].q = infer[w].q \/ infer'[w] = Asleep,
         \A x \in Runners : x # w => infer'[x] = infer[x],
         ctl'[p] = ctl[p], UNCHANGED <<timer, queued, timeout, slot, reader>>,
         Resolves(p)
  PROVE  Resolves(p)'
<1>1. ~Carries(w, p)
  BY DEF Carries
<1>2. p \in Runners /\ Thread \in Runners
  BY DEF Runners
<1>3. /\ Carries(p, p) => Carries(p, p)'
      /\ Carries(Thread, p) => Carries(Thread, p)'
  BY <1>1, <1>2 DEF Carries
<1>4. infer[Thread].q = p => infer'[Thread] = infer[Thread]
  BY <1>2
<1>5. Late(p)' = Late(p) /\ (FixedEnds(p) => FixedEnds(p)') /\ (ModelEnds(p) => ModelEnds(p)')
  BY <1>3, <1>4 DEF Late, FixedEnds, ModelEnds, Arming
<1> QED BY <1>5, Undisturbed

(* The runner that stops, or never carried the decision, leaves it.        *)
LEMMA RunnerLeaves ==
  ASSUME QueuesInv, NEW w \in Runners, infer[w].pc \in {"read", "apply", "cancel"},
         NEW p \in Queues, ~Carries(w, p),
         \A x \in Runners : x # w => infer'[x] = infer[x],
         UNCHANGED <<ctl, queued, timeout, slot, reader>>,
         timer'[p].queueing = timer[p].queueing,
         Resolves(p)
  PROVE  Resolves(p)'
<1>1. p \in Runners /\ Thread \in Runners
  BY DEF Runners
<1>2. /\ Carries(p, p) => Carries(p, p)'
      /\ Carries(Thread, p) => Carries(Thread, p)'
  BY <1>1 DEF Carries
<1>3. infer[Thread].pc = "snapshot" => infer'[Thread] = infer[Thread]
  BY <1>1
<1>4. Late(p)' = Late(p) /\ (FixedEnds(p) => FixedEnds(p)') /\ (ModelEnds(p) => ModelEnds(p)')
  BY <1>2, <1>3 DEF Late, FixedEnds, ModelEnds, Arming
<1> QED BY <1>4, Undisturbed

LEMMA StoppedResolves ==
  ASSUME QueuesInv, NEW p \in Queues, Resolves(p),
         ~ctl'[p].running, ctl'[p].timed_out = ctl[p].timed_out,
         ctl'[p].source = ctl[p].source,
         ctl[p].timed_out \/ ctl[p].source = "MODEL" \/ FixedEnds(p)',
         UNCHANGED <<timer, queued, timeout>>
  PROVE  Resolves(p)'
<1>1. ctl[p].source \in {"FIXED", "MODEL"}
  BY DEF QueuesInv, QueuesTypeOK
<1> QED BY <1>1 DEF Resolves, Late, ModelEnds

LEMMA ReadDecisionDecides ==
  ASSUME QueuesInv, DecisionInv, NEW w \in Runners, ReadDecision(w)
  PROVE  DecisionInv'
<1> DEFINE q == infer[w].q
<1>1. q \in Queues /\ infer[w].pc = "read"
  BY RunnersQueue DEF ReadDecision
<1>2. UNCHANGED <<life, timer, queued, timeout, slot, reader, switch>>
  BY DEF ReadDecision
<1>3. CASE Wanted(q) /\ ctl[q].has_state
  <2> DEFINE i == [[infer[w] EXCEPT !.pc = "apply"] EXCEPT !.decision = ctl[q].decision]
  <2>1. infer[w] \in Inferences
    BY DEF QueuesInv, QueuesTypeOK, Inferences
  <2>2. i.pc = "apply" /\ i.q = q /\ i.decision = ctl[q].decision
    BY <2>1 DEF Inferences
  <2>3. infer' = [infer EXCEPT ![w] = i] /\ UNCHANGED ctl
    BY <1>3 DEF ReadDecision, QueuesInv, QueuesTypeOK
  <2> HIDE DEF i
  <2>4. infer'[w] = i /\ \A x \in Runners : x # w => infer'[x] = infer[x]
    BY <2>3 DEF QueuesInv, QueuesTypeOK
  <2>5. Subsides
    BY <2>3 DEF Subsides
  <2>6. ASSUME NEW p \in Queues, Resolves(p)
        PROVE  Resolves(p)'
    <3>1. p \in Runners /\ Thread \in Runners
      BY DEF Runners
    <3>2. /\ Carries(p, p) => Carries(p, p)'
          /\ Carries(Thread, p) => Carries(Thread, p)'
      BY <2>2, <2>3, <2>4, <3>1 DEF Carries
    <3>3. infer[Thread].pc = "snapshot" => infer'[Thread] = infer[Thread]
      BY <1>1, <2>4, <3>1
    <3>4. Late(p)' = Late(p) /\ (FixedEnds(p) => FixedEnds(p)')
          /\ (ModelEnds(p) => ModelEnds(p)')
      BY <1>2, <2>3, <3>2, <3>3 DEF Late, FixedEnds, ModelEnds, Arming
    <3> QED BY <2>3, <2>6, <3>4, Undisturbed
  <2> QED BY <1>2, <2>5, <2>6, StepDecides
<1>4. CASE ~(Wanted(q) /\ ctl[q].has_state)
  <2>1. StopRunning(q) /\ Finish(w)
    BY <1>4 DEF ReadDecision
  <2>2. /\ infer'[w].q = q \/ infer'[w] = Asleep
        /\ \A x \in Runners : x # w => infer'[x] = infer[x]
    BY <2>1, RunnerFinishes DEF QueuesInv
  <2>3. Subsides
    BY <1>1, <2>1, StopEnds DEF Subsides, QueuesInv
  <2>4. ASSUME NEW p \in Queues, life[p] = "live", Resolves(p), ctl'[p].pending
        PROVE  Resolves(p)'
    <3>1. CASE p # q
      BY <1>1, <1>2, <2>1, <2>2, <2>4, <3>1, StopEnds, OthersCarried DEF QueuesInv
    <3>2. CASE p = q
      <4>1. ctl[q].pending /\ ~Dying(q)
        BY <2>3, <2>4, <3>2 DEF Subsides, Dying, ExitSteps
      <4>2. ctl[q].timed_out \/ ~ctl[q].has_state
        BY <1>4, <4>1 DEF Wanted
      <4>3. ctl[q].timed_out \/ ctl[q].source = "MODEL"
        BY <1>1, <4>1, <4>2 DEF DecisionInv, FixedReady, QueuesInv, QueuesTypeOK
      <4> QED
        BY <1>1, <1>2, <2>1, <2>4, <3>2, <4>3, StopEnds, StoppedResolves DEF QueuesInv
    <3> QED BY <3>1, <3>2
  <2> QED BY <1>2, <2>3, <2>4, StepDecides
<1> QED BY <1>3, <1>4

LEMMA ApplyDecisionDecides ==
  ASSUME QueuesInv, DecisionInv, NEW w \in Runners, ApplyDecision(w)
  PROVE  DecisionInv'
<1> DEFINE q == infer[w].q
<1>1. q \in Queues /\ infer[w].pc = "apply"
  BY RunnersQueue DEF ApplyDecision
<1>2. UNCHANGED <<life, timer, queued, timeout, slot, reader, switch>>
  BY DEF ApplyDecision
<1>3. /\ infer'[w].q = q \/ infer'[w] = Asleep
      /\ \A x \in Runners : x # w => infer'[x] = infer[x]
  BY RunnerFinishes, RunnerMoves DEF ApplyDecision, QueuesInv
<1>4. \/ ~ctl'[q].pending /\ \A p \in Queues : p # q => ctl'[p] = ctl[p]
      \/ /\ ~(Wanted(q) /\ infer[w].decision = ctl[q].decision)
         /\ StopRunning(q) \/ UNCHANGED ctl
  <2>1. CASE ctl' = [ctl EXCEPT ![q].pending = FALSE, ![q].running = FALSE]
    BY <1>1, <2>1 DEF QueuesInv, QueuesTypeOK
  <2>2. CASE Fallback(q)
    BY <1>1, <2>2, FallbackEnds DEF QueuesInv
  <2> QED BY <2>1, <2>2 DEF ApplyDecision
<1>5. Subsides
  BY <1>1, <1>4, StopEnds DEF Subsides, QueuesInv
<1>6. ASSUME NEW p \in Queues, life[p] = "live", Resolves(p), ctl'[p].pending
      PROVE  Resolves(p)'
  <2>1. CASE p # q
    <3>1. ctl'[p] = ctl[p]
      BY <1>1, <1>4, <2>1, StopEnds DEF QueuesInv
    <3> QED BY <1>1, <1>2, <1>3, <1>6, <2>1, <3>1, OthersCarried
  <2>2. CASE p = q
    <3>1. /\ ~(Wanted(q) /\ infer[w].decision = ctl[q].decision)
          /\ StopRunning(q) \/ UNCHANGED ctl
      BY <1>4, <1>6, <2>2
    <3>2. ctl[q].timed_out \/ ~Carries(w, q)
      BY <1>1, <1>5, <1>6, <2>2, <3>1 DEF Subsides, Dying, ExitSteps, Wanted, Carries
    <3>3. CASE UNCHANGED ctl
      <4>1. CASE ctl[q].timed_out
        BY <1>2, <1>6, <2>2, <3>3, <4>1 DEF Resolves, Late
      <4>2. CASE ~Carries(w, q)
        BY <1>1, <1>2, <1>3, <1>6, <2>2, <3>3, <4>2, RunnerLeaves
      <4> QED BY <3>2, <4>1, <4>2
    <3>4. CASE StopRunning(q)
      <4>1. /\ ~ctl'[q].running /\ ctl'[q].timed_out = ctl[q].timed_out
            /\ ctl'[q].source = ctl[q].source /\ ctl'[q].decision = ctl[q].decision
        BY <1>1, <3>4, StopEnds DEF QueuesInv
      <4>2. ~ctl[p].timed_out /\ ctl[p].source # "MODEL" => FixedEnds(p)'
        <5> SUFFICES ASSUME ~ctl[p].timed_out, ctl[p].source # "MODEL"
                     PROVE  FixedEnds(p)'
          OBVIOUS
        <5>1. FixedEnds(p) /\ ~Carries(w, p)
          BY <1>1, <1>6, <2>2, <3>2 DEF Resolves, QueuesInv, QueuesTypeOK
        <5>2. p \in Runners /\ Thread \in Runners
          BY DEF Runners
        <5>3. /\ Carries(p, p) => Carries(p, p)'
              /\ Carries(Thread, p) => Carries(Thread, p)'
          BY <1>3, <2>2, <4>1, <5>1, <5>2 DEF Carries
        <5> QED BY <1>2, <5>1, <5>3 DEF FixedEnds, Arming
      <4> QED BY <1>1, <1>2, <1>6, <2>2, <4>1, <4>2, StoppedResolves
    <3> QED BY <3>1, <3>3, <3>4
  <2> QED BY <2>1, <2>2
<1> QED BY <1>2, <1>5, <1>6, StepDecides

LEMMA CancelTimerDecides ==
  ASSUME QueuesInv, DecisionInv, NEW w \in Runners, CancelTimer(w)
  PROVE  DecisionInv'
<1>1. infer[w].q \in Queues /\ infer[w].pc = "cancel"
  BY RunnersQueue DEF CancelTimer
<1>2. UNCHANGED <<life, ctl, queued, timeout, slot, reader, switch>>
  BY DEF CancelTimer
<1>3. \A p \in Queues : timer'[p].queueing = timer[p].queueing
  BY <1>1, ArmedOnly DEF CancelTimer, QueuesInv
<1>4. \A x \in Runners : x # w => infer'[x] = infer[x]
  BY RunnerFinishes DEF CancelTimer, QueuesInv
<1>5. \A p \in Queues : ~Carries(w, p)
  BY <1>1 DEF Carries
<1>6. Subsides
  BY <1>2 DEF Subsides
<1> QED BY <1>1, <1>2, <1>3, <1>4, <1>5, <1>6, RunnerLeaves, StepDecides

LEMMA ThreadPicksUpDecides ==
  ASSUME QueuesInv, DecisionInv, ThreadPicksUp
  PROVE  DecisionInv'
<1>1. UNCHANGED <<life, ctl, timer, queued, timeout, reader, switch>>
  BY DEF ThreadPicksUp, context
<1>2. /\ infer'[Thread].pc = "snapshot" /\ infer'[Thread].q = slot
      /\ infer[Thread].pc = "idle"
      /\ \A w \in Queues : infer'[w] = infer[w]
  BY ThrottleQueuesAssumption DEF ThreadPicksUp, QueuesInv, QueuesTypeOK, Runners
<1>3. Subsides
  BY <1>1 DEF Subsides
<1>4. ASSUME NEW p \in Queues, Resolves(p)
      PROVE  Resolves(p)'
  <2>1. ~Carries(Thread, p) /\ Carries(p, p)' = Carries(p, p)
    BY <1>1, <1>2 DEF Carries
  <2>2. Late(p)' = Late(p) /\ (FixedEnds(p) => FixedEnds(p)') /\ (ModelEnds(p) => ModelEnds(p)')
    BY <1>1, <1>2, <2>1 DEF Late, FixedEnds, ModelEnds, Arming
  <2> QED BY <1>1, <1>4, <2>2, Undisturbed
<1> QED BY <1>1, <1>3, <1>4, StepDecides

LEMMA ThreadSnapshotsDecides ==
  ASSUME QueuesInv, DecisionInv, ThreadSnapshots
  PROVE  DecisionInv'
<1> DEFINE q == infer[Thread].q
<1>1. Thread \in Runners /\ infer[Thread].pc = "snapshot"
  BY DEF Runners, ThreadSnapshots
<1>2. q \in Queues
  BY <1>1, RunnersQueue
<1>3. UNCHANGED <<life, timer, queued, timeout, slot, reader, switch>>
  BY DEF ThreadSnapshots
<1>4. /\ infer'[Thread].q = q /\ \A x \in Queues : infer'[x] = infer[x]
      /\ infer'[Thread].pc \in {"read", "cancel", "complete"}
  <2>1. \E pc \in {"read", "cancel", "complete"} : Goto(Thread, pc)
    BY DEF ThreadSnapshots
  <2> QED BY <1>1, <2>1, RunnerMoves, ThrottleQueuesAssumption DEF QueuesInv, Runners
<1>5. /\ \A p \in Queues : p # q => ctl'[p] = ctl[p]
      /\ \/ ~ctl'[q].pending
         \/ /\ ctl'[q].timed_out = ctl[q].timed_out /\ ctl'[q].source = ctl[q].source
            /\ ctl'[q].decision = ctl[q].decision /\ ctl'[q].pending = ctl[q].pending
            /\ ctl[q].has_state => ctl'[q].has_state
            /\ \/ infer'[Thread].pc = "read"
               \/ ~ctl'[q].running
  <2>1. CASE ctl' = [ctl EXCEPT ![q].has_state = TRUE] /\ Goto(Thread, "read")
    <3> DEFINE c == [ctl[q] EXCEPT !.has_state = TRUE]
    <3>1. ctl[q] \in Controls
      BY <1>2 DEF QueuesInv, QueuesTypeOK, Controls
    <3>2. /\ c.source = ctl[q].source /\ c.decision = ctl[q].decision
          /\ c.has_state /\ c.timed_out = ctl[q].timed_out
          /\ c.pending = ctl[q].pending
      BY <3>1 DEF Controls
    <3>3. ctl' = [ctl EXCEPT ![q] = c]
      BY <2>1
    <3> HIDE DEF c
    <3>4. ctl'[q] = c /\ \A p \in Queues : p # q => ctl'[p] = ctl[p]
      BY <1>2, <3>3 DEF QueuesInv, QueuesTypeOK
    <3>5. infer'[Thread].pc = "read"
      BY <1>1, <2>1, RunnerMoves DEF QueuesInv
    <3> QED BY <3>2, <3>4, <3>5
  <2>2. CASE Fallback(q)
    BY <1>2, <2>2, FallbackEnds DEF QueuesInv
  <2>3. CASE StopRunning(q)
    BY <1>2, <2>3, StopEnds DEF QueuesInv
  <2> QED BY <2>1, <2>2, <2>3 DEF ThreadSnapshots
<1>6. Subsides
  BY <1>5 DEF Subsides
<1>7. ASSUME NEW p \in Queues, Resolves(p), ctl'[p].pending
      PROVE  Resolves(p)'
  <2>1. ~Carries(Thread, p)
    BY <1>1 DEF Carries
  <2>2. ctl'[p].decision = ctl[p].decision
    BY <1>6, <1>7 DEF Subsides
  <2>3. Carries(p, p)' = Carries(p, p)
    BY <1>4, <2>2 DEF Carries
  <2>4. Late(p)' = Late(p) /\ (FixedEnds(p) => FixedEnds(p)')
    BY <1>3, <2>1, <2>3 DEF Late, FixedEnds, Arming
  <2>5. ModelEnds(p) => ModelEnds(p)'
    <3>1. CASE p # q
      BY <1>3, <1>5, <2>1, <2>3, <3>1 DEF ModelEnds
    <3>2. CASE p = q /\ infer'[Thread].pc = "read"
      BY <1>4, <3>2 DEF ModelEnds, Carries
    <3>3. CASE p = q /\ ~ctl'[q].running
      BY <3>3 DEF ModelEnds
    <3> QED BY <1>5, <1>7, <3>1, <3>2, <3>3
  <2> QED BY <1>5, <1>7, <2>4, <2>5 DEF Resolves
<1> QED BY <1>3, <1>6, <1>7, StepDecides

LEMMA ThreadEndsDecides ==
  ASSUME QueuesInv, DecisionInv, ThreadCompletes \/ ThreadClears
  PROVE  DecisionInv'
<1>1. UNCHANGED <<life, ctl, timer, queued, timeout, slot, reader, switch>>
  BY DEF ThreadCompletes, ThreadClears, context
<1>2. /\ infer[Thread].pc \in {"complete", "clear"}
      /\ \A w \in Queues : infer'[w] = infer[w]
  BY ThrottleQueuesAssumption
     DEF ThreadCompletes, ThreadClears, Goto, QueuesInv, QueuesTypeOK, Runners
<1>3. Subsides
  BY <1>1 DEF Subsides
<1>4. ASSUME NEW p \in Queues, Resolves(p)
      PROVE  Resolves(p)'
  <2>1. ~Carries(Thread, p) /\ Carries(p, p)' = Carries(p, p)
    BY <1>1, <1>2 DEF Carries
  <2>2. Late(p)' = Late(p) /\ (FixedEnds(p) => FixedEnds(p)') /\ (ModelEnds(p) => ModelEnds(p)')
    BY <1>1, <1>2, <2>1 DEF Late, FixedEnds, ModelEnds, Arming
  <2> QED BY <1>1, <1>4, <2>2, Undisturbed
<1> QED BY <1>1, <1>3, <1>4, StepDecides

-----------------------------------------------------------------------------
(* set_enabled.                                                            *)

(* A step of a writer that leaves what resolves decisions alone.           *)
LEMMA WriterDecides ==
  ASSUME QueuesInv, DecisionInv,
         OneWriter', ResetSettled', ~crossed' => ~crossed,
         UNCHANGED <<life, ctl, timer, queued, timeout, infer, slot, reader>>
  PROVE  DecisionInv'
<1>1. NewUndecided' /\ FixedReady'
  BY DEF DecisionInv, NewUndecided, FixedReady
<1>2. Resolved'
  BY DEF DecisionInv, Resolved, Active, Resolves, Late, FixedEnds, ModelEnds,
         Arming, Carries
<1> QED BY <1>1, <1>2 DEF DecisionInv

(* A writer that goes from one step past the clearing to another.          *)
LEMMA OneWriterStays ==
  ASSUME QueuesInv, DecisionInv, NEW a \in Admins,
         \A b \in Admins : b # a => admin'[b] = admin[b],
         admin[a].at # "out", admin[a].at # "clear" \/ ~throttle_enabled',
         UNCHANGED crossed,
         \/ ~throttle_enabled'
         \/ throttle_enabled' = throttle_enabled
         \/ admin'[a].at = "out"
  PROVE  OneWriter'
<1> SUFFICES ASSUME ~crossed
             PROVE  /\ \A b, c \in Admins : admin'[b].at # "out" /\ admin'[c].at # "out" => b = c
                    /\ \A b \in Admins : admin'[b].at \notin {"out", "clear"} => ~throttle_enabled'
  BY DEF OneWriter
<1>1. \A b \in Admins : b # a => admin'[b].at = "out"
  BY DEF DecisionInv, OneWriter
<1>2. admin[a].at # "clear" => ~throttle_enabled
  BY DEF DecisionInv, OneWriter
<1> QED BY <1>1, <1>2

LEMMA CallSetEnabledDecides ==
  ASSUME QueuesInv, DecisionInv, NEW a \in Admins, NEW on \in BOOLEAN, CallSetEnabled(a, on)
  PROVE  DecisionInv'
<1>1. /\ UNCHANGED <<life, ctl, timer, queued, timeout, infer, slot, reader, throttle_enabled>>
      /\ crossed' = (crossed \/ \E b \in Admins : admin[b].at # "out")
  BY DEF CallSetEnabled, context, others
<1>2. /\ admin'[a].at = "clear" /\ admin'[a].q = None
      /\ \A b \in Admins : b # a => admin'[b] = admin[b]
  BY DEF CallSetEnabled, NotSwitching, QueuesInv, QueuesTypeOK
<1>3. ~crossed' => ~crossed /\ \A b \in Admins : admin[b].at = "out"
  BY <1>1 DEF QueuesInv, QueuesTypeOK
<1>4. OneWriter'
  BY <1>2, <1>3 DEF OneWriter
<1>5. ResetSettled'
  BY <1>1, <1>2, <1>3, ThrottleQueuesAssumption DEF DecisionInv, ResetSettled
<1> QED BY <1>1, <1>3, <1>4, <1>5, WriterDecides

LEMMA PlainWriterDecides ==
  ASSUME QueuesInv, DecisionInv, NEW a \in Admins,
         ClearSwitch(a) \/ LockList(a) \/ UnlockList(a) \/ SetSwitch(a)
  PROVE  DecisionInv'
<1>1. UNCHANGED <<life, ctl, timer, queued, timeout, infer, slot, reader, crossed>>
  BY DEF ClearSwitch, LockList, UnlockList, SetSwitch, context, others
<1>2. /\ \A b \in Admins : b # a => admin'[b] = admin[b]
      /\ admin'[a].q \in {admin[a].q, None}
  <2>1. CASE LockList(a)
    <3> DEFINE s == [[admin[a] EXCEPT !.at = "walk"] EXCEPT !.todo = Active]
    <3>1. admin[a] \in Switchings
      BY DEF QueuesInv, QueuesTypeOK, Switchings
    <3>2. s.q = admin[a].q
      BY <3>1 DEF Switchings
    <3>3. admin' = [admin EXCEPT ![a] = s]
      BY <2>1 DEF LockList, QueuesInv, QueuesTypeOK
    <3> HIDE DEF s
    <3> QED BY <3>2, <3>3 DEF QueuesInv, QueuesTypeOK
  <2>2. CASE (\E at \in {"lock", "set"} : Switching(a, at))
             \/ admin' = [admin EXCEPT ![a] = NotSwitching]
    BY <2>2, WriterMoves DEF NotSwitching, QueuesInv, QueuesTypeOK
  <2> QED BY <2>1, <2>2 DEF ClearSwitch, UnlockList, SetSwitch
<1>3. OneWriter'
  <2>1. CASE ClearSwitch(a) \/ LockList(a) \/ UnlockList(a)
    <3>1. /\ admin[a].at # "out"
          /\ admin[a].at # "clear" \/ ~throttle_enabled'
          /\ ~throttle_enabled' \/ throttle_enabled' = throttle_enabled
      BY <2>1 DEF ClearSwitch, LockList, UnlockList
    <3> QED BY <1>1, <1>2, <3>1, OneWriterStays
  <2>2. CASE SetSwitch(a)
    <3>1. admin[a].at = "set" /\ admin'[a].at = "out"
      BY <2>2 DEF SetSwitch, NotSwitching, QueuesInv, QueuesTypeOK
    <3> QED BY <1>1, <1>2, <3>1, OneWriterStays
  <2> QED BY <2>1, <2>2
<1>4. ResetSettled'
  BY <1>1, <1>2, ThrottleQueuesAssumption DEF DecisionInv, ResetSettled
<1> QED BY <1>1, <1>3, <1>4, WriterDecides

(* The reset falls back before it cancels ...                              *)
LEMMA ResetContextDecides ==
  ASSUME QueuesInv, DecisionInv, NEW a \in Admins, NEW q \in Queues, ResetContext(a, q)
  PROVE  DecisionInv'
<1>1. /\ UNCHANGED <<life, timer, queued, timeout, infer, slot, reader, crossed, throttle_enabled>>
      /\ admin[a].at = "walk"
  BY DEF ResetContext, others
<1>2. ~ctl'[q].pending /\ \A p \in Queues : p # q => ctl'[p] = ctl[p]
  BY FallbackEnds DEF ResetContext, ResetControl, QueuesInv
<1>3. admin'[a].q = q /\ \A b \in Admins : b # a => admin'[b] = admin[b]
  <2> DEFINE s == [[[admin[a] EXCEPT !.at = "timer"] EXCEPT !.q = q] EXCEPT !.todo = @ \ {q}]
  <2>1. admin[a] \in Switchings
    BY DEF QueuesInv, QueuesTypeOK, Switchings
  <2>2. s.q = q
    BY <2>1 DEF Switchings
  <2>3. admin' = [admin EXCEPT ![a] = s]
    BY DEF ResetContext, QueuesInv, QueuesTypeOK
  <2> HIDE DEF s
  <2> QED BY <2>2, <2>3 DEF QueuesInv, QueuesTypeOK
<1>4. OneWriter'
  BY <1>1, <1>3, OneWriterStays
<1>5. ResetSettled'
  BY <1>1, <1>2, <1>3 DEF DecisionInv, ResetSettled
<1>6. NewUndecided' /\ FixedReady'
  BY <1>1, <1>2 DEF DecisionInv, NewUndecided, FixedReady
<1>7. Resolved'
  <2> SUFFICES ASSUME ~crossed', NEW p \in Queues, life'[p] = "live", ctl'[p].pending
               PROVE  Resolves(p)'
    BY DEF Resolved, Active
  <2>1. ctl'[p] = ctl[p] /\ Resolves(p)
    BY <1>1, <1>2 DEF DecisionInv, Resolved, Active
  <2>2. Late(p)' = Late(p) /\ FixedEnds(p)' = FixedEnds(p) /\ ModelEnds(p)' = ModelEnds(p)
    BY <1>1, <2>1 DEF Late, FixedEnds, ModelEnds, Arming, Carries
  <2> QED BY <2>1, <2>2, Undisturbed
<1> QED BY <1>4, <1>5, <1>6, <1>7 DEF DecisionInv

(* ... so what it cancels was no decision's, while nobody else switches.   *)
LEMMA ResetCancelsDecides ==
  ASSUME QueuesInv, DecisionInv, NEW a \in Admins, ResetCancelsTimer(a) \/ ResetCancelsWorks(a)
  PROVE  DecisionInv'
<1>1. /\ UNCHANGED <<life, ctl, timeout, infer, slot, reader, crossed, throttle_enabled>>
      /\ admin[a].at \in {"timer", "inference", "timeout"}
  BY DEF ResetCancelsTimer, ResetCancelsWorks, others
<1>2. PICK q \in Queues : q = admin[a].q
  BY <1>1, WritersQueue
<1>3. /\ \A p \in Queues : timer'[p].queueing = timer[p].queueing
      /\ \A p \in Queues : p # q => queued'[p] = queued[p]
  BY <1>2, ArmedOnly DEF ResetCancelsTimer, ResetCancelsWorks, QueuesInv, QueuesTypeOK
<1>4. /\ \A b \in Admins : b # a => admin'[b] = admin[b]
      /\ admin'[a].q \in {admin[a].q, None}
  <2>1. CASE \E at \in {"inference", "timeout"} : Switching(a, at)
    BY <2>1, WriterMoves DEF QueuesInv
  <2>2. CASE admin' = [admin EXCEPT ![a].at = "walk", ![a].q = None]
    <3> DEFINE s == [[admin[a] EXCEPT !.at = "walk"] EXCEPT !.q = None]
    <3>1. admin[a] \in Switchings
      BY DEF QueuesInv, QueuesTypeOK, Switchings
    <3>2. s.q = None
      BY <3>1 DEF Switchings
    <3>3. admin' = [admin EXCEPT ![a] = s]
      BY <2>2 DEF QueuesInv, QueuesTypeOK
    <3> HIDE DEF s
    <3> QED BY <3>2, <3>3 DEF QueuesInv, QueuesTypeOK
  <2> QED BY <2>1, <2>2 DEF ResetCancelsTimer, ResetCancelsWorks
<1>5. OneWriter'
  BY <1>1, <1>4, OneWriterStays
<1>6. ResetSettled'
  BY <1>1, <1>4, ThrottleQueuesAssumption DEF DecisionInv, ResetSettled
<1>7. NewUndecided' /\ FixedReady'
  BY <1>1 DEF DecisionInv, NewUndecided, FixedReady
<1>8. Resolved'
  <2> SUFFICES ASSUME ~crossed, NEW p \in Queues, life[p] = "live", ctl[p].pending
               PROVE  Resolves(p)'
    BY <1>1 DEF Resolved, Active
  <2>1. p # q
    BY <1>2 DEF DecisionInv, ResetSettled
  <2>2. Resolves(p)
    BY DEF DecisionInv, Resolved, Active
  <2>3. Late(p)' = Late(p) /\ FixedEnds(p)' = FixedEnds(p) /\ ModelEnds(p)' = ModelEnds(p)
    BY <1>1, <1>3, <2>1 DEF Late, FixedEnds, ModelEnds, Arming, Carries
  <2> QED BY <1>1, <2>2, <2>3, Undisturbed
<1> QED BY <1>5, <1>6, <1>7, <1>8 DEF DecisionInv

-----------------------------------------------------------------------------
LEMMA DecisionInvInit == QueuesInit => DecisionInv
<1> SUFFICES ASSUME QueuesInit
             PROVE  DecisionInv
  OBVIOUS
<1>1. OneWriter
  BY DEF QueuesInit, OneWriter, NotSwitching
<1>2. \A q \in Queues : ~ctl[q].pending /\ life[q] = "none"
  BY DEF QueuesInit, NoDecision
<1> QED BY <1>1, <1>2 DEF DecisionInv, ResetSettled, NewUndecided, FixedReady, Resolved, Active

LEMMA DecisionInvNext ==
  ASSUME QueuesInv, DecisionInv, [QueuesNext]_queueVars
  PROVE  DecisionInv'
<1>1. CASE \E q \in Queues : QueueNext(q)
  <2> PICK q \in Queues : QueueNext(q)
    BY <1>1
  <2>1. CASE StartInit(q) \/ Allocate(q) \/ AddToList(q) \/ StartExit(q) \/ ExitNext(q)
    BY <2>1, StartInitDecides, AllocateDecides, AddToListDecides, ExitDecides
  <2>2. CASE DispatchModel(q) \/ ArmModelTimer(q) \/ TimerFires(q) \/ QueueTimeout(q)
    BY <2>2, DispatchModelDecides, TimeoutMovesOn, TimerFiresDecides
  <2>3. CASE TimeoutStarts(q) \/ TimeoutWork(q) \/ WorkStarts(q)
    BY <2>3, TimeoutMovesOn, TimeoutWorkDecides, WorkStartsDecides
  <2> QED BY <2>1, <2>2, <2>3 DEF QueueNext
<1>2. CASE \E h \in Handlers : HandlerNext(h)
  <2> PICK h \in Handlers : HandlerNext(h)
    BY <1>2
  <2>1. CASE (\E q \in Queues : FindContext(h, q)) \/ LeaveUnchanged(h)
    BY <2>1, ReaderDecides
  <2>2. CASE \E source \in {"FIXED", "MODEL"} : StartInference(h, source)
    BY <2>2, StartInferenceDecides
  <2>3. CASE ArmTimer(h) \/ QueueInference(h) \/ QueueingFailed(h)
    BY <2>3, ScheduleDecides
  <2> QED BY <2>1, <2>2, <2>3 DEF HandlerNext, HandlerSteps
<1>3. CASE \E w \in Runners : RunnerNext(w)
  BY <1>3, ReadDecisionDecides, ApplyDecisionDecides, CancelTimerDecides DEF RunnerNext
<1>4. CASE ThreadNext
  BY <1>4, ThreadPicksUpDecides, ThreadSnapshotsDecides, ThreadEndsDecides DEF ThreadNext
<1>5. CASE \E a \in Admins : AdminStep(a)
  <2> PICK a \in Admins : AdminStep(a)
    BY <1>5
  <2>1. CASE \E q \in Queues : ResetContext(a, q)
    BY <2>1, ResetContextDecides
  <2>2. CASE ~\E q \in Queues : ResetContext(a, q)
    BY <2>2, PlainWriterDecides, ResetCancelsDecides DEF AdminStep
  <2> QED BY <2>1, <2>2
<1>6. CASE \E a \in Admins, on \in BOOLEAN : CallSetEnabled(a, on)
  BY <1>6, CallSetEnabledDecides
<1>7. CASE UNCHANGED queueVars
  <2>1. UNCHANGED <<life, ctl, timer, queued, timeout, infer, slot, reader, switch>>
    BY <1>7 DEF queueVars, context, others
  <2>2. OneWriter' /\ ResetSettled'
    BY <2>1 DEF DecisionInv, OneWriter, ResetSettled, switch
  <2> QED BY <2>1, <2>2, WriterDecides DEF switch
<1> QED BY <1>1, <1>2, <1>3, <1>4, <1>5, <1>6, <1>7 DEF QueuesNext

LEMMA ResolverFound ==
  ASSUME QueuesInv, DecisionInv
  PROVE  DecisionHasResolver
<1> SUFFICES ASSUME NEW q \in Queues, life[q] = "live", ctl[q].pending, ~crossed
             PROVE  \/ timer[q] # TimerOff \/ queued[q] # {} \/ timeout[q]
                    \/ infer[q].pc # "idle" \/ slot = q \/ ThreadHolds(q) \/ dispatch[q]
                    \/ \E h \in Handlers : reader[h].q = q /\ reader[h].at # "found"
                    \/ ctl[q].source = "MODEL" /\ ~ctl[q].running
  BY DEF DecisionHasResolver, Active
<1>1. Resolves(q)
  BY DEF DecisionInv, Resolved, Active
<1>2. CASE Late(q)
  BY <1>2 DEF Late, TimerOff
<1>3. CASE FixedEnds(q)
  BY <1>3 DEF FixedEnds, Arming, Carries, ThreadHolds
<1>4. CASE ModelEnds(q) /\ ctl[q].source # "FIXED"
  BY <1>4 DEF ModelEnds, Carries, ThreadHolds, QueuesInv, QueuesTypeOK
<1> QED BY <1>1, <1>2, <1>3, <1>4 DEF Resolves

(* As long as at most one writer at a time is in set_enabled, no pending   *)
(* decision of a live context is forgotten: its timeout, its work, its     *)
(* thread, the handler that is scheduling it or the next dispatch is there *)
(* to end it, whatever exits, resets and other decisions come between.     *)
THEOREM DecisionAlwaysHasResolver == QueuesSpec => []DecisionHasResolver
<1>1. QueuesInit => QueuesInv /\ DecisionInv
  BY QueuesInvInit, DecisionInvInit
<1>2. QueuesInv /\ DecisionInv /\ [QueuesNext]_queueVars => (QueuesInv /\ DecisionInv)'
  BY QueuesInvNext, DecisionInvNext
<1>3. QueuesInv /\ DecisionInv => DecisionHasResolver
  BY ResolverFound
<1> QED BY <1>1, <1>2, <1>3, PTL DEF QueuesSpec

-----------------------------------------------------------------------------
(***************************************************************************)
(* 3.  The module, up and down.  Its parts go up in one order and come     *)
(* down in the reverse one, so a part can be up only from its own stage to *)
(* the one that undoes it.  Whoever uses it, a callback or a writer in a   *)
(* node, is there only while it is up or is being waited for.              *)
(***************************************************************************)

(***************************************************************************)
(* The stages during which a part may be up, from its own to the one that  *)
(* undoes it.                                                              *)
(***************************************************************************)
UfsStages == {"ufs", "dirtyrate", "loaded", "undo_ufs"}
ElevatorStages == UfsStages \cup {"undo_elevator"}
ThreadStages == ElevatorStages \cup {"elevator", "undo_thread"}
PagecacheStages == ThreadStages \cup {"thread", "pagecache", "undo_pagecache"}
PsiStages == PagecacheStages \cup {"psi", "undo_psi"}
F2fsStages == PsiStages \cup {"f2fs", "undo_f2fs"}
BlockStages == F2fsStages \cup {"block", "undo_block"}
NodeStages == BlockStages \cup {"nodes", "trace", "undo_trace", "undo_nodes"}
CacheStages == NodeStages \cup {"undo_records"}

HookStages == [block |-> BlockStages, f2fs |-> F2fsStages, psi |-> PsiStages,
               pagecache |-> PagecacheStages, ufs |-> UfsStages]
UndoOf == [block |-> "undo_block", f2fs |-> "undo_f2fs", psi |-> "undo_psi",
           pagecache |-> "undo_pagecache", ufs |-> "undo_ufs"]

\* Caches exist until the last label, and are empty from the one before on.
CachesUp ==
    /\ stage \in CacheStages => caches = Range(Caches)
    /\ stage = "caches" => pos \in 0 .. 4 /\ caches = {Caches[i] : i \in 1 .. pos}
    /\ stage = "failed" => caches = {}
    /\ stage \in {"caches", "undo_caches", "failed"} =>
          \A k \in Range(Caches) : objects[k] = 0

\* The other parts are up only within their stages.
PartsUp ==
    /\ stage \notin NodeStages => nodes = {}
    /\ \A g \in Groups : stage \notin HookStages[g] => probes[g] = {}
    /\ stage \notin ThreadStages => poll = NoThread
    /\ poll.stop => stage = "undo_thread"
    /\ elevator => stage \in ElevatorStages
    /\ rvh => stage = "loaded"

\* A callback belongs to a probe that is registered, or that is being waited
\* for; the switch concerns only those of the block table.
Called ==
    /\ \A c \in CPUs : handler[c].on => handler[c].probe \in Range(ProbesOf["block"])
    /\ \A c \in CPUs : handler[c].probe = "none" => handler[c] = Idle
    /\ \A g \in Groups : stage # UndoOf[g] => Synchronized(g)

\* A writer is in a node that can still be entered, or that is being removed.
Written ==
    /\ \A w \in Writers : writer[w].node = "none" => writer[w] = Outside
    /\ stage # "undo_nodes" => Drained

\* Everybody who has a reference to the trace instance, or has left one there.
Storing == {w \in Writers : writer[w].at = "store"}
Holding == (IF array THEN 1 ELSE 0) + (IF stage \in {"trace", "undo_trace"} /\ pos = 1 THEN 1 ELSE 0)
Referenced == refs >= Cardinality(Storing) + Holding

LifecycleInv ==
    /\ TypeOK
    /\ CachesUp
    /\ PartsUp
    /\ Called
    /\ Written
    /\ Referenced

(***************************************************************************)
(* The moves between stages.                                               *)
(***************************************************************************)
LEMMA Goes ==
  ASSUME Advance
  PROVE  /\ pos' = 0
         /\ stage = "caches" => stage' = "nodes"
         /\ stage = "nodes" => stage' = "trace"
         /\ stage = "trace" => stage' = "block"
         /\ stage = "block" => stage' = "f2fs"
         /\ stage = "f2fs" => stage' = "psi"
         /\ stage = "psi" => stage' = "pagecache"
         /\ stage = "pagecache" => stage' = "thread"
         /\ stage = "thread" => stage' = "elevator"
         /\ stage = "elevator" => stage' = "ufs"
         /\ stage = "ufs" => stage' = "dirtyrate"
         /\ stage = "dirtyrate" => stage' = "loaded"
         /\ stage = "undo_ufs" => stage' = "undo_elevator"
         /\ stage = "undo_elevator" => stage' = "undo_thread"
         /\ stage = "undo_thread" => stage' = "undo_pagecache"
         /\ stage = "undo_pagecache" => stage' = "undo_psi"
         /\ stage = "undo_psi" => stage' = "undo_f2fs"
         /\ stage = "undo_f2fs" => stage' = "undo_block"
         /\ stage = "undo_block" => stage' = "undo_trace"
         /\ stage = "undo_trace" => stage' = "undo_nodes"
         /\ stage = "undo_nodes" => stage' = "undo_records"
         /\ stage = "undo_records" => stage' = "undo_caches"
         /\ stage = "undo_caches" => stage' = "failed"
<1>1. pos' = 0 /\ \E order \in Orders : stage \in DOMAIN order /\ stage' = order[stage]
  BY DEF Advance
<1>2. CASE stage \in DOMAIN Bring /\ stage' = Bring[stage]
  BY <1>1, <1>2 DEF Bring
<1>3. CASE stage \in DOMAIN TpInit /\ stage' = TpInit[stage]
  BY <1>1, <1>3 DEF TpInit
<1>4. CASE stage \in DOMAIN Unwinding /\ stage' = Unwinding[stage]
  BY <1>1, <1>4 DEF Unwinding
<1>5. CASE stage \in DOMAIN TpExit /\ stage' = TpExit[stage]
  BY <1>1, <1>5 DEF TpExit
<1> QED BY <1>1, <1>2, <1>3, <1>4, <1>5 DEF Orders

LEMMA Fails ==
  ASSUME Fail
  PROVE  /\ pos' = 0
         /\ stage = "caches" => stage' = "undo_caches"
         /\ stage = "nodes" => stage' = "undo_nodes"
         /\ stage = "block" => stage' = "undo_block"
         /\ stage = "f2fs" => stage' = "undo_f2fs"
         /\ stage = "psi" => stage' = "undo_psi"
         /\ stage = "thread" => stage' = "undo_pagecache"
         /\ stage = "elevator" => stage' = "undo_thread"
         /\ stage = "ufs" => stage' = "undo_ufs"
         /\ stage = "dirtyrate" => stage' = "undo_ufs"
BY DEF Fail, FailsTo

LEMMA StagesAre ==
  Stages = CacheStages \cup {"caches", "undo_caches", "failed"}
<1>1. UNION {DOMAIN order : order \in Orders}
        = ((DOMAIN Bring \cup DOMAIN TpInit) \cup DOMAIN Unwinding) \cup DOMAIN TpExit
  BY DEF Orders
<1>2. DOMAIN Bring \cup DOMAIN TpInit
        = {"caches", "nodes", "trace", "block", "f2fs", "psi", "pagecache", "thread",
           "elevator", "ufs", "dirtyrate"}
  BY DEF Bring, TpInit
<1>3. DOMAIN Unwinding \cup DOMAIN TpExit
        = {"undo_ufs", "undo_elevator", "undo_thread", "undo_pagecache", "undo_psi",
           "undo_f2fs", "undo_block", "undo_trace", "undo_nodes", "undo_records",
           "undo_caches"}
  BY DEF Unwinding, TpExit
<1> QED BY <1>1, <1>2, <1>3
    DEF Stages, CacheStages, NodeStages, BlockStages, F2fsStages, PsiStages,
        PagecacheStages, ThreadStages, ElevatorStages, UfsStages

(* Where no part is up, nobody runs.                                       *)
LEMMA Quiet ==
  ASSUME LifecycleInv
  PROVE  /\ stage \notin BlockStages => \A c \in CPUs : handler[c] = Idle
         /\ stage \notin NodeStages => \A w \in Writers : writer[w] = Outside
         /\ stage \notin ThreadStages => poll = NoThread
<1>1. ASSUME stage \notin BlockStages, NEW c \in CPUs PROVE handler[c] = Idle
  <2>1. \A g \in Groups : probes[g] = {} /\ stage # UndoOf[g]
    BY <1>1 DEF LifecycleInv, PartsUp, HookStages, UndoOf, Groups, BlockStages, F2fsStages,
       PsiStages, PagecacheStages, ThreadStages, ElevatorStages, UfsStages
  <2>2. \A g \in Groups : handler[c].probe \notin Range(ProbesOf[g])
    BY <2>1 DEF LifecycleInv, Called, Synchronized
  <2>3. handler[c].probe = "none"
    BY <2>2 DEF LifecycleInv, TypeOK, Probes
  <2> QED BY <2>3 DEF LifecycleInv, Called
<1>2. ASSUME stage \notin NodeStages, NEW w \in Writers PROVE writer[w] = Outside
  <2>1. nodes = {} /\ stage # "undo_nodes"
    BY <1>2 DEF LifecycleInv, PartsUp, NodeStages
  <2> QED BY <2>1 DEF LifecycleInv, Written, Drained
<1> QED BY <1>1, <1>2 DEF LifecycleInv, PartsUp

(***************************************************************************)
(* Steps that leave a part of the invariant alone.                         *)
(***************************************************************************)
LEMMA SameHandlers ==
  ASSUME Called, UNCHANGED <<handler, probes>>,
         \A g \in Groups : stage = UndoOf[g] /\ stage' # stage => Synchronized(g)
  PROVE  Called'
<1>1. \A g \in Groups : Synchronized(g)' <=> Synchronized(g)
  BY DEF Synchronized
<1> QED BY <1>1 DEF Called

LEMMA SameWriters ==
  ASSUME Written, UNCHANGED <<writer, nodes>>,
         stage = "undo_nodes" /\ stage' # stage => Drained
  PROVE  Written'
BY DEF Written, Drained

LEMMA SameReferences ==
  ASSUME Referenced, UNCHANGED <<writer, traced>>,
         stage' \in {"trace", "undo_trace"} /\ pos' = 1
           => stage \in {"trace", "undo_trace"} /\ pos = 1,
         TypeOK
  PROVE  Referenced'
<1>1. Storing' = Storing
  BY DEF Storing
<1>2. IsFiniteSet(Storing)
  BY LifecycleAssumption, FS_Subset DEF Storing
<1>3. Cardinality(Storing) \in Nat /\ refs \in Nat
  BY <1>2, FS_CardinalityType DEF TypeOK
<1>4. Holding' \in Nat /\ Holding \in Nat /\ Holding' <= Holding
  BY DEF Holding, traced
<1> QED BY <1>1, <1>3, <1>4 DEF Referenced, traced

(* A step of smart_io_init that neither enters nor removes a probe or a    *)
(* node, and does not touch the trace instance.                            *)
LEMMA SetupKeeps ==
  ASSUME LifecycleInv, TypeOK', CachesUp', PartsUp',
         UNCHANGED <<handler, writer, traced, probes, nodes>>,
         stage \notin {"trace", "undo_trace", "undo_nodes", "undo_block", "undo_f2fs",
                       "undo_psi", "undo_pagecache", "undo_ufs"},
         pos' = 0 \/ stage' = stage
  PROVE  LifecycleInv'
<1>1. Called'
  BY SameHandlers DEF LifecycleInv, UndoOf, Groups
<1>2. Written'
  BY SameWriters DEF LifecycleInv
<1>3. Referenced'
  BY SameReferences DEF LifecycleInv
<1> QED BY <1>1, <1>2, <1>3 DEF LifecycleInv

LEMMA CachesAre ==
  /\ Range(Caches) = {"rq_record", "bio_remap", "rq_remap", "uid_io"}
  /\ Len(Caches) = 4
  /\ Range(Caches) = {Caches[i] : i \in 1 .. 4}
BY DEF Caches, Range

LEMMA CreateCacheKeeps ==
  ASSUME LifecycleInv, CreateCache PROVE LifecycleInv'
<1> USE DEF CacheStages, NodeStages, BlockStages, F2fsStages, PsiStages, PagecacheStages,
            ThreadStages, ElevatorStages, UfsStages
<1>1. /\ stage = "caches" /\ pos \in 0 .. 4
      /\ UNCHANGED <<objects, nodes, probes, traced, elevator, rvh, enabled, world>>
      /\ caches = {Caches[i] : i \in 1 .. pos}
  BY DEF CreateCache, LifecycleInv, CachesUp
<1>2. \/ /\ pos < 4 /\ caches' = caches \cup {Caches[pos + 1]}
         /\ pos' = pos + 1 /\ stage' = stage
      \/ pos' = 0 /\ stage' = "undo_caches" /\ caches' = caches
      \/ pos = 4 /\ pos' = 0 /\ stage' = "nodes" /\ caches' = caches
  BY <1>1, CachesAre, Goes, Fails DEF CreateCache
<1>3. caches' \subseteq Range(Caches)
  BY <1>1, <1>2, CachesAre
<1>4. TypeOK'
  BY <1>1, <1>2, <1>3, StagesAre DEF LifecycleInv, TypeOK, traced, world
<1>5. CachesUp'
  <2>1. CASE stage' = stage
    <3>1. {Caches[i] : i \in 1 .. pos + 1} = {Caches[i] : i \in 1 .. pos} \cup {Caches[pos + 1]}
      BY <1>1
    <3> QED BY <1>1, <1>2, <2>1, <3>1 DEF LifecycleInv, CachesUp
  <2>2. CASE stage' # stage
    BY <1>1, <1>2, <2>2, CachesAre DEF LifecycleInv, CachesUp
  <2> QED BY <2>1, <2>2
<1>6. PartsUp'
  BY <1>1, <1>2 DEF LifecycleInv, PartsUp, world, HookStages, Groups
<1> QED BY <1>1, <1>2, <1>4, <1>5, <1>6, SetupKeeps DEF world

LEMMA CreateNodeKeeps ==
  ASSUME LifecycleInv, CreateNode PROVE LifecycleInv'
<1> USE DEF CacheStages, NodeStages, BlockStages, F2fsStages, PsiStages, PagecacheStages,
            ThreadStages, ElevatorStages, UfsStages
<1>1. /\ stage = "nodes" /\ nodes \subseteq nodes' /\ nodes' \subseteq Range(Nodes)
      /\ UNCHANGED <<caches, objects, probes, traced, elevator, rvh, enabled, world>>
      /\ \/ pos' = pos + 1 /\ stage' = stage
         \/ pos' = 0 /\ stage' \in {"undo_nodes", "trace"}
  BY Goes, Fails DEF CreateNode, LifecycleInv, TypeOK, Range
<1>2. TypeOK'
  BY <1>1, StagesAre DEF LifecycleInv, TypeOK, traced, world
<1>3. CachesUp'
  BY <1>1 DEF LifecycleInv, CachesUp
<1>4. PartsUp'
  BY <1>1 DEF LifecycleInv, PartsUp, world, HookStages, Groups
<1>5. Called'
  BY <1>1, SameHandlers DEF LifecycleInv, UndoOf, Groups, world
<1>6. Written'
  BY <1>1 DEF LifecycleInv, Written, Drained, world
<1>7. Referenced'
  BY <1>1, SameReferences DEF LifecycleInv, world
<1> QED BY <1>2, <1>3, <1>4, <1>5, <1>6, <1>7 DEF LifecycleInv

LEMMA StartThreadKeeps ==
  ASSUME LifecycleInv, StartThread PROVE LifecycleInv'
<1> USE DEF CacheStages, NodeStages, BlockStages, F2fsStages, PsiStages, PagecacheStages,
            ThreadStages, ElevatorStages, UfsStages
<1>1. /\ stage = "thread" /\ pos' = 0
      /\ UNCHANGED <<caches, objects, nodes, probes, traced, elevator, rvh, enabled,
                     handler, writer, writes>>
      /\ \/ stage' = "elevator" /\ poll' = [at |-> "sleep", stop |-> FALSE]
         \/ stage' = "undo_pagecache" /\ poll' = poll
  BY Goes, Fails DEF StartThread
<1>2. TypeOK'
  <2>1. poll \in [at : {"none", "sleep", "tick"}, stop : BOOLEAN]
    BY DEF LifecycleInv, TypeOK
  <2>2. [at |-> "sleep", stop |-> FALSE] \in [at : {"none", "sleep", "tick"}, stop : BOOLEAN]
    OBVIOUS
  <2>3. poll' \in [at : {"none", "sleep", "tick"}, stop : BOOLEAN]
    BY <1>1, <2>1, <2>2
  <2> QED BY <1>1, <2>3, StagesAre DEF LifecycleInv, TypeOK, traced
<1>3. CachesUp'
  BY <1>1 DEF LifecycleInv, CachesUp
<1>4. PartsUp'
  BY <1>1 DEF LifecycleInv, PartsUp, HookStages, Groups
<1> QED BY <1>1, <1>2, <1>3, <1>4, SetupKeeps

LEMMA RegisterElevatorKeeps ==
  ASSUME LifecycleInv, RegisterElevator PROVE LifecycleInv'
<1> USE DEF CacheStages, NodeStages, BlockStages, F2fsStages, PsiStages, PagecacheStages,
            ThreadStages, ElevatorStages, UfsStages
<1>1. /\ stage = "elevator" /\ pos' = 0
      /\ UNCHANGED <<caches, objects, nodes, probes, traced, rvh, enabled, world>>
      /\ \/ stage' = "ufs" /\ elevator' = TRUE
         \/ stage' = "undo_thread" /\ elevator' = elevator
  BY Goes, Fails DEF RegisterElevator
<1>2. TypeOK'
  BY <1>1, StagesAre DEF LifecycleInv, TypeOK, traced, world
<1>3. CachesUp'
  BY <1>1 DEF LifecycleInv, CachesUp
<1>4. PartsUp'
  BY <1>1 DEF LifecycleInv, PartsUp, HookStages, Groups, world
<1> QED BY <1>1, <1>2, <1>3, <1>4, SetupKeeps DEF world

LEMMA RegisterDirtyrateKeeps ==
  ASSUME LifecycleInv, RegisterDirtyrate PROVE LifecycleInv'
<1> USE DEF CacheStages, NodeStages, BlockStages, F2fsStages, PsiStages, PagecacheStages,
            ThreadStages, ElevatorStages, UfsStages
<1>1. /\ stage = "dirtyrate" /\ pos' = 0
      /\ UNCHANGED <<caches, objects, nodes, probes, traced, elevator, enabled, world>>
      /\ \/ stage' = "loaded" /\ rvh' = TRUE
         \/ stage' = "undo_ufs" /\ rvh' = rvh
  BY Goes, Fails DEF RegisterDirtyrate
<1>2. TypeOK'
  BY <1>1, StagesAre DEF LifecycleInv, TypeOK, traced, world
<1>3. CachesUp'
  BY <1>1 DEF LifecycleInv, CachesUp
<1>4. PartsUp'
  BY <1>1 DEF LifecycleInv, PartsUp, HookStages, Groups, world
<1> QED BY <1>1, <1>2, <1>3, <1>4, SetupKeeps DEF world

LEMMA InitTraceKeeps ==
  ASSUME LifecycleInv, InitTrace PROVE LifecycleInv'
<1> USE DEF CacheStages, NodeStages, BlockStages, F2fsStages, PsiStages, PagecacheStages,
            ThreadStages, ElevatorStages, UfsStages
<1>1. /\ stage = "trace"
      /\ UNCHANGED <<caches, objects, nodes, probes, elevator, rvh, enabled, world>>
      /\ \/ pos = 0 /\ pos' = 1 /\ stage' = stage /\ refs' = refs + 1 /\ array' = array
         \/ pos = 0 /\ pos' = 0 /\ stage' = "block" /\ UNCHANGED traced
         \/ pos = 1 /\ pos' = 0 /\ stage' = "block" /\ refs' = refs /\ array' = TRUE
  BY Goes DEF InitTrace
<1>2. TypeOK'
  <2>1. refs \in Nat /\ array \in BOOLEAN
    BY DEF LifecycleInv, TypeOK
  <2>2. refs' \in Nat /\ pos' \in Nat
    BY <1>1, <2>1 DEF traced
  <2>4. array' = array \/ array' = TRUE
    BY <1>1 DEF traced
  <2>3. stage' \in Stages
    BY <1>1, StagesAre
  <2> QED BY <1>1, <2>1, <2>2, <2>3, <2>4 DEF LifecycleInv, TypeOK, world
<1>3. CachesUp'
  BY <1>1 DEF LifecycleInv, CachesUp
<1>4. PartsUp'
  BY <1>1 DEF LifecycleInv, PartsUp, world, HookStages, Groups
<1>5. Called'
  BY <1>1, SameHandlers DEF LifecycleInv, UndoOf, Groups, world
<1>6. Written'
  BY <1>1, SameWriters DEF LifecycleInv, world
<1>7. Referenced'
  <2>1. Storing' = Storing
    BY <1>1 DEF Storing, world
  <2>2. Cardinality(Storing) \in Nat /\ refs \in Nat /\ refs >= Cardinality(Storing) + Holding
    BY LifecycleAssumption, FS_Subset, FS_CardinalityType
    DEF Storing, LifecycleInv, TypeOK, Referenced
  <2>3. refs' >= Cardinality(Storing) + Holding'
    BY <1>1, <2>2 DEF Holding, traced
  <2> QED BY <2>1, <2>3 DEF Referenced
<1> QED BY <1>2, <1>3, <1>4, <1>5, <1>6, <1>7 DEF LifecycleInv

LEMMA RegisterProbeKeeps ==
  ASSUME LifecycleInv, NEW g \in Groups, NEW skip \in BOOLEAN, RegisterProbe(g, skip),
         g = "pagecache" => skip
  PROVE  LifecycleInv'
<1> USE DEF CacheStages, NodeStages, BlockStages, F2fsStages, PsiStages, PagecacheStages,
            ThreadStages, ElevatorStages, UfsStages
<1>1. /\ stage = g
      /\ UNCHANGED <<caches, objects, nodes, traced, elevator, rvh, enabled, world>>
      /\ \/ /\ probes' = [probes EXCEPT ![g] = probes[g] \cup {ProbesOf[g][pos + 1]}]
            /\ pos < Len(ProbesOf[g]) /\ pos' = pos + 1 /\ stage' = stage
         \/ pos' = pos + 1 /\ stage' = stage /\ probes' = probes
         \/ pos' = 0 /\ probes' = probes /\ (Advance \/ (g # "pagecache" /\ Fail))
  BY Goes, Fails DEF RegisterProbe
<1>2. /\ stage' \in {stage, UndoOf[g]} \cup {"f2fs", "psi", "pagecache", "thread", "dirtyrate"}
      /\ stage' \in HookStages[g]
      /\ \A h \in Groups : stage \in HookStages[h] => stage' \in HookStages[h]
      /\ stage \in ThreadStages => stage' \in ThreadStages
      /\ stage \in ElevatorStages => stage' \in ElevatorStages
      /\ stage' \in BlockStages
  BY <1>1, Goes, Fails DEF Groups, HookStages, UndoOf
<1>3. /\ probes' \in [Groups -> SUBSET Probes]
      /\ \A h \in Groups : probes'[h] \subseteq Range(ProbesOf[h]) /\ probes[h] \subseteq probes'[h]
      /\ \A h \in Groups \ {g} : probes'[h] = probes[h]
  <2>1. pos < Len(ProbesOf[g]) => ProbesOf[g][pos + 1] \in Range(ProbesOf[g])
    BY LifecycleAssumption DEF LifecycleInv, TypeOK, Range
  <2>2. /\ probes \in [Groups -> SUBSET Probes]
        /\ \A h \in Groups : probes[h] \subseteq Range(ProbesOf[h])
    BY DEF LifecycleInv, TypeOK
  <2>3. \E S \in SUBSET Range(ProbesOf[g]) : probes' = [probes EXCEPT ![g] = probes[g] \cup S]
    <3>1. CASE probes' = probes
      <4>1. probes' = [probes EXCEPT ![g] = probes[g] \cup {}]
        BY <2>2, <3>1
      <4> QED BY <4>1
    <3>2. CASE probes' # probes
      BY <1>1, <2>1, <3>2
    <3> QED BY <3>1, <3>2
  <2>4. \A h \in Groups : Range(ProbesOf[h]) \subseteq Probes
    BY DEF Probes
  <2> QED BY <2>2, <2>3, <2>4
<1>4. TypeOK'
  BY <1>1, <1>2, <1>3, StagesAre DEF LifecycleInv, TypeOK, traced, world
<1>5. CachesUp'
  BY <1>1, <1>2 DEF LifecycleInv, CachesUp, Groups
<1>6. PartsUp'
  <2>1. \A h \in Groups : stage' \notin HookStages[h] => probes'[h] = {}
    BY <1>1, <1>2, <1>3 DEF LifecycleInv, PartsUp
  <2>2. stage \notin ThreadStages => poll' = NoThread
    BY <1>1 DEF LifecycleInv, PartsUp, world
  <2>3. ~poll'.stop /\ ~rvh'
    BY <1>1 DEF LifecycleInv, PartsUp, Groups, world, TypeOK
  <2>4. elevator' => stage' \in ElevatorStages
    BY <1>1, <1>2 DEF LifecycleInv, PartsUp
  <2>5. stage' \notin ThreadStages => poll' = NoThread
    BY <1>2, <2>2
  <2> QED BY <1>2, <2>1, <2>3, <2>4, <2>5 DEF PartsUp
<1>7. Called'
  <2>1. handler' = handler /\ \A h \in Groups : stage # UndoOf[h]
    BY <1>1 DEF world, UndoOf, Groups
  <2>2. \A h \in Groups : Synchronized(h)'
    BY <1>3, <2>1 DEF LifecycleInv, Called, Synchronized
  <2> QED BY <2>1, <2>2 DEF LifecycleInv, Called
<1>8. Written'
  BY <1>1, SameWriters DEF LifecycleInv, world, Groups
<1>9. Referenced'
  BY <1>1, <1>2, SameReferences DEF LifecycleInv, world, Groups, UndoOf
<1> QED BY <1>4, <1>5, <1>6, <1>7, <1>8, <1>9 DEF LifecycleInv

LEMMA UnregisterProbeKeeps ==
  ASSUME LifecycleInv, NEW g \in Groups, UnregisterProbe(g, UndoOf[g])
  PROVE  LifecycleInv'
<1> USE DEF CacheStages, NodeStages, BlockStages, F2fsStages, PsiStages, PagecacheStages,
            ThreadStages, ElevatorStages, UfsStages
<1>1. /\ stage = UndoOf[g]
      /\ UNCHANGED <<caches, objects, nodes, traced, elevator, rvh, enabled, world>>
      /\ \/ /\ \E p \in probes[g] : probes' = [probes EXCEPT ![g] = probes[g] \ {p}]
            /\ pos' = pos /\ stage' = stage
         \/ probes[g] = {} /\ Synchronized(g) /\ Advance /\ probes' = probes
  BY DEF UnregisterProbe, setup
<1>2. /\ stage' \in {UndoOf[g], "undo_elevator", "undo_psi", "undo_f2fs", "undo_block", "undo_trace"}
      /\ stage' # "undo_caches" /\ stage' \in NodeStages
      /\ \A h \in Groups \ {g} : stage \in HookStages[h] => stage' \in HookStages[h]
      /\ stage \in ThreadStages => stage' \in ThreadStages
      /\ stage \in ElevatorStages => stage' \in ElevatorStages
      /\ stage \notin {"loaded", "undo_thread", "undo_nodes", "trace", "undo_trace"}
      /\ stage' = "undo_trace" => pos' = 0
  BY <1>1, Goes DEF Groups, HookStages, UndoOf
<1>3. /\ probes' \in [Groups -> SUBSET Probes]
      /\ \A h \in Groups : probes'[h] \subseteq Range(ProbesOf[h]) /\ probes'[h] \subseteq probes[h]
      /\ \A h \in Groups \ {g} : probes'[h] = probes[h]
  <2>1. /\ probes \in [Groups -> SUBSET Probes]
        /\ \A h \in Groups : probes[h] \subseteq Range(ProbesOf[h])
    BY DEF LifecycleInv, TypeOK
  <2> QED BY <1>1, <2>1
<1>4. TypeOK'
  <2>1. stage' \in Stages /\ pos' \in Nat
    BY <1>1, <1>2, Goes, StagesAre DEF LifecycleInv, TypeOK, UndoOf, Groups
  <2> QED BY <1>1, <1>3, <2>1 DEF LifecycleInv, TypeOK, traced, world
<1>5. CachesUp'
  BY <1>1, <1>2 DEF LifecycleInv, CachesUp, Groups, UndoOf
<1>6. PartsUp'
  <2>1. \A h \in Groups : stage' \notin HookStages[h] => probes'[h] = {}
    <3>1. ASSUME NEW h \in Groups \ {g}, stage' \notin HookStages[h] PROVE probes'[h] = {}
      BY <1>2, <1>3, <3>1 DEF LifecycleInv, PartsUp
    <3>2. stage' \notin HookStages[g] => probes'[g] = {}
      BY <1>1 DEF HookStages, UndoOf, Groups
    <3> QED BY <3>1, <3>2
  <2>2. poll' = poll /\ elevator' = elevator /\ rvh' = rvh
    BY <1>1 DEF world
  <2> QED BY <1>2, <2>1, <2>2 DEF LifecycleInv, PartsUp
<1>7. Called'
  <2>1. handler' = handler
    BY <1>1 DEF world
  <2>2. ASSUME NEW h \in Groups, stage' # UndoOf[h] PROVE Synchronized(h)'
    <3>1. CASE h # g
      <4>1. Synchronized(h)
        BY <1>1, <3>1 DEF LifecycleInv, Called, UndoOf, Groups
      <4> QED BY <1>3, <2>1, <3>1, <4>1 DEF Synchronized
    <3>2. CASE h = g
      BY <1>1, <2>1, <2>2, <3>2 DEF Synchronized
    <3> QED BY <3>1, <3>2
  <2> QED BY <2>1, <2>2 DEF LifecycleInv, Called
<1>8. Written'
  BY <1>1, <1>2, SameWriters DEF LifecycleInv, world
<1>9. Referenced'
  BY <1>1, <1>2, SameReferences DEF LifecycleInv, world
<1> QED BY <1>4, <1>5, <1>6, <1>7, <1>8, <1>9 DEF LifecycleInv

LEMMA UnregisterElevatorKeeps ==
  ASSUME LifecycleInv, UnregisterElevator PROVE LifecycleInv'
<1> USE DEF CacheStages, NodeStages, BlockStages, F2fsStages, PsiStages, PagecacheStages,
            ThreadStages, ElevatorStages, UfsStages
<1>1. /\ stage = "undo_elevator" /\ stage' = "undo_thread" /\ pos' = 0 /\ elevator' = FALSE
      /\ UNCHANGED <<caches, objects, nodes, probes, traced, rvh, enabled, world>>
  BY Goes DEF UnregisterElevator
<1>2. TypeOK'
  BY <1>1, StagesAre DEF LifecycleInv, TypeOK, traced, world
<1>3. CachesUp'
  BY <1>1 DEF LifecycleInv, CachesUp
<1>4. PartsUp'
  BY <1>1 DEF LifecycleInv, PartsUp, HookStages, Groups, world
<1> QED BY <1>1, <1>2, <1>3, <1>4, SetupKeeps DEF world

LEMMA StopThreadKeeps ==
  ASSUME LifecycleInv, StopThread PROVE LifecycleInv'
<1> USE DEF CacheStages, NodeStages, BlockStages, F2fsStages, PsiStages, PagecacheStages,
            ThreadStages, ElevatorStages, UfsStages
<1>1. /\ stage = "undo_thread"
      /\ UNCHANGED <<caches, objects, nodes, probes, traced, elevator, rvh, enabled,
                     handler, writer, writes>>
      /\ \/ pos' = 0 /\ stage' = "undo_pagecache" /\ poll' = NoThread
         \/ pos' = pos /\ stage' = stage /\ poll' = [poll EXCEPT !.stop = TRUE]
  BY Goes DEF StopThread, setup
<1>2. poll' \in [at : {"none", "sleep", "tick"}, stop : BOOLEAN]
  <2>1. poll \in [at : {"none", "sleep", "tick"}, stop : BOOLEAN]
    BY DEF LifecycleInv, TypeOK
  <2>2. NoThread \in [at : {"none", "sleep", "tick"}, stop : BOOLEAN]
    BY DEF NoThread
  <2>3. [poll EXCEPT !.stop = TRUE] \in [at : {"none", "sleep", "tick"}, stop : BOOLEAN]
    BY <2>1
  <2> QED BY <1>1, <2>2, <2>3
<1>3. TypeOK'
  BY <1>1, <1>2, StagesAre DEF LifecycleInv, TypeOK, traced
<1>4. CachesUp'
  BY <1>1 DEF LifecycleInv, CachesUp
<1>5. PartsUp'
  BY <1>1 DEF LifecycleInv, PartsUp, HookStages, Groups, NoThread
<1> QED BY <1>1, <1>3, <1>4, <1>5, SetupKeeps

LEMMA ExitTraceKeeps ==
  ASSUME LifecycleInv, ExitTrace PROVE LifecycleInv'
<1> USE DEF CacheStages, NodeStages, BlockStages, F2fsStages, PsiStages, PagecacheStages,
            ThreadStages, ElevatorStages, UfsStages
<1>1. /\ stage = "undo_trace"
      /\ UNCHANGED <<caches, objects, nodes, probes, elevator, rvh, enabled, world>>
      /\ \/ pos = 0 /\ pos' = 1 /\ stage' = stage /\ refs' = refs /\ array /\ array' = FALSE
         \/ pos = 0 /\ pos' = 0 /\ stage' = "undo_nodes" /\ refs' = refs /\ array' = array
         \/ pos = 1 /\ pos' = 0 /\ stage' = "undo_nodes" /\ refs' = refs - 1 /\ array' = array
  BY Goes DEF ExitTrace, traced
<1>2. Cardinality(Storing) \in Nat /\ refs \in Nat /\ refs >= Cardinality(Storing) + Holding
  BY LifecycleAssumption, FS_Subset, FS_CardinalityType
  DEF Storing, LifecycleInv, TypeOK, Referenced
<1>3. refs' \in Nat /\ refs' >= Cardinality(Storing) + Holding'
  BY <1>1, <1>2 DEF Holding
<1>4. TypeOK'
  <2>1. pos' \in Nat
    BY <1>1
  <2>2. array' = array \/ array' = FALSE
    BY <1>1
  <2>3. stage' \in Stages
    BY <1>1, StagesAre
  <2> QED BY <1>1, <1>3, <2>1, <2>2, <2>3 DEF LifecycleInv, TypeOK, world
<1>5. CachesUp'
  BY <1>1 DEF LifecycleInv, CachesUp
<1>6. PartsUp'
  BY <1>1 DEF LifecycleInv, PartsUp, world, HookStages, Groups
<1>7. Called'
  BY <1>1, SameHandlers DEF LifecycleInv, UndoOf, Groups, world
<1>8. Written'
  BY <1>1, SameWriters DEF LifecycleInv, world
<1>9. Referenced'
  <2>1. Storing' = Storing
    BY <1>1 DEF Storing, world
  <2> QED BY <1>3, <2>1 DEF Referenced
<1> QED BY <1>4, <1>5, <1>6, <1>7, <1>8, <1>9 DEF LifecycleInv

LEMMA RemoveNodeKeeps ==
  ASSUME LifecycleInv, RemoveNode PROVE LifecycleInv'
<1> USE DEF CacheStages, NodeStages, BlockStages, F2fsStages, PsiStages, PagecacheStages,
            ThreadStages, ElevatorStages, UfsStages
<1>1. /\ stage = "undo_nodes" /\ Drained /\ nodes' \subseteq nodes
      /\ UNCHANGED <<caches, objects, probes, traced, elevator, rvh, enabled, world>>
      /\ \/ pos' = 0 /\ stage' = "undo_records" /\ nodes = {}
         \/ pos' = pos /\ stage' = stage
  BY Goes DEF RemoveNode, setup
<1>2. TypeOK'
  BY <1>1, StagesAre DEF LifecycleInv, TypeOK, traced, world
<1>3. CachesUp'
  BY <1>1 DEF LifecycleInv, CachesUp
<1>4. PartsUp'
  BY <1>1 DEF LifecycleInv, PartsUp, world, HookStages, Groups
<1>5. Called'
  BY <1>1, SameHandlers DEF LifecycleInv, UndoOf, Groups, world
<1>6. Written'
  BY <1>1 DEF LifecycleInv, Written, Drained, world
<1>7. Referenced'
  BY <1>1, SameReferences DEF LifecycleInv, world
<1> QED BY <1>2, <1>3, <1>4, <1>5, <1>6, <1>7 DEF LifecycleInv

LEMMA CleanupTablesKeeps ==
  ASSUME LifecycleInv, CleanupTables PROVE LifecycleInv'
<1> USE DEF CacheStages, NodeStages, BlockStages, F2fsStages, PsiStages, PagecacheStages,
            ThreadStages, ElevatorStages, UfsStages
<1>1. /\ stage = "undo_records" /\ stage' = "undo_caches" /\ pos' = 0
      /\ objects' = [k \in DOMAIN objects |-> 0]
      /\ UNCHANGED <<caches, nodes, probes, traced, elevator, rvh, enabled, world>>
  BY Goes DEF CleanupTables
<1>2. objects' \in [Range(Caches) -> 0 .. MaxObjects] /\ \A k \in Range(Caches) : objects'[k] = 0
  BY <1>1, LifecycleAssumption DEF LifecycleInv, TypeOK
<1>3. TypeOK'
  BY <1>1, <1>2, StagesAre DEF LifecycleInv, TypeOK, traced, world
<1>4. CachesUp'
  BY <1>1, <1>2 DEF CachesUp
<1>5. PartsUp'
  BY <1>1 DEF LifecycleInv, PartsUp, HookStages, Groups, world
<1> QED BY <1>1, <1>3, <1>4, <1>5, SetupKeeps DEF world

LEMMA DestroyCacheKeeps ==
  ASSUME LifecycleInv, DestroyCache PROVE LifecycleInv'
<1> USE DEF CacheStages, NodeStages, BlockStages, F2fsStages, PsiStages, PagecacheStages,
            ThreadStages, ElevatorStages, UfsStages
<1>1. /\ stage = "undo_caches" /\ caches' \subseteq caches
      /\ UNCHANGED <<objects, nodes, probes, traced, elevator, rvh, enabled, world>>
      /\ \/ pos' = 0 /\ stage' = "failed" /\ caches = {}
         \/ pos' = pos /\ stage' = stage
  BY Goes DEF DestroyCache, setup
<1>2. TypeOK'
  BY <1>1, StagesAre DEF LifecycleInv, TypeOK, traced, world
<1>3. CachesUp'
  BY <1>1 DEF LifecycleInv, CachesUp
<1>4. PartsUp'
  BY <1>1 DEF LifecycleInv, PartsUp, world, HookStages, Groups
<1> QED BY <1>1, <1>2, <1>3, <1>4, SetupKeeps DEF world

(***************************************************************************)
(* What runs meanwhile moves no stage.                                     *)
(***************************************************************************)
LEMMA MeanwhileKeeps ==
  ASSUME LifecycleInv, TypeOK',
         UNCHANGED <<setup, caches, nodes, probes, elevator, rvh>>,
         \A k \in Range(Caches) : objects'[k] # objects[k] =>
           stage \notin {"caches", "undo_caches", "failed"},
         poll' # poll => stage \in ThreadStages /\ (poll'.stop => poll.stop),
         Called', Written', Referenced'
  PROVE  LifecycleInv'
<1>1. CachesUp'
  BY DEF LifecycleInv, CachesUp, setup
<1>2. PartsUp'
  BY DEF LifecycleInv, PartsUp, setup
<1> QED BY <1>1, <1>2 DEF LifecycleInv

LEMMA EnterProbeKeeps ==
  ASSUME LifecycleInv, NEW c \in CPUs, NEW g \in Groups, NEW p \in Probes, EnterProbe(c, g, p)
  PROVE  LifecycleInv'
<1>1. /\ p \in probes[g] /\ p \in Range(ProbesOf[g]) /\ p # "none"
      /\ handler' = [handler EXCEPT ![c] = [probe |-> p, on |-> g = "block" /\ enabled]]
      /\ UNCHANGED <<setup, caches, objects, nodes, probes, traced, elevator, rvh,
                     enabled, writer, writes, poll>>
  BY LifecycleAssumption DEF EnterProbe, LifecycleInv, TypeOK
<1>2. PICK on \in BOOLEAN : /\ handler' = [handler EXCEPT ![c] = [probe |-> p, on |-> on]]
                            /\ on => g = "block"
  <2>1. (g = "block" /\ enabled) \in BOOLEAN
    BY DEF LifecycleInv, TypeOK
  <2> QED BY <1>1, <2>1
<1>3. handler \in [CPUs -> [probe : Probes \cup {"none"}, on : BOOLEAN]]
  BY DEF LifecycleInv, TypeOK
<1>4. /\ handler' \in [CPUs -> [probe : Probes \cup {"none"}, on : BOOLEAN]]
      /\ handler'[c].probe = p /\ handler'[c].on = on
      /\ \A k \in CPUs \ {c} : handler'[k] = handler[k]
  BY <1>2, <1>3
<1>5. TypeOK'
  BY <1>1, <1>4 DEF LifecycleInv, TypeOK, setup, traced
<1>6. Called'
  <2>1. \A k \in CPUs : handler'[k].on => handler'[k].probe \in Range(ProbesOf["block"])
    BY <1>1, <1>2, <1>4 DEF LifecycleInv, Called
  <2>2. \A k \in CPUs : handler'[k].probe = "none" => handler'[k] = Idle
    BY <1>1, <1>4 DEF LifecycleInv, Called
  <2>3. ASSUME NEW h \in Groups, stage' # UndoOf[h] PROVE Synchronized(h)'
    <3>1. Synchronized(h)
      BY <1>1, <2>3 DEF LifecycleInv, Called, setup
    <3>2. p \in Range(ProbesOf[h]) => h = g
      BY <1>1, LifecycleAssumption
    <3> QED BY <1>1, <1>4, <3>1, <3>2 DEF Synchronized
  <2> QED BY <2>1, <2>2, <2>3 DEF Called
<1>7. Written'
  BY <1>1, SameWriters DEF LifecycleInv, setup
<1>8. Referenced'
  BY <1>1, SameReferences DEF LifecycleInv, setup
<1> QED BY <1>1, <1>5, <1>6, <1>7, <1>8, MeanwhileKeeps

LEMMA LeaveProbeKeeps ==
  ASSUME LifecycleInv, NEW c \in CPUs, LeaveProbe(c)
  PROVE  LifecycleInv'
<1>1. /\ handler[c] # Idle /\ handler' = [handler EXCEPT ![c] = Idle]
      /\ UNCHANGED <<setup, caches, nodes, probes, traced, elevator, rvh, enabled,
                     writer, writes, poll>>
  BY DEF LeaveProbe
<1>2. objects' \in [Range(Caches) -> 0 .. MaxObjects]
  <2>1. objects \in [Range(Caches) -> 0 .. MaxObjects]
    BY DEF LifecycleInv, TypeOK
  <2>2. \/ objects' = objects
        \/ \E k \in DOMAIN objects, n \in 0 .. MaxObjects : objects' = [objects EXCEPT ![k] = n]
    BY DEF LeaveProbe
  <2> QED BY <2>1, <2>2
<1>3. /\ handler' \in [CPUs -> [probe : Probes \cup {"none"}, on : BOOLEAN]]
      /\ handler'[c] = Idle /\ \A k \in CPUs \ {c} : handler'[k] = handler[k]
  <2>1. handler \in [CPUs -> [probe : Probes \cup {"none"}, on : BOOLEAN]]
    BY DEF LifecycleInv, TypeOK
  <2> QED BY <1>1, <2>1 DEF Idle
<1>4. TypeOK'
  BY <1>1, <1>2, <1>3 DEF LifecycleInv, TypeOK, setup, traced
<1>5. Called'
  <2>1. ASSUME NEW h \in Groups, stage' # UndoOf[h] PROVE Synchronized(h)'
    <3>1. Synchronized(h)
      BY <1>1, <2>1 DEF LifecycleInv, Called, setup
    <3>2. "none" \notin Range(ProbesOf[h])
      BY LifecycleAssumption
    <3> QED BY <1>1, <1>3, <3>1, <3>2 DEF Synchronized, Idle
  <2> QED BY <1>3, <2>1 DEF LifecycleInv, Called, Idle
<1>6. stage \in BlockStages
  BY <1>1, Quiet
<1>7. stage \notin {"caches", "undo_caches", "failed"}
  BY <1>6 DEF BlockStages, F2fsStages, PsiStages, PagecacheStages, ThreadStages,
              ElevatorStages, UfsStages
<1>8. Written'
  BY <1>1, SameWriters DEF LifecycleInv, setup
<1>9. Referenced'
  BY <1>1, SameReferences DEF LifecycleInv, setup
<1> QED BY <1>1, <1>4, <1>5, <1>7, <1>8, <1>9, MeanwhileKeeps

LEMMA WriterIs ==
  ASSUME LifecycleInv, NEW w \in Writers
  PROVE  /\ writer \in [Writers -> [node : Range(Nodes) \cup {"none"},
                                    at : {"out", "clear", "log", "retry", "store"}]]
         /\ writer[w].at # "out" => writer[w].node \in Range(Nodes)
         /\ writer[w].at # "out" => stage \notin {"caches", "undo_caches", "failed"}
<1>1. writer \in [Writers -> [node : Range(Nodes) \cup {"none"},
                              at : {"out", "clear", "log", "retry", "store"}]]
  BY DEF LifecycleInv, TypeOK
<1>2. writer[w].at # "out" => writer[w].node # "none"
  BY DEF LifecycleInv, Written, Outside
<1>3. writer[w].at # "out" => stage \in NodeStages
  BY Quiet DEF Outside
<1>4. NodeStages \cap {"caches", "undo_caches", "failed"} = {}
  BY DEF NodeStages, BlockStages, F2fsStages, PsiStages, PagecacheStages, ThreadStages,
         ElevatorStages, UfsStages
<1> QED BY <1>1, <1>2, <1>3, <1>4

(* A writer goes on within its node, or leaves it.                         *)
LEMMA WriterGoesOn ==
  ASSUME LifecycleInv, NEW w \in Writers, writer[w].at # "out",
         NEW to \in {Outside} \cup [node : {writer[w].node}, at : {"clear", "log", "retry", "store"}],
         writer' = [writer EXCEPT ![w] = to], UNCHANGED <<setup, nodes>>
  PROVE  /\ writer' \in [Writers -> [node : Range(Nodes) \cup {"none"},
                                     at : {"out", "clear", "log", "retry", "store"}]]
         /\ Written'
<1>1. /\ writer \in [Writers -> [node : Range(Nodes) \cup {"none"},
                                 at : {"out", "clear", "log", "retry", "store"}]]
      /\ writer[w].node \in Range(Nodes) /\ writer[w].node # "none"
  BY WriterIs, LifecycleAssumption
<1>2. to \in [node : Range(Nodes) \cup {"none"}, at : {"out", "clear", "log", "retry", "store"}]
  BY <1>1 DEF Outside
<1>3. to.node = "none" => to = Outside
  BY <1>1
<1>4. to.node \in {writer[w].node, "none"}
  BY DEF Outside
<1>5. writer' \in [Writers -> [node : Range(Nodes) \cup {"none"},
                               at : {"out", "clear", "log", "retry", "store"}]]
  BY <1>1, <1>2
<1>6. Written'
  BY <1>1, <1>3, <1>4 DEF LifecycleInv, Written, Drained, setup
<1> QED BY <1>5, <1>6

(* Storing after a writer has moved.                                       *)
LEMMA StoringMoves ==
  ASSUME LifecycleInv, NEW w \in Writers, NEW to,
         writer' = [writer EXCEPT ![w] = to]
  PROVE  /\ IsFiniteSet(Storing) /\ Cardinality(Storing) \in Nat /\ refs \in Nat
         /\ to.at # "store" => Storing' = Storing \ {w}
         /\ to.at = "store" => Storing' = Storing \cup {w}
<1>1. writer \in [Writers -> [node : Range(Nodes) \cup {"none"},
                              at : {"out", "clear", "log", "retry", "store"}]]
  BY WriterIs
<1>2. IsFiniteSet(Storing)
  BY LifecycleAssumption, FS_Subset DEF Storing
<1>3. writer'[w] = to /\ \A v \in Writers \ {w} : writer'[v] = writer[v]
  BY <1>1
<1> QED BY <1>2, <1>3, FS_CardinalityType DEF Storing, LifecycleInv, TypeOK

LEMMA EnterNodeKeeps ==
  ASSUME LifecycleInv, NEW w \in Writers, NEW n \in Range(Nodes), NEW on \in BOOLEAN,
         EnterNode(w, n, on)
  PROVE  LifecycleInv'
<1> DEFINE at == IF n = "enable" /\ ~on THEN "clear" ELSE "log"
           to == [node |-> n, at |-> at]
<1>1. /\ n \in nodes /\ n # "none" /\ writer' = [writer EXCEPT ![w] = to]
      /\ enabled' \in BOOLEAN
      /\ UNCHANGED <<setup, caches, objects, nodes, probes, traced, elevator, rvh,
                     handler, poll>>
  BY LifecycleAssumption DEF EnterNode, LifecycleInv, TypeOK
<1>2. at \in {"clear", "log"}
  OBVIOUS
<1>3. to.node = n /\ to.at = at
  OBVIOUS
<1>4. to \in [node : Range(Nodes) \cup {"none"}, at : {"out", "clear", "log", "retry", "store"}]
  BY <1>2
<1> HIDE DEF at, to
<1>5. /\ writer \in [Writers -> [node : Range(Nodes) \cup {"none"},
                                 at : {"out", "clear", "log", "retry", "store"}]]
      /\ writer' \in [Writers -> [node : Range(Nodes) \cup {"none"},
                                  at : {"out", "clear", "log", "retry", "store"}]]
  BY <1>1, <1>4, WriterIs
<1>6. TypeOK'
  BY <1>1, <1>5 DEF LifecycleInv, TypeOK, setup, traced
<1>7. Called'
  BY <1>1, SameHandlers DEF LifecycleInv, setup
<1>8. Written'
  BY <1>1, <1>3, <1>5 DEF LifecycleInv, Written, Drained, setup
<1>9. Referenced'
  <2>1. writer[w].at = "out"
    BY DEF EnterNode, Outside
  <2>2. Storing' = Storing
    BY <1>1, <1>2, <1>3, <2>1, StoringMoves DEF Storing
  <2> QED BY <1>1, <2>2 DEF LifecycleInv, Referenced, Holding, traced, setup
<1> QED BY <1>1, <1>6, <1>7, <1>8, <1>9, MeanwhileKeeps

LEMMA ClearRemapStateKeeps ==
  ASSUME LifecycleInv, NEW w \in Writers, ClearRemapState(w)
  PROVE  LifecycleInv'
<1> DEFINE to == [writer[w] EXCEPT !.at = "log"]
<1>1. /\ writer[w].at = "clear" /\ objects' = ClearedRemap(objects)
      /\ writer' = [writer EXCEPT ![w] = to]
      /\ UNCHANGED <<setup, caches, nodes, probes, traced, elevator, rvh, enabled,
                     handler, writes, poll>>
  BY DEF ClearRemapState
<1>2. to = [node |-> writer[w].node, at |-> "log"]
  BY WriterIs
<1>3. to \in [node : {writer[w].node}, at : {"clear", "log", "retry", "store"}] /\ to.at = "log"
  BY <1>2
<1> HIDE DEF to
<1>4. /\ Written'
      /\ writer' \in [Writers -> [node : Range(Nodes) \cup {"none"},
                                  at : {"out", "clear", "log", "retry", "store"}]]
  BY <1>1, <1>3, WriterGoesOn
<1>5. objects' \in [Range(Caches) -> 0 .. MaxObjects]
  BY <1>1, LifecycleAssumption DEF LifecycleInv, TypeOK, ClearedRemap
<1>6. TypeOK'
  BY <1>1, <1>4, <1>5 DEF LifecycleInv, TypeOK, setup, traced
<1>7. Called'
  BY <1>1, SameHandlers DEF LifecycleInv, setup
<1>8. Referenced'
  <2>1. Storing' = Storing
    BY <1>1, <1>3, StoringMoves DEF Storing
  <2> QED BY <1>1, <2>1 DEF LifecycleInv, Referenced, Holding, traced, setup
<1>9. stage \notin {"caches", "undo_caches", "failed"}
  BY <1>1, WriterIs
<1> QED BY <1>1, <1>4, <1>6, <1>7, <1>8, <1>9, MeanwhileKeeps

LEMMA TraceLogKeeps ==
  ASSUME LifecycleInv, NEW w \in Writers, TraceLog(w)
  PROVE  LifecycleInv'
<1> DEFINE to == IF array THEN Outside ELSE [writer[w] EXCEPT !.at = "retry"]
<1>1. /\ writer[w].at = "log" /\ writer' = [writer EXCEPT ![w] = to]
      /\ UNCHANGED <<setup, caches, objects, nodes, probes, traced, elevator, rvh,
                     enabled, handler, writes, poll>>
  BY DEF TraceLog
<1>2. [writer[w] EXCEPT !.at = "retry"] = [node |-> writer[w].node, at |-> "retry"]
  BY WriterIs
<1>3. /\ to \in {Outside} \cup [node : {writer[w].node}, at : {"clear", "log", "retry", "store"}]
      /\ to.at # "store"
  BY <1>2 DEF Outside
<1> HIDE DEF to
<1>4. /\ Written'
      /\ writer' \in [Writers -> [node : Range(Nodes) \cup {"none"},
                                  at : {"out", "clear", "log", "retry", "store"}]]
  BY <1>1, <1>3, WriterGoesOn
<1>5. TypeOK'
  BY <1>1, <1>4 DEF LifecycleInv, TypeOK, setup, traced
<1>6. Called'
  BY <1>1, SameHandlers DEF LifecycleInv, setup
<1>7. Referenced'
  <2>1. Storing' = Storing
    BY <1>1, <1>3, StoringMoves DEF Storing
  <2> QED BY <1>1, <2>1 DEF LifecycleInv, Referenced, Holding, traced, setup
<1> QED BY <1>1, <1>4, <1>5, <1>6, <1>7, MeanwhileKeeps

LEMMA TakenOn ==
  \A r, n, h \in Nat : r >= n + h => r + 1 >= (n + 1) + h
OBVIOUS

LEMMA GivenUp ==
  \A r, n, h, k \in Nat : r >= n + h /\ k <= h + 1 => r >= (n - 1) + k
OBVIOUS

LEMMA RetryGetKeeps ==
  ASSUME LifecycleInv, NEW w \in Writers, RetryGet(w)
  PROVE  LifecycleInv'
<1>1. /\ writer[w].at = "retry"
      /\ UNCHANGED <<setup, caches, objects, nodes, probes, array, elevator, rvh,
                     enabled, handler, writes, poll>>
  BY DEF RetryGet
<1>2. PICK to : /\ writer' = [writer EXCEPT ![w] = to]
                /\ \/ to = [writer[w] EXCEPT !.at = "store"] /\ refs' = refs + 1
                   \/ to = Outside /\ refs' = refs
  BY DEF RetryGet
<1>3. [writer[w] EXCEPT !.at = "store"] = [node |-> writer[w].node, at |-> "store"]
  BY WriterIs
<1>4. /\ to \in {Outside} \cup [node : {writer[w].node}, at : {"clear", "log", "retry", "store"}]
      /\ \/ to.at = "store" /\ refs' = refs + 1
         \/ to.at # "store" /\ refs' = refs
  BY <1>2, <1>3 DEF Outside
<1>5. /\ Written'
      /\ writer' \in [Writers -> [node : Range(Nodes) \cup {"none"},
                                  at : {"out", "clear", "log", "retry", "store"}]]
  BY <1>1, <1>2, <1>4, WriterGoesOn
<1>6. refs' \in Nat
  BY <1>4 DEF LifecycleInv, TypeOK
<1>7. TypeOK'
  BY <1>1, <1>5, <1>6 DEF LifecycleInv, TypeOK, setup
<1>8. Called'
  BY <1>1, SameHandlers DEF LifecycleInv, setup
<1>9. Referenced'
  <2>1. /\ IsFiniteSet(Storing) /\ w \notin Storing /\ refs \in Nat
        /\ Cardinality(Storing) \in Nat
        /\ to.at = "store" => Storing' = Storing \cup {w}
        /\ to.at # "store" => Storing' = Storing
    BY <1>1, <1>2, StoringMoves DEF Storing
  <2>2. Cardinality(Storing \cup {w}) = Cardinality(Storing) + 1
    BY <2>1, FS_AddElement
  <2>3. Holding' = Holding /\ Holding \in Nat /\ refs >= Cardinality(Storing) + Holding
    BY <1>1 DEF Holding, setup, LifecycleInv, Referenced
  <2>4. CASE to.at = "store"
    <3>1. /\ refs' = refs + 1 /\ Holding' = Holding
          /\ Cardinality(Storing)' = Cardinality(Storing) + 1
      BY <1>4, <2>1, <2>2, <2>3, <2>4
    <3>2. refs' >= Cardinality(Storing)' + Holding'
      BY <2>1, <2>3, <3>1, TakenOn
    <3> QED BY <3>2 DEF Referenced
  <2>5. CASE to.at # "store"
    BY <1>4, <2>1, <2>3, <2>5 DEF Referenced
  <2> QED BY <2>4, <2>5
<1> QED BY <1>1, <1>5, <1>7, <1>8, <1>9, MeanwhileKeeps

LEMMA RetryStoreKeeps ==
  ASSUME LifecycleInv, NEW w \in Writers, RetryStore(w)
  PROVE  LifecycleInv'
<1>1. /\ writer[w].at = "store" /\ array' = TRUE /\ writer' = [writer EXCEPT ![w] = Outside]
      /\ UNCHANGED <<setup, caches, objects, nodes, probes, refs, elevator, rvh,
                     enabled, handler, writes, poll>>
  BY DEF RetryStore
<1>2. /\ Written'
      /\ writer' \in [Writers -> [node : Range(Nodes) \cup {"none"},
                                  at : {"out", "clear", "log", "retry", "store"}]]
  BY <1>1, WriterGoesOn
<1>3. TypeOK'
  BY <1>1, <1>2 DEF LifecycleInv, TypeOK, setup
<1>4. Called'
  BY <1>1, SameHandlers DEF LifecycleInv, setup
<1>5. Referenced'
  <2>1. /\ IsFiniteSet(Storing) /\ w \in Storing /\ refs \in Nat
        /\ Cardinality(Storing) \in Nat /\ Storing' = Storing \ {w}
    BY <1>1, StoringMoves DEF Storing, Outside
  <2>2. Cardinality(Storing \ {w}) = Cardinality(Storing) - 1
    BY <2>1, FS_RemoveElement
  <2>3. Holding \in Nat /\ Holding' \in Nat /\ Holding' <= Holding + 1
    BY <1>1 DEF Holding, setup
  <2>4. refs >= Cardinality(Storing) + Holding
    BY DEF LifecycleInv, Referenced
  <2>5. Cardinality(Storing)' = Cardinality(Storing) - 1
    BY <2>1, <2>2
  <2>6. refs' >= Cardinality(Storing)' + Holding'
    BY <1>1, <2>1, <2>3, <2>4, <2>5, GivenUp
  <2> QED BY <2>6 DEF Referenced
<1> QED BY <1>1, <1>2, <1>3, <1>4, <1>5, MeanwhileKeeps

LEMMA PollKeeps ==
  ASSUME LifecycleInv, PollLoop \/ PollTick
  PROVE  LifecycleInv'
<1>1. /\ poll.at # "none"
      /\ poll' \in {[poll EXCEPT !.at = "none"], [poll EXCEPT !.at = "tick"],
                    [poll EXCEPT !.at = "sleep"]}
      /\ objects' \in {objects, [objects EXCEPT !["uid_io"] = 0]}
      /\ UNCHANGED <<setup, caches, nodes, probes, traced, elevator, rvh, enabled,
                     handler, writer, writes>>
  BY DEF PollLoop, PollTick
<1>2. poll' \in [at : {"none", "sleep", "tick"}, stop : BOOLEAN] /\ (poll'.stop => poll.stop)
  <2>1. poll \in [at : {"none", "sleep", "tick"}, stop : BOOLEAN]
    BY DEF LifecycleInv, TypeOK
  <2> QED BY <1>1, <2>1
<1>3. objects' \in [Range(Caches) -> 0 .. MaxObjects]
  BY <1>1, LifecycleAssumption DEF LifecycleInv, TypeOK
<1>4. TypeOK'
  BY <1>1, <1>2, <1>3 DEF LifecycleInv, TypeOK, setup, traced
<1>5. stage \in ThreadStages
  BY <1>1, Quiet DEF NoThread
<1>6. stage \notin {"caches", "undo_caches", "failed"}
  BY <1>5 DEF ThreadStages, ElevatorStages, UfsStages
<1>7. Called'
  BY <1>1, SameHandlers DEF LifecycleInv, setup
<1>8. Written'
  BY <1>1, SameWriters DEF LifecycleInv, setup
<1>9. Referenced'
  BY <1>1, SameReferences DEF LifecycleInv, setup
<1> QED BY <1>1, <1>2, <1>4, <1>5, <1>6, <1>7, <1>8, <1>9, MeanwhileKeeps

LEMMA LifecycleStarts == Init => LifecycleInv
<1> SUFFICES ASSUME Init PROVE LifecycleInv
  OBVIOUS
<1>1. TypeOK
  <2>1. stage \in Stages /\ pos \in Nat /\ refs \in Nat
    BY StagesAre DEF Init
  <2>2. objects \in [Range(Caches) -> 0 .. MaxObjects]
    BY LifecycleAssumption DEF Init
  <2>3. handler \in [CPUs -> [probe : Probes \cup {"none"}, on : BOOLEAN]]
    BY DEF Init, Idle
  <2>4. writer \in [Writers -> [node : Range(Nodes) \cup {"none"},
                               at : {"out", "clear", "log", "retry", "store"}]]
    BY DEF Init, Outside
  <2>5. poll \in [at : {"none", "sleep", "tick"}, stop : BOOLEAN]
    BY DEF Init, NoThread
  <2> QED BY <2>1, <2>2, <2>3, <2>4, <2>5 DEF Init, TypeOK
<1>2. CachesUp
  BY DEF Init, CachesUp, CacheStages, NodeStages, BlockStages, F2fsStages, PsiStages,
         PagecacheStages, ThreadStages, ElevatorStages, UfsStages
<1>3. PartsUp
  BY DEF Init, PartsUp, NoThread
<1>4. Called
  BY LifecycleAssumption DEF Init, Called, Synchronized, Idle
<1>5. Written
  BY DEF Init, Written, Drained, Outside
<1>6. Referenced
  <2>1. Storing = {}
    BY DEF Init, Storing, Outside
  <2>2. Holding = 0
    BY DEF Init, Holding
  <2> QED BY <2>1, <2>2, FS_EmptySet DEF Init, Referenced
<1> QED BY <1>1, <1>2, <1>3, <1>4, <1>5, <1>6 DEF LifecycleInv

LEMMA LifecycleSteps == LifecycleInv /\ [Next]_vars => LifecycleInv'
<1> SUFFICES ASSUME LifecycleInv, [Next]_vars PROVE LifecycleInv'
  OBVIOUS
<1>1. CASE Loading
  <2>1. ASSUME \/ RegisterBlock \/ RegisterF2fs \/ RegisterPsi
               \/ RegisterPagecacheDemo \/ RegisterUfs
        PROVE  LifecycleInv'
    BY <2>1, RegisterProbeKeeps
    DEF RegisterBlock, RegisterF2fs, RegisterPsi, RegisterPagecacheDemo, RegisterUfs, Groups
  <2> QED BY <1>1, <2>1, CreateCacheKeeps, CreateNodeKeeps, InitTraceKeeps, StartThreadKeeps,
             RegisterElevatorKeeps, RegisterDirtyrateKeeps DEF Loading
<1>2. CASE Undoing
  <2>1. ASSUME \/ UnregisterBlock \/ UnregisterF2fs \/ UnregisterPsi
               \/ UnregisterPagecacheDemo \/ UnregisterUfs
        PROVE  LifecycleInv'
    <3>1. \A g \in Groups : UnregisterProbe(g, UndoOf[g]) => LifecycleInv'
      BY UnregisterProbeKeeps
    <3> QED BY <2>1, <3>1
        DEF UnregisterBlock, UnregisterF2fs, UnregisterPsi, UnregisterPagecacheDemo,
            UnregisterUfs, Groups, UndoOf
  <2> QED BY <1>2, <2>1, UnregisterElevatorKeeps, StopThreadKeeps, ExitTraceKeeps,
             RemoveNodeKeeps, CleanupTablesKeeps, DestroyCacheKeeps DEF Undoing
<1>3. ASSUME NEW c \in CPUs, NEW g \in Groups, NEW p \in Probes, EnterProbe(c, g, p)
      PROVE  LifecycleInv'
  BY <1>3, EnterProbeKeeps
<1>4. ASSUME NEW c \in CPUs, LeaveProbe(c) PROVE LifecycleInv'
  BY <1>4, LeaveProbeKeeps
<1>5. ASSUME NEW w \in Writers, NEW n \in Range(Nodes), NEW on \in BOOLEAN, EnterNode(w, n, on)
      PROVE  LifecycleInv'
  BY <1>5, EnterNodeKeeps
<1>6. ASSUME NEW w \in Writers, Write(w) PROVE LifecycleInv'
  BY <1>6, ClearRemapStateKeeps, TraceLogKeeps, RetryGetKeeps, RetryStoreKeeps DEF Write
<1>7. CASE PollLoop \/ PollTick
  BY <1>7, PollKeeps
<1>8. CASE UNCHANGED vars
  <2>1. TypeOK' /\ CachesUp' /\ PartsUp'
    BY <1>8 DEF vars, LifecycleInv, TypeOK, CachesUp, PartsUp
  <2>2. Called'
    BY <1>8, SameHandlers DEF vars, LifecycleInv
  <2>3. Written'
    BY <1>8, SameWriters DEF vars, LifecycleInv
  <2>4. Referenced'
    BY <1>8, SameReferences DEF vars, LifecycleInv, traced
  <2> QED BY <2>1, <2>2, <2>3, <2>4 DEF LifecycleInv
<1> QED BY <1>1, <1>2, <1>3, <1>4, <1>5, <1>6, <1>7, <1>8 DEF Next

LEMMA LifecycleHolds == Spec => []LifecycleInv
BY LifecycleStarts, LifecycleSteps, PTL DEF Spec

(* What still runs finds the caches, and what is published is referenced,  *)
(* at every moment of the load and of its unwinding.                       *)
THEOREM NothingEverDangles == Spec => []NothingDangles
<1>1. LifecycleInv => NothingDangles
  <2> SUFFICES ASSUME LifecycleInv PROVE NothingDangles
    OBVIOUS
  <2>1. NoUseAfterDestroy
    <3>1. CASE stage \in CacheStages
      BY <3>1 DEF LifecycleInv, CachesUp, NoUseAfterDestroy
    <3>2. CASE stage \notin CacheStages
      <4>1. stage \notin NodeStages /\ stage \notin BlockStages /\ stage \notin ThreadStages
        BY <3>2 DEF CacheStages, NodeStages, BlockStages, F2fsStages, PsiStages,
                    PagecacheStages
      <4> QED BY <4>1, Quiet DEF NoUseAfterDestroy, Idle, Outside, NoThread
    <3> QED BY <3>1, <3>2
  <2>2. StoredIsReferenced
    <3>1. Cardinality(Storing) \in Nat /\ refs \in Nat
      BY LifecycleAssumption, FS_Subset, FS_CardinalityType
      DEF Storing, LifecycleInv, TypeOK
    <3>2. array => Holding \in Nat /\ Holding > 0
      BY DEF Holding
    <3> QED BY <3>1, <3>2 DEF LifecycleInv, Referenced, StoredIsReferenced
  <2> QED BY <2>1, <2>2 DEF NothingDangles, LifecycleInv
<1> QED BY <1>1, LifecycleHolds, PTL

(* When smart_io_init has failed nothing of the module can be called.      *)
THEOREM FailureIsClean == Spec => []CleanFailure
<1>1. LifecycleInv => CleanFailure
  <2> SUFFICES ASSUME LifecycleInv, stage = "failed"
               PROVE  /\ caches = {} /\ nodes = {} /\ ~elevator /\ ~rvh
                      /\ \A g \in Groups : probes[g] = {}
                      /\ poll = NoThread
                      /\ \A c \in CPUs : handler[c] = Idle
                      /\ \A w \in Writers : writer[w] = Outside
    BY DEF CleanFailure
  <2> USE DEF NodeStages, BlockStages, F2fsStages, PsiStages, PagecacheStages,
              ThreadStages, ElevatorStages, UfsStages
  <2>1. caches = {} /\ nodes = {} /\ ~elevator /\ ~rvh
    BY DEF LifecycleInv, CachesUp, PartsUp
  <2>2. \A g \in Groups : probes[g] = {}
    BY DEF LifecycleInv, PartsUp, HookStages, Groups
  <2> QED BY <2>1, <2>2, Quiet
<1> QED BY <1>1, LifecycleHolds, PTL

(* No cache is destroyed with an object of it left.                        *)
THEOREM DestroysEmpty == Spec => DestroyedEmpty
<1>1. LifecycleInv /\ [Next]_vars => [\A k \in caches \ caches' : objects[k] = 0]_vars
  <2> SUFFICES ASSUME LifecycleInv, Next, NEW k \in caches \ caches' PROVE objects[k] = 0
    OBVIOUS
  <2>1. k \in Range(Caches)
    BY DEF LifecycleInv, TypeOK
  <2>2. stage = "undo_caches"
    <3>1. caches \ caches' # {} => DestroyCache
      BY DEF Next, Loading, Undoing, CreateCache, CreateNode, InitTrace, RegisterBlock,
         RegisterF2fs, RegisterPsi, RegisterPagecacheDemo, RegisterProbe, StartThread,
         RegisterElevator, RegisterUfs, RegisterDirtyrate, UnregisterUfs, UnregisterElevator,
         StopThread, UnregisterPagecacheDemo, UnregisterPsi, UnregisterF2fs,
         UnregisterBlock, UnregisterProbe, ExitTrace, RemoveNode, CleanupTables,
         EnterProbe, LeaveProbe, EnterNode, Write, ClearRemapState, TraceLog, RetryGet,
         RetryStore, PollLoop, PollTick
    <3> QED BY <3>1 DEF DestroyCache
  <2> QED BY <2>1, <2>2 DEF LifecycleInv, CachesUp
<1> QED BY <1>1, LifecycleHolds, PTL DEF Spec, DestroyedEmpty
=============================================================================
