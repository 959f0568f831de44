----------------------------- MODULE MCLifetimes -----------------------------
(***************************************************************************)
(* What comes and goes: the module (ModuleLifecycle) and, once it is       *)
(* loaded, the throttle contexts of its queues (ThrottleQueues).  The two  *)
(* never change each other's state: no queue can run the elevator before   *)
(* the module is up, and there is no unloading.  One run therefore checks  *)
(* both, a behaviour following one part from its initial states on.  In    *)
(* the part "queues" the module stays loaded.                              *)
(***************************************************************************)
EXTENDS MCModuleLifecycle, ThrottleQueues

VARIABLE part

\* Every stage of the load succeeded and nobody is in a callback or a node.
Loaded ==
    /\ stage = "loaded" /\ pos = 0
    /\ caches = Range(Caches)
    /\ objects = [k \in Range(Caches) |-> 0]
    /\ nodes = Range(Nodes)
    /\ probes = [g \in Groups |-> Range(ProbesOf[g])]
    /\ array = TRUE /\ refs = 1
    /\ elevator = TRUE /\ rvh = TRUE /\ enabled = FALSE
    /\ handler = [c \in CPUs |-> Idle]
    /\ writer = [w \in Writers |-> Outside] /\ writes = 0
    /\ poll = [at |-> "sleep", stop |-> FALSE]

MCInit ==
    /\ QueuesInit
    /\ \/ part = "module" /\ Init
       \/ part = "queues" /\ Loaded

MCNext ==
    /\ UNCHANGED part
    /\ \/ part = "module" /\ Next /\ UNCHANGED queueVars
       \/ part = "queues" /\ QueuesNext /\ UNCHANGED vars

mcVars == <<vars, queueVars, part>>

\* Fairness and QueuesFairness, each for its part.  Some conjuncts are merged,
\* which assumes less: one of the steps goes on as long as one of them can.
Module(A) == part = "module" /\ A /\ UNCHANGED <<queueVars, part>>
Queue(A) == part = "queues" /\ A /\ UNCHANGED <<vars, part>>

MCFairness ==
    /\ WF_mcVars(\/ Module(Loading \/ Undoing \/ \E w \in Writers : Write(w))
                 \/ Queue(\E q \in Queues : ExitNext(q)))
    /\ WF_mcVars(\/ Module(\E c \in CPUs : LeaveProbe(c))
                 \/ Queue(\E h \in Handlers : HandlerSteps(h)))
    /\ WF_mcVars(\/ Module(PollLoop \/ PollTick)
                 \/ Queue(ThreadNext \/ \E w \in Runners : RunnerNext(w)))
    /\ WF_mcVars(Queue(\E q \in Queues : WorkStarts(q) \/ ArmModelTimer(q)))
    /\ WF_mcVars(Queue(\E q \in Queues : QueueTimeout(q)))
    /\ WF_mcVars(Queue(\E q \in Queues : TimeoutStarts(q)))
    /\ WF_mcVars(Queue(\E q \in Queues : TimeoutWork(q)))
    /\ WF_mcVars(Queue(\E a \in Admins : AdminStep(a)))

MCSpec == MCInit /\ [][MCNext]_mcVars /\ MCFairness
=============================================================================
