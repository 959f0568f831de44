--------------------------- MODULE ModuleLifecycle ---------------------------
(***************************************************************************)
(* Loading of the module: smart_io_init, and its unwinding when one of its *)
(* steps fails (setup.c), together with everything that already runs while *)
(* it is loading: probe callbacks on other CPUs, writers of the procfs     *)
(* nodes, and the polling thread.  There is no unloading: module_exit is   *)
(* commented out, and smart_io_exit repeats the unwinding.                 *)
(*                                                                         *)
(* The code's goto labels are the stages of this module.  A stage either   *)
(* brings up the next part or, when it failed, enters the unwinding at the *)
(* label of that part; the unwinding runs down to "failed".                *)
(*                                                                         *)
(* What runs meanwhile shares two things with it: the slab caches of the   *)
(* request records, which the unwinding destroys last, and the pointer to  *)
(* the trace instance, which a writer may set on its own (instance_retry). *)
(***************************************************************************)
EXTENDS Naturals, Sequences, FiniteSets, Functions, SequencesExt

CONSTANTS
    CPUs,        \* CPUs on which a probe may run
    Writers,     \* processes that write procfs nodes
    Nodes,       \* the nodes of proc_nodes, in their order
    ProbesOf,    \* the probes of each table, in their order
    MaxObjects,  \* bound: live objects of a cache
    MaxWrites    \* bound: writes to the nodes

Groups == {"block", "f2fs", "psi", "pagecache", "ufs"}

ASSUME LifecycleAssumption ==
    /\ DOMAIN ProbesOf = Groups
    /\ \A g \in Groups : IsInjective(ProbesOf[g]) /\ "none" \notin Range(ProbesOf[g])
    /\ \A g, h \in Groups : g # h => Range(ProbesOf[g]) \cap Range(ProbesOf[h]) = {}
    /\ IsInjective(Nodes) /\ "none" \notin Range(Nodes)
    /\ IsFiniteSet(Writers)
    /\ MaxObjects \in Nat /\ MaxWrites \in Nat

\* The caches of io_semantics.c, in the order in which they are created.
Caches == <<"rq_record", "bio_remap", "rq_remap", "uid_io">>
RemapCaches == {"bio_remap", "rq_remap"}

\* What is tried next once a part is up: the order of smart_io_init, and that
\* of smart_io_tp_init within it.
Bring == [caches |-> "nodes", nodes |-> "trace", trace |-> "block",
          pagecache |-> "thread", thread |-> "elevator", elevator |-> "ufs",
          ufs |-> "dirtyrate", dirtyrate |-> "loaded"]
TpInit == [block |-> "f2fs", f2fs |-> "psi", psi |-> "pagecache"]

\* The labels of smart_io_init, and the calls of smart_io_tp_exit.
Unwinding == [undo_ufs |-> "undo_elevator", undo_elevator |-> "undo_thread",
              undo_thread |-> "undo_pagecache", undo_block |-> "undo_trace",
              undo_trace |-> "undo_nodes", undo_nodes |-> "undo_records",
              undo_records |-> "undo_caches", undo_caches |-> "failed"]
TpExit == [undo_pagecache |-> "undo_psi", undo_psi |-> "undo_f2fs",
           undo_f2fs |-> "undo_block"]

Orders == {Bring, TpInit, Unwinding, TpExit}
Stages == {"loaded", "failed"} \cup UNION {DOMAIN order : order \in Orders}

Probes == UNION {Range(ProbesOf[g]) : g \in Groups}

VARIABLES
    stage,     \* where smart_io_init is
    pos,       \* how many entries of the stage's table were tried
    caches,    \* caches that exist
    objects,   \* objects allocated from each cache
    nodes,     \* procfs nodes that can be entered
    probes,    \* per table, the probes that are registered (entry->init)
    array,     \* smart_io_trace_array is set
    refs,      \* references held on the trace instance
    elevator,  \* smart_deadline_elevator is registered
    rvh,       \* the dirty-rate hook, which cannot be unregistered
    enabled,   \* smart_io_enabled
    handler,   \* what each CPU runs: a probe, and whether it saw the switch on
    writer,    \* where each writer is, and in which node
    writes,    \* writes so far
    poll       \* the polling thread: absent, asleep, in a tick; told to stop?

setup == <<stage, pos>>
traced == <<array, refs>>
world == <<handler, writer, writes, poll>>
vars == <<stage, pos, caches, objects, nodes, probes, array, refs, elevator,
          rvh, enabled, handler, writer, writes, poll>>

Idle == [probe |-> "none", on |-> FALSE]
Outside == [node |-> "none", at |-> "out"]
NoThread == [at |-> "none", stop |-> FALSE]

Init ==
    /\ stage = "caches" /\ pos = 0
    /\ caches = {}
    /\ objects = [k \in Range(Caches) |-> 0]
    /\ nodes = {}
    /\ probes = [g \in Groups |-> {}]
    /\ array = FALSE /\ refs = 0
    /\ elevator = FALSE /\ rvh = FALSE /\ enabled = FALSE
    /\ handler = [c \in CPUs |-> Idle]
    /\ writer = [w \in Writers |-> Outside] /\ writes = 0
    /\ poll = NoThread

\* The part is up: the next one is tried.  In the unwinding, it is down.
Advance ==
    /\ \E order \in Orders : stage \in DOMAIN order /\ stage' = order[stage]
    /\ pos' = 0

\* Mutant: a failed elv_register jumps past the polling thread.
FailsTo_SkipsThread(s) ==
    CASE s = "caches"    -> "undo_caches"
      [] s = "nodes"     -> "undo_nodes"
      [] s = "block"     -> "undo_block"
      [] s = "f2fs"      -> "undo_f2fs"
      [] s = "psi"       -> "undo_psi"
      [] s = "thread"    -> "undo_pagecache"
      [] s = "elevator"  -> "undo_pagecache"
      [] s = "ufs"       -> "undo_ufs"
      [] s = "dirtyrate" -> "undo_ufs"

\* The goto of a failing part.  A part that leaves something half done undoes
\* it itself first, with the same function that undoes it when complete, so
\* that it enters the unwinding at its own label.
FailsTo(s) ==
    CASE s = "caches"    -> "undo_caches"
      [] s = "nodes"     -> "undo_nodes"
      [] s = "block"     -> "undo_block"
      [] s = "f2fs"      -> "undo_f2fs"
      [] s = "psi"       -> "undo_psi"
      [] s = "thread"    -> "undo_pagecache"
      [] s = "elevator"  -> "undo_thread"
      [] s = "ufs"       -> "undo_ufs"
      [] s = "dirtyrate" -> "undo_ufs"

Fail == stage' = FailsTo(stage) /\ pos' = 0

-----------------------------------------------------------------------------
(* Bringing up.                                                            *)

CreateCache ==
    /\ stage = "caches"
    /\ \/ /\ pos < Len(Caches)
          /\ caches' = caches \cup {Caches[pos + 1]}
          /\ pos' = pos + 1 /\ UNCHANGED stage
       \/ pos < Len(Caches) /\ Fail /\ UNCHANGED caches
       \/ pos = Len(Caches) /\ Advance /\ UNCHANGED caches
    /\ UNCHANGED <<objects, nodes, probes, traced, elevator, rvh, enabled, world>>

CreateNode ==
    /\ stage = "nodes"
    /\ \/ /\ pos < Len(Nodes)
          /\ nodes' = nodes \cup {Nodes[pos + 1]}
          /\ pos' = pos + 1 /\ UNCHANGED stage
       \/ pos < Len(Nodes) /\ Fail /\ UNCHANGED nodes
       \/ pos = Len(Nodes) /\ Advance /\ UNCHANGED nodes
    /\ UNCHANGED <<caches, objects, probes, traced, elevator, rvh, enabled, world>>

\* smart_io_trace_instance_init: getting the instance and storing the pointer
\* are two steps for a writer that looks at the pointer.  Its failure is only
\* logged.
InitTrace ==
    /\ stage = "trace"
    /\ \/ pos = 0 /\ refs' = refs + 1 /\ pos' = 1 /\ UNCHANGED <<stage, array>>
       \/ pos = 0 /\ Advance /\ UNCHANGED traced
       \/ pos = 1 /\ array' = TRUE /\ Advance /\ UNCHANGED refs
    /\ UNCHANGED <<caches, objects, nodes, probes, elevator, rvh, enabled, world>>

\* One turn of the loop over a table of probes: a probe is registered, or its
\* tracepoint is missing or refused, which fails the stage or is skipped.
RegisterProbe(g, skip) ==
    /\ stage = g
    /\ \/ /\ pos < Len(ProbesOf[g])
          /\ probes' = [probes EXCEPT ![g] = @ \cup {ProbesOf[g][pos + 1]}]
          /\ pos' = pos + 1 /\ UNCHANGED stage
       \/ /\ pos < Len(ProbesOf[g])
          /\ IF skip THEN pos' = pos + 1 /\ UNCHANGED stage ELSE Fail
          /\ UNCHANGED probes
       \/ pos = Len(ProbesOf[g]) /\ Advance /\ UNCHANGED probes
    /\ UNCHANGED <<caches, objects, nodes, traced, elevator, rvh, enabled, world>>

RegisterBlock == RegisterProbe("block", FALSE)
RegisterF2fs == RegisterProbe("f2fs", FALSE)
RegisterPsi == RegisterProbe("psi", FALSE)
RegisterPagecacheDemo == RegisterProbe("pagecache", TRUE)
RegisterUfs == RegisterProbe("ufs", FALSE)

StartThread ==
    /\ stage = "thread"
    /\ \/ poll' = [at |-> "sleep", stop |-> FALSE] /\ Advance
       \/ Fail /\ UNCHANGED poll
    /\ UNCHANGED <<caches, objects, nodes, probes, traced, elevator, rvh, enabled,
                   handler, writer, writes>>

RegisterElevator ==
    /\ stage = "elevator"
    /\ \/ elevator' = TRUE /\ Advance
       \/ Fail /\ UNCHANGED elevator
    /\ UNCHANGED <<caches, objects, nodes, probes, traced, rvh, enabled, world>>

\* A vendor hook of the restricted kind stays for good, which is why it is the
\* last thing that can fail.
RegisterDirtyrate ==
    /\ stage = "dirtyrate"
    /\ \/ rvh' = TRUE /\ Advance
       \/ Fail /\ UNCHANGED rvh
    /\ UNCHANGED <<caches, objects, nodes, probes, traced, elevator, enabled, world>>

-----------------------------------------------------------------------------
(* Unwinding.                                                              *)

\* Mutant: the callbacks are unregistered without waiting for them.
Synchronized_NoWait(g) == TRUE

\* tracepoint_synchronize_unregister: no callback that was removed still runs.
Synchronized(g) ==
    \A c \in CPUs : handler[c].probe \in Range(ProbesOf[g]) =>
                        handler[c].probe \in probes[g]

\* The loop over the entries with init set, then the wait.
UnregisterProbe(g, label) ==
    /\ stage = label
    /\ \/ /\ \E p \in probes[g] :
                probes' = [probes EXCEPT ![g] = @ \ {p}]
          /\ UNCHANGED setup
       \/ /\ probes[g] = {} /\ Synchronized(g)
          /\ Advance /\ UNCHANGED probes
    /\ UNCHANGED <<caches, objects, nodes, traced, elevator, rvh, enabled, world>>

UnregisterBlock == UnregisterProbe("block", "undo_block")
UnregisterF2fs == UnregisterProbe("f2fs", "undo_f2fs")
UnregisterPsi == UnregisterProbe("psi", "undo_psi")
UnregisterPagecacheDemo == UnregisterProbe("pagecache", "undo_pagecache")
UnregisterUfs == UnregisterProbe("ufs", "undo_ufs")

\* No queue runs the elevator while the module is still loading, and therefore
\* no model thread either.
UnregisterElevator ==
    /\ stage = "undo_elevator"
    /\ elevator' = FALSE /\ Advance
    /\ UNCHANGED <<caches, objects, nodes, probes, traced, rvh, enabled, world>>

\* kthread_stop tells the thread and waits until it has returned.
StopThread ==
    /\ stage = "undo_thread"
    /\ IF poll.at = "none"
       THEN Advance /\ poll' = NoThread
       ELSE ~poll.stop /\ poll' = [poll EXCEPT !.stop = TRUE] /\ UNCHANGED setup
    /\ UNCHANGED <<caches, objects, nodes, probes, traced, elevator, rvh, enabled,
                   handler, writer, writes>>

\* smart_io_trace_instance_exit reads the pointer, clears it, and drops the
\* reference of what it read.
ExitTrace ==
    /\ stage = "undo_trace"
    /\ \/ pos = 0 /\ array /\ array' = FALSE /\ pos' = 1 /\ UNCHANGED <<stage, refs>>
       \/ pos = 0 /\ ~array /\ Advance /\ UNCHANGED traced
       \/ pos = 1 /\ refs' = refs - 1 /\ Advance /\ UNCHANGED array
    /\ UNCHANGED <<caches, objects, nodes, probes, elevator, rvh, enabled, world>>

\* remove_proc_entry of one node waits for its writers, then the next one goes.
Drained == \A w \in Writers : writer[w].node \in nodes \cup {"none"}

RemoveNode ==
    /\ stage = "undo_nodes" /\ Drained
    /\ IF nodes = {}
       THEN Advance /\ UNCHANGED nodes
       ELSE /\ LET first == CHOOSE k \in 1 .. Len(Nodes) :
                              /\ Nodes[k] \in nodes
                              /\ \A j \in 1 .. k - 1 : Nodes[j] \notin nodes
               IN  nodes' = nodes \ {Nodes[first]}
            /\ UNCHANGED setup
    /\ UNCHANGED <<caches, objects, probes, traced, elevator, rvh, enabled, world>>

\* smart_io_clear_remap_state
ClearedRemap(o) == [k \in DOMAIN o |-> IF k \in RemapCaches THEN 0 ELSE o[k]]

\* Mutant: the uid entries of the current window are forgotten.
CleanupTables_NotUids ==
    /\ stage = "undo_records"
    /\ objects' = [k \in DOMAIN objects |-> IF k = "uid_io" THEN objects[k] ELSE 0]
    /\ Advance
    /\ UNCHANGED <<caches, nodes, probes, traced, elevator, rvh, enabled, world>>

\* The first half of smart_io_semantics_exit frees what is left of the tables:
\* remap entries, request records, and uid entries.
CleanupTables ==
    /\ stage = "undo_records"
    /\ objects' = [k \in DOMAIN objects |-> 0]
    /\ Advance
    /\ UNCHANGED <<caches, nodes, probes, traced, elevator, rvh, enabled, world>>

\* Its second half, and the error path of smart_io_semantics_init.
DestroyCache ==
    /\ stage = "undo_caches"
    /\ IF caches = {}
       THEN Advance /\ UNCHANGED caches
       ELSE /\ LET last == CHOOSE k \in 1 .. Len(Caches) :
                             /\ Caches[k] \in caches
                             /\ \A j \in k + 1 .. Len(Caches) : Caches[j] \notin caches
               IN  caches' = caches \ {Caches[last]}
            /\ UNCHANGED setup
    /\ UNCHANGED <<objects, nodes, probes, traced, elevator, rvh, enabled, world>>

-----------------------------------------------------------------------------
(* What runs meanwhile.                                                    *)

\* A registered probe is called.  The block callbacks look at the switch first;
\* those of the other tables touch no cache.
EnterProbe(c, g, p) ==
    /\ handler[c] = Idle /\ p \in probes[g]
    /\ handler' = [handler EXCEPT ![c] =
                     [probe |-> p, on |-> g = "block" /\ enabled]]
    /\ UNCHANGED <<setup, caches, objects, nodes, probes, traced, elevator, rvh,
                   enabled, writer, writes, poll>>

\* The body: a record, a remap entry or a uid entry is allocated or freed.
LeaveProbe(c) ==
    /\ handler[c] # Idle
    /\ handler' = [handler EXCEPT ![c] = Idle]
    /\ \/ UNCHANGED objects
       \/ /\ handler[c].on
          /\ \E k \in DOMAIN objects :
                \E n \in {objects[k] + 1, objects[k] - 1} :
                    /\ n \in 0 .. MaxObjects
                    /\ objects' = [objects EXCEPT ![k] = n]
    /\ UNCHANGED <<setup, caches, nodes, probes, traced, elevator, rvh, enabled,
                   writer, writes, poll>>

\* enable_write stores the switch; switching off clears the remap tables.
\* rawdata_trace_write has nothing to clear.  Both then log a line.
EnterNode(w, n, on) ==
    /\ writer[w] = Outside /\ n \in nodes /\ writes < MaxWrites
    /\ writes' = writes + 1
    /\ enabled' = IF n = "enable" THEN on ELSE enabled
    /\ writer' = [writer EXCEPT ![w] =
                    [node |-> n, at |-> IF n = "enable" /\ ~on THEN "clear" ELSE "log"]]
    /\ UNCHANGED <<setup, caches, objects, nodes, probes, traced, elevator, rvh,
                   handler, poll>>

ClearRemapState(w) ==
    /\ writer[w].at = "clear"
    /\ objects' = ClearedRemap(objects)
    /\ writer' = [writer EXCEPT ![w].at = "log"]
    /\ UNCHANGED <<setup, caches, nodes, probes, traced, elevator, rvh, enabled,
                   handler, writes, poll>>

\* smart_io_trace_log prints to the instance it finds; without one it retries.
TraceLog(w) ==
    /\ writer[w].at = "log"
    /\ writer' = [writer EXCEPT ![w] =
                    IF array THEN Outside ELSE [@ EXCEPT !.at = "retry"]]
    /\ UNCHANGED <<setup, caches, objects, nodes, probes, traced, elevator, rvh,
                   enabled, handler, writes, poll>>

\* instance_retry takes a reference, which may fail, and stores the pointer.
RetryGet(w) ==
    /\ writer[w].at = "retry"
    /\ \/ /\ refs' = refs + 1
          /\ writer' = [writer EXCEPT ![w].at = "store"]
       \/ writer' = [writer EXCEPT ![w] = Outside] /\ UNCHANGED refs
    /\ UNCHANGED <<setup, caches, objects, nodes, probes, array, elevator, rvh,
                   enabled, handler, writes, poll>>

RetryStore(w) ==
    /\ writer[w].at = "store"
    /\ array' = TRUE
    /\ writer' = [writer EXCEPT ![w] = Outside]
    /\ UNCHANGED <<setup, caches, objects, nodes, probes, refs, elevator, rvh,
                   enabled, handler, writes, poll>>

\* Mutant: the loop does not look at the stop flag.
PollLoop_Forever ==
    /\ poll.at = "sleep"
    /\ poll' = [poll EXCEPT !.at = "tick"]
    /\ UNCHANGED <<setup, caches, objects, nodes, probes, traced, elevator, rvh,
                   enabled, handler, writer, writes>>

\* sys_poll_thread: it looks at the stop flag, sleeps, then does a whole round
\* whether or not it was told to stop meanwhile.
PollLoop ==
    /\ poll.at = "sleep"
    /\ poll' = IF poll.stop THEN [poll EXCEPT !.at = "none"]
                            ELSE [poll EXCEPT !.at = "tick"]
    /\ UNCHANGED <<setup, caches, objects, nodes, probes, traced, elevator, rvh,
                   enabled, handler, writer, writes>>

\* The round frees the uid entries of the window before the last.
PollTick ==
    /\ poll.at = "tick"
    /\ poll' = [poll EXCEPT !.at = "sleep"]
    /\ objects' \in {objects, [objects EXCEPT !["uid_io"] = 0]}
    /\ UNCHANGED <<setup, caches, nodes, probes, traced, elevator, rvh, enabled,
                   handler, writer, writes>>

-----------------------------------------------------------------------------
Loading ==
    \/ CreateCache \/ CreateNode \/ InitTrace
    \/ RegisterBlock \/ RegisterF2fs \/ RegisterPsi \/ RegisterPagecacheDemo
    \/ StartThread \/ RegisterElevator \/ RegisterUfs \/ RegisterDirtyrate

Undoing ==
    \/ UnregisterUfs \/ UnregisterElevator \/ StopThread
    \/ UnregisterPagecacheDemo \/ UnregisterPsi \/ UnregisterF2fs
    \/ UnregisterBlock \/ ExitTrace \/ RemoveNode \/ CleanupTables \/ DestroyCache

Write(w) == ClearRemapState(w) \/ TraceLog(w) \/ RetryGet(w) \/ RetryStore(w)

Next ==
    \/ Loading \/ Undoing
    \/ \E c \in CPUs :
          \/ \E g \in Groups, p \in Probes : EnterProbe(c, g, p)
          \/ LeaveProbe(c)
    \/ \E w \in Writers :
          \/ \E n \in Range(Nodes), on \in BOOLEAN : EnterNode(w, n, on)
          \/ Write(w)
    \/ PollLoop \/ PollTick

Spec == Init /\ [][Next]_vars

\* insmod runs; callbacks, system calls and the polling thread do return.
Fairness ==
    /\ WF_vars(Loading) /\ WF_vars(Undoing)
    /\ \A c \in CPUs : WF_vars(LeaveProbe(c))
    /\ \A w \in Writers : WF_vars(Write(w))
    /\ WF_vars(PollLoop \/ PollTick)

FairSpec == Spec /\ Fairness

-----------------------------------------------------------------------------
(* Properties.                                                             *)

TypeOK ==
    /\ stage \in Stages /\ pos \in Nat
    /\ caches \subseteq Range(Caches)
    /\ objects \in [Range(Caches) -> 0 .. MaxObjects]
    /\ nodes \subseteq Range(Nodes)
    /\ probes \in [Groups -> SUBSET Probes]
    /\ \A g \in Groups : probes[g] \subseteq Range(ProbesOf[g])
    /\ array \in BOOLEAN /\ refs \in Nat
    /\ elevator \in BOOLEAN /\ rvh \in BOOLEAN /\ enabled \in BOOLEAN
    /\ handler \in [CPUs -> [probe : Probes \cup {"none"}, on : BOOLEAN]]
    /\ writer \in [Writers -> [node : Range(Nodes) \cup {"none"},
                               at : {"out", "clear", "log", "retry", "store"}]]
    /\ poll \in [at : {"none", "sleep", "tick"}, stop : BOOLEAN]

\* Whatever still runs - a callback that saw the switch on, a writer about to
\* clear the remap tables, the polling thread in its round - finds every cache
\* it may allocate from or free to.
NoUseAfterDestroy ==
    \/ caches = Range(Caches)
    \/ /\ \A c \in CPUs : ~handler[c].on
       /\ \A w \in Writers : writer[w].at # "clear"
       /\ poll.at # "tick"

\* A cache is destroyed only when nothing allocated from it is left, whatever
\* was still running when the unwinding began.
DestroyedEmpty == [][\A k \in caches \ caches' : objects[k] = 0]_vars

\* When insmod reports an error, nothing of the module can be called any more:
\* the kernel frees its text.
CleanFailure ==
    stage = "failed" =>
        /\ caches = {} /\ nodes = {} /\ ~elevator /\ ~rvh
        /\ \A g \in Groups : probes[g] = {}
        /\ poll = NoThread
        /\ \A c \in CPUs : handler[c] = Idle
        /\ \A w \in Writers : writer[w] = Outside

\* A pointer to the trace instance is only ever published while a reference
\* protects it, however retries, initialisation and release interleave.
StoredIsReferenced == array => refs > 0

\* Nothing that runs or is published while the module comes up or is undone
\* refers to what is gone.
NothingDangles ==
    /\ TypeOK
    /\ NoUseAfterDestroy
    /\ StoredIsReferenced

\* Every load ends, either with the module up or with everything undone.
EveryLoadEnds == <>(stage \in {"loaded", "failed"})

\* trace_instance.c:78 logs "tracing instance released" when the unwinding has
\* dropped its reference: none is left then.
ReleasedMeansFree ==
    [][stage = "undo_trace" /\ pos = 1 /\ stage' # stage => refs' = 0]_vars
=============================================================================
