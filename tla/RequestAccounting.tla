-------------------------- MODULE RequestAccounting --------------------------
(***************************************************************************)
(* The depth accounting of one request queue in smart_io_throttle.c.       *)
(*                                                                         *)
(* Every block request the throttle sees owns one smart_io_rq_meta from a  *)
(* fixed pool.  The meta remembers what the request holds: a place in the  *)
(* waiting count, a reservation of current_depth and of bg_current_depth,  *)
(* a place in issued_depth.  The handlers below run under ctx->lock, one   *)
(* action per handler; the block layer decides when they run, and serial-  *)
(* ises the handlers of one and the same request.                          *)
(*                                                                         *)
(* A meta is found in two ways: by rq->elv.priv[1] (elevator callbacks,    *)
(* requests with RQF_USE_SCHED only) and by the hash ctx->active (trace-   *)
(* point handlers).  Both are modelled, because the handlers of one        *)
(* request mix them.                                                       *)
(*                                                                         *)
(* Abstracted: sectors, operations and timestamps; RT and BE queues are    *)
(* one class "NonHP", which this code never tells apart; the U32_MAX       *)
(* overflow checks, since no counter exceeds the number of requests;       *)
(* deadline_forced, which the compiled dispatch path never sets.           *)
(***************************************************************************)
EXTENDS Naturals, FiniteSets

CONSTANTS
  Requests,      \* the requests of the queue's tag sets, reused for ever
  MetaCapacity,  \* ctx->meta_capacity: scheduler tags plus flush requests
  Bypass         \* BOOLEAN: do requests exist that go round the elevator?

ASSUME AccountingAssumption ==
  /\ IsFiniteSet(Requests)
  /\ MetaCapacity \in Nat
  /\ Cardinality(Requests) <= MetaCapacity
  /\ Bypass \in BOOLEAN

VARIABLES
  phase,             \* where the block layer has each request
  use_sched,         \* RQF_USE_SCHED: the elevator callbacks see the request
  priv,              \* rq->elv.priv[1] points to the request's meta
  meta,              \* the smart_io_rq_meta of each request
  current_depth,     \* ctx->current_depth
  bg_current_depth,  \* ctx->bg_current_depth
  issued_depth,      \* ctx->issued_depth
  pending,           \* ctx->pending_fg and ctx->pending_bg, by class
  meta_inuse,        \* ctx->meta_inuse
  anomaly            \* ctx->depth_anomalies # 0

counters == <<current_depth, bg_current_depth, issued_depth, pending,
              meta_inuse, anomaly>>
blockVars == <<phase, use_sched>>
accountingVars == <<blockVars, priv, meta, counters>>

Phases == {"idle", "new", "queued", "merged", "dispatched", "issued",
           "requeued", "ended"}
Classes == {"FG", "BG"}
QueueClasses == {"HP", "NonHP"}

(* smart_io_throttle_class_for_queue *)
ClassForQueue(q) == IF q = "HP" THEN "FG" ELSE "BG"

Meta == [held : BOOLEAN,          \* taken from the pool, hashed in ctx->active
         class : Classes, queue_class : QueueClasses,
         queued : BOOLEAN,        \* counted in pending[class]
         depth : BOOLEAN,         \* depth_accounted
         bg : BOOLEAN,            \* bg_depth_accounted
         issued : BOOLEAN]        \* issued_accounted

(* A meta as the pool keeps it: memset to 0, and 0 is SMART_IO_QUEUE_HP    *)
(* and SMART_IO_RQ_FOREGROUND.                                             *)
FreeMeta == [held |-> FALSE, class |-> "FG", queue_class |-> "HP",
             queued |-> FALSE, depth |-> FALSE, bg |-> FALSE,
             issued |-> FALSE]

NoPending == [c \in Classes |-> 0]

AccountingInit ==
  /\ phase = [r \in Requests |-> "idle"]
  /\ use_sched = [r \in Requests |-> FALSE]
  /\ priv = [r \in Requests |-> FALSE]
  /\ meta = [r \in Requests |-> FreeMeta]
  /\ current_depth = 0
  /\ bg_current_depth = 0
  /\ issued_depth = 0
  /\ pending = NoPending
  /\ meta_inuse = 0
  /\ anomaly = FALSE

-----------------------------------------------------------------------------
(* The *_locked helpers.  Each counter checks for underflow before it is   *)
(* decremented, and an underflow is recorded as a depth anomaly.           *)

Dec(n) == IF n = 0 THEN 0 ELSE n - 1

(* smart_io_throttle_pending_inc_locked and ..._pending_dec_locked: the    *)
(* count of the meta's own class, once per stay in the elevator.           *)
PendingInc(m) == IF m.queued THEN pending ELSE [pending EXCEPT ![m.class] = @ + 1]
PendingDec(m) == IF m.queued THEN [pending EXCEPT ![m.class] = Dec(@)] ELSE pending
PendingFails(m) == m.queued /\ pending[m.class] = 0

(* smart_io_throttle_alloc_meta_locked: a pool slot, or an anomaly.        *)
CanAlloc == meta_inuse < MetaCapacity
NewMeta(class) == [FreeMeta EXCEPT !.held = TRUE, !.class = class]

(* smart_io_throttle_account_depth_locked: refuses a second reservation.   *)
AccountFails(m) == m.depth
Accounted(m) == IF m.depth THEN m
                ELSE [m EXCEPT !.depth = TRUE,
                               !.bg = m.bg \/ m.queue_class # "HP"]
AccountDepth(m) ==
  /\ current_depth' = IF m.depth THEN current_depth ELSE current_depth + 1
  /\ bg_current_depth' = IF m.depth \/ m.queue_class = "HP"
                           THEN bg_current_depth ELSE bg_current_depth + 1

(* smart_io_throttle_release_depth_locked: an underflow of current_depth   *)
(* returns before the background reservation is looked at.                 *)
ReleasesBg(m) == m.depth /\ m.bg /\ current_depth # 0
DepthFails(m) == m.depth /\ (current_depth = 0 \/ (m.bg /\ bg_current_depth = 0))
(* smart_io_throttle_release_issued_depth_locked *)
IssuedFails(m) == m.issued /\ issued_depth = 0
ReleaseFails(m) == DepthFails(m) \/ IssuedFails(m)

(* Mutant: the release forgets the background counter.                     *)
ReleaseCounters_KeepsBg(m) ==
  /\ current_depth' = IF m.depth THEN Dec(current_depth) ELSE current_depth
  /\ UNCHANGED bg_current_depth
  /\ issued_depth' = IF m.issued THEN Dec(issued_depth) ELSE issued_depth

ReleaseCounters(m) ==
  /\ current_depth' = IF m.depth THEN Dec(current_depth) ELSE current_depth
  /\ bg_current_depth' = IF ReleasesBg(m) THEN Dec(bg_current_depth)
                                          ELSE bg_current_depth
  /\ issued_depth' = IF m.issued THEN Dec(issued_depth) ELSE issued_depth

(* Mutant: issued_accounted is not cleared.                                *)
Released_StaysIssued(m) == [m EXCEPT !.depth = FALSE, !.bg = m.bg /\ ~ReleasesBg(m)]

Released(m) == [m EXCEPT !.depth = FALSE, !.issued = FALSE,
                         !.bg = m.bg /\ ~ReleasesBg(m)]

(* smart_io_throttle_free_meta_locked after the releases: the last calls   *)
(* of finish_request and of a final record_complete.                       *)
FreeFails(m) == meta_inuse = 0 \/ PendingFails(m)

ReleaseAndFree(r) ==
  LET m == meta[r]
  IN  /\ ReleaseCounters(m)
      /\ anomaly' = (anomaly \/ ReleaseFails(m) \/ FreeFails(m))
      /\ IF meta_inuse = 0
           THEN /\ meta' = [meta EXCEPT ![r] = Released(m)]
                /\ UNCHANGED <<pending, priv, meta_inuse>>
           ELSE /\ meta' = [meta EXCEPT ![r] = FreeMeta]
                /\ pending' = PendingDec(m)
                /\ priv' = [priv EXCEPT ![r] = FALSE]
                /\ meta_inuse' = meta_inuse - 1

-----------------------------------------------------------------------------
(* The handlers.  Moves(r, from, to) is the block layer's side of a step.  *)

Moves(r, from, to) ==
  /\ phase[r] \in from
  /\ phase' = [phase EXCEPT ![r] = to]

(* The block layer takes a tag.  With RQF_USE_SCHED it calls               *)
(* dd_prepare_request, which forgets whatever priv[1] held; a flush or     *)
(* passthrough request never has a priv[1].                                *)
Prepare(r, sched) ==
  /\ sched \/ Bypass
  /\ Moves(r, {"idle"}, "new")
  /\ use_sched' = [use_sched EXCEPT ![r] = sched]
  /\ priv' = [priv EXCEPT ![r] = FALSE]
  /\ UNCHANGED <<meta, counters>>

(* smart_io_throttle_classify_request, from dd_insert_request.  A request  *)
(* that comes back keeps the queue of its meta; for a new one q is what    *)
(* smart_io_throttle_select_queue reads off the ioprio and the task.       *)
ClassifyRequest(r, q) ==
  LET old == meta[r]
      m == IF priv[r] THEN old
           ELSE [NewMeta(ClassForQueue(q)) EXCEPT !.queue_class = q]
  IN  /\ use_sched[r]
      /\ Moves(r, {"new", "requeued"}, "queued")
      /\ IF priv[r] \/ CanAlloc
           THEN /\ meta' = [meta EXCEPT ![r] = [m EXCEPT !.queued = TRUE]]
                /\ pending' = PendingInc(m)
                /\ priv' = [priv EXCEPT ![r] = TRUE]
                /\ meta_inuse' = IF priv[r] THEN meta_inuse ELSE meta_inuse + 1
                /\ UNCHANGED anomaly
           ELSE /\ anomaly' = TRUE
                /\ UNCHANGED <<meta, pending, priv, meta_inuse>>
      /\ UNCHANGED <<use_sched, current_depth, bg_current_depth, issued_depth>>

(* Mutant: the merged request stays marked as queued.                      *)
UnqueueRequest_StaysQueued(r) ==
  /\ Moves(r, {"queued"}, "merged")
  /\ pending' = PendingDec(meta[r])
  /\ UNCHANGED <<meta, anomaly>>
  /\ UNCHANGED <<use_sched, priv, current_depth, bg_current_depth,
                 issued_depth, meta_inuse>>

(* smart_io_throttle_unqueue_request, from dd_merged_requests: the request *)
(* was merged into another one and only waits to be freed.                 *)
UnqueueRequest(r) ==
  LET m == meta[r]
  IN  /\ Moves(r, {"queued"}, "merged")
      /\ IF priv[r]
           THEN /\ meta' = [meta EXCEPT ![r].queued = FALSE]
                /\ pending' = PendingDec(m)
                /\ anomaly' = (anomaly \/ PendingFails(m))
           ELSE UNCHANGED <<meta, pending, anomaly>>
      /\ UNCHANGED <<use_sched, priv, current_depth, bg_current_depth,
                     issued_depth, meta_inuse>>

(* smart_io_throttle_account_dispatch, from dd_dispatch_request.           *)
DispatchFails(r) == ~priv[r] \/ PendingFails(meta[r]) \/ AccountFails(meta[r])

AccountDispatch(r) ==
  LET m == [meta[r] EXCEPT !.queued = FALSE]
  IN  /\ Moves(r, {"queued"}, "dispatched")
      /\ anomaly' = (anomaly \/ DispatchFails(r))
      /\ IF priv[r]
           THEN /\ pending' = PendingDec(meta[r])
                /\ AccountDepth(m)
                /\ meta' = [meta EXCEPT ![r] = Accounted(m)]
           ELSE UNCHANGED <<pending, meta, current_depth, bg_current_depth>>
      /\ UNCHANGED <<use_sched, priv, issued_depth, meta_inuse>>

(* smart_io_throttle_record_issue, from the block_rq_issue tracepoint.     *)
(* A request that went round the elevator gets its meta here: its class is *)
(* the selected one, but nothing assigns queue_class, which stays HP.      *)
RecordIssue(r, q) ==
  LET found == meta[r].held
      m == IF found THEN meta[r] ELSE NewMeta(ClassForQueue(q))
      done == [Accounted(m) EXCEPT !.issued = TRUE]
  IN  /\ phase[r] = "new" => Bypass
      /\ Moves(r, {"new", "dispatched", "requeued"}, "issued")
      /\ IF found \/ CanAlloc
           THEN /\ AccountDepth(m)
                /\ issued_depth' = IF m.issued THEN issued_depth
                                               ELSE issued_depth + 1
                /\ meta' = [meta EXCEPT ![r] = done]
                /\ priv' = IF found THEN priv
                           ELSE [priv EXCEPT ![r] = use_sched[r]]
                /\ meta_inuse' = IF found THEN meta_inuse ELSE meta_inuse + 1
                /\ UNCHANGED anomaly
           ELSE /\ anomaly' = TRUE
                /\ UNCHANGED <<meta, priv, current_depth, bg_current_depth,
                               issued_depth, meta_inuse>>
      /\ UNCHANGED <<use_sched, pending>>

(* smart_io_throttle_record_requeue, from block_rq_requeue: the device or  *)
(* the driver was busy.  The meta is kept for the next attempt.            *)
RecordRequeue(r) ==
  LET m == meta[r]
  IN  /\ phase[r] = "new" => Bypass
      /\ Moves(r, {"new", "dispatched", "issued"}, "requeued")
      /\ IF m.held
           THEN /\ ReleaseCounters(m)
                /\ anomaly' = (anomaly \/ ReleaseFails(m))
                /\ meta' = [meta EXCEPT ![r] = Released(m)]
           ELSE UNCHANGED <<meta, current_depth, bg_current_depth,
                            issued_depth, anomaly>>
      /\ UNCHANGED <<use_sched, priv, pending, meta_inuse>>

(* smart_io_throttle_record_complete with final true, from                 *)
(* block_rq_complete: the last bytes are done, or the request failed       *)
(* before it was started.  A partial completion changes nothing here.      *)
RecordFinalComplete(r) ==
  /\ phase[r] = "new" => Bypass
  /\ Moves(r, {"new", "dispatched", "issued", "requeued"}, "ended")
  /\ IF meta[r].held THEN ReleaseAndFree(r)
                     ELSE UNCHANGED <<priv, meta, counters>>
  /\ UNCHANGED use_sched

(* dd_finish_request: the tag is given back.  The throttle frees what it   *)
(* still finds through priv[1], as after a merge.                          *)
FinishRequest(r) ==
  /\ Moves(r, {"new", "merged", "ended"}, "idle")
  /\ IF use_sched[r] /\ priv[r] THEN ReleaseAndFree(r)
                                ELSE UNCHANGED <<priv, meta, counters>>
  /\ UNCHANGED use_sched

AccountingNext ==
  \E r \in Requests :
    \/ \E sched \in BOOLEAN : Prepare(r, sched)
    \/ \E q \in QueueClasses : ClassifyRequest(r, q) \/ RecordIssue(r, q)
    \/ UnqueueRequest(r)
    \/ AccountDispatch(r)
    \/ RecordRequeue(r)
    \/ RecordFinalComplete(r)
    \/ FinishRequest(r)

AccountingSpec == AccountingInit /\ [][AccountingNext]_accountingVars

-----------------------------------------------------------------------------
(* Properties.                                                             *)

(* Every variable keeps its type, and no counter ever exceeds the number   *)
(* of requests the tag sets can have outstanding.                          *)
AccountingTypeOK ==
  LET Count == 0 .. Cardinality(Requests)
  IN  /\ phase \in [Requests -> Phases]
      /\ use_sched \in [Requests -> BOOLEAN]
      /\ priv \in [Requests -> BOOLEAN]
      /\ meta \in [Requests -> Meta]
      /\ current_depth \in Count
      /\ bg_current_depth \in Count
      /\ issued_depth \in Count
      /\ pending \in [Classes -> Count]
      /\ meta_inuse \in Count
      /\ anomaly \in BOOLEAN

Reserved == {r \in Requests : meta[r].depth}
BgReserved == {r \in Requests : meta[r].bg}
InDevice == {r \in Requests : meta[r].issued}
Waiting(c) == {r \in Requests : meta[r].queued /\ meta[r].class = c}
Held == {r \in Requests : meta[r].held}

(* The counters the gate, the model and the statistics read are exactly    *)
(* the number of requests that hold each kind of place, after any          *)
(* interleaving of dispatch, issue, requeue, completion and merge.         *)
CountersExact ==
  /\ current_depth = Cardinality(Reserved)
  /\ bg_current_depth = Cardinality(BgReserved)
  /\ issued_depth = Cardinality(InDevice)
  /\ \A c \in Classes : pending[c] = Cardinality(Waiting(c))
  /\ meta_inuse = Cardinality(Held)

(* What a request holds follows from where the block layer has it: a       *)
(* waiting place only in the elevator, a reservation only from dispatch or *)
(* issue to requeue or completion, a meta never past the request's end,    *)
(* and priv[1] and ctx->active always name the same meta.                  *)
MetaMatchesPhase ==
  \A r \in Requests :
    LET m == meta[r]
    IN  /\ m.queued <=> phase[r] = "queued"
        /\ m.depth <=> phase[r] \in {"dispatched", "issued"}
        /\ m.issued <=> phase[r] = "issued"
        /\ m.bg <=> m.depth /\ m.queue_class # "HP"
        /\ priv[r] <=> m.held /\ use_sched[r]
        /\ phase[r] \in {"idle", "new", "ended"} => ~m.held
        /\ phase[r] \in {"queued", "merged", "dispatched", "issued"} => m.held
        /\ phase[r] \in {"queued", "merged"} => use_sched[r]

(* No handler ever meets the states that count as depth anomalies: an      *)
(* empty pool, a second reservation, a counter that would go below zero.   *)
NoAnomaly == ~anomaly

(* The WARN_ONs of smart_io_throttle_queue_exit: when the block layer has  *)
(* taken every request back, every counter is zero and the pool is whole.  *)
ExitClean ==
  (\A r \in Requests : phase[r] = "idle") =>
    /\ current_depth = 0 /\ bg_current_depth = 0 /\ issued_depth = 0
    /\ pending = NoPending
    /\ meta_inuse = 0

(* smart_io_throttle.h describes bg_current_depth as "background dispatch  *)
(* to final complete": a background reservation is only given up when the  *)
(* request ends.                                                           *)
BgHeldToFinalComplete ==
  [][\A r \in Requests :
       meta[r].bg /\ ~meta'[r].bg => phase'[r] \in {"ended", "idle"}]_accountingVars

(* Through every handler the meta of a request says what the request       *)
(* holds, the pool is whole again when all requests are returned, and the  *)
(* counters keep their types.                                              *)
MetaConsistent ==
  /\ AccountingTypeOK
  /\ MetaMatchesPhase
  /\ ExitClean
=============================================================================
