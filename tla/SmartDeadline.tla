--------------------------- MODULE SmartDeadline ---------------------------
(***************************************************************************)
(* The smart-deadline elevator (smart_deadline.c): the lists, trees and    *)
(* counters of its three queues, from the moment the block layer takes a   *)
(* tag to the moment it gives it back.  Everything below happens under     *)
(* deadline_data.lock except Prepare, Issue and Finish.                    *)
(*                                                                         *)
(* Of the throttle this module keeps what the elevator asks it: the queue  *)
(* of a request, which the request's meta remembers, and whether non-HP    *)
(* requests may go.  The gate has its own lock and is a free answer here,  *)
(* asked once for RT and once more for BE; module Throttle decides it.     *)
(*                                                                         *)
(* Sectors are left out: any two mergeable requests of equal direction and *)
(* ioprio may turn out to be neighbours.                                   *)
(***************************************************************************)
EXTENDS Naturals, FiniteSets, Sequences, SequencesExt

CONSTANTS
  Requests,       \* the requests of the queue's tag sets
  Unmergeable,    \* those whose flags forbid merging
  Ioprios,        \* the I/O priorities requests are submitted with
  MetaCapacity,   \* metas in the throttle's pool
  CounterSpan,    \* 2^w for counters of w bits
  MaxJiffies      \* bound of the clock

Prios == {"HP", "RT", "BE"}
Dirs == {"read", "write"}
None == "none"

ASSUME DeadlineAssumption ==
  /\ IsFiniteSet(Requests)
  /\ None \notin Requests
  /\ Unmergeable \subseteq Requests
  /\ Ioprios \subseteq Prios
  /\ MetaCapacity \in Nat
  /\ CounterSpan \in Nat \ {0}
  /\ MaxJiffies \in Nat

VARIABLES
  phase,       \* where the request is on its way
  dir,         \* rq_data_dir
  ioprio,      \* its priority; "HP" is any with the HP hint
  home,        \* elv.priv[0]: the queue that counts it
  class,       \* meta->queue_class through elv.priv[1], None without a meta
  fifo_time,   \* when it was linked
  dispatch,    \* per queue: requests put back at its head
  fifo,        \* per queue and direction: requests by arrival
  sort_list,   \* per queue and direction: the tree, as a set
  rqhash,      \* requests the block layer finds for a back merge
  last_merge,  \* q->last_merge
  inserted,    \* per queue: io_stats_per_prio.inserted
  completed,   \* per queue: io_stats_per_prio.completed
  wrong_root,  \* a tree was told to remove a request that it does not hold
  jiffies      \* the clock

requestVars == <<phase, dir, ioprio, home, class>>
listVars == <<fifo_time, dispatch, fifo, sort_list, rqhash, last_merge,
              wrong_root>>
countVars == <<inserted, completed>>
deadlineVars == <<requestVars, listVars, countVars, jiffies>>

Phases == {"idle", "new", "queued", "merged", "dispatched", "requeued"}

Empty == [p \in Prios |-> [d \in Dirs |-> << >>]]

DeadlineInit ==
  /\ phase = [r \in Requests |-> "idle"]
  /\ dir = [r \in Requests |-> "read"]
  /\ ioprio = [r \in Requests |-> "BE"]
  /\ home = [r \in Requests |-> None]
  /\ class = [r \in Requests |-> None]
  /\ fifo_time = [r \in Requests |-> 0]
  /\ dispatch = [p \in Prios |-> << >>]
  /\ fifo = Empty
  /\ sort_list = [p \in Prios |-> [d \in Dirs |-> {}]]
  /\ rqhash = {}
  /\ last_merge = None
  /\ inserted = [p \in Prios |-> 0]
  /\ completed = [p \in Prios |-> 0]
  /\ wrong_root = FALSE
  /\ jiffies = 0

-----------------------------------------------------------------------------
(* What the handlers are built from.                                       *)

(* smart_io_throttle_select_queue: the meta's queue, else HP for a request *)
(* with the hint or a calling task (fg) that may mark HP, else by ioprio.  *)
SelectQueue(r, fg) ==
  CASE class[r] # None -> class[r]
    [] class[r] = None /\ fg -> "HP"
    [] OTHER -> ioprio[r]

MetaRoom == Cardinality({r \in Requests : class[r] # None}) < MetaCapacity

Linked(r) == \E p \in Prios, d \in Dirs : r \in sort_list[p][d]

(* Taking r off queue p's tree would go to a root that does not hold it. *)
Misdirected(r, p) == Linked(r) /\ r \notin sort_list[p][dir[r]]

Mergeable(r) == r \notin Unmergeable /\ phase[r] # "requeued"

(* Mutant: the block layer keeps finding the request that has gone.        *)
RemoveRequest_KeepsHint(r, p) ==
  /\ dispatch' = [q \in Prios |-> RemoveFirst(dispatch[q], r)]
  /\ fifo' = [q \in Prios |-> [d \in Dirs |-> RemoveFirst(fifo[q][d], r)]]
  /\ sort_list' = [q \in Prios |-> [d \in Dirs |-> sort_list[q][d] \ {r}]]
  /\ rqhash' = rqhash \ {r}
  /\ UNCHANGED last_merge
  /\ wrong_root' = (wrong_root \/ Misdirected(r, p))

(* deadline_remove_request: off whatever list it is on, off the tree of    *)
(* queue p unless it never was on a tree, and out of the merge hints.  The *)
(* node unlinks itself from its neighbours whichever root is named.  What  *)
(* rb_erase may do to the two roots when it is the wrong one is left out:  *)
(* wrong_root records it, and no property speaks of the lists after that.  *)
RemoveRequest(r, p) ==
  /\ dispatch' = [q \in Prios |-> RemoveFirst(dispatch[q], r)]
  /\ fifo' = [q \in Prios |-> [d \in Dirs |-> RemoveFirst(fifo[q][d], r)]]
  /\ sort_list' = [q \in Prios |-> [d \in Dirs |-> sort_list[q][d] \ {r}]]
  /\ rqhash' = rqhash \ {r}
  /\ last_merge' = IF last_merge = r THEN None ELSE last_merge
  /\ wrong_root' = (wrong_root \/ Misdirected(r, p))

-----------------------------------------------------------------------------
(* The elevator's operations.                                              *)

(* dd_prepare_request: a tag was taken; the request forgets both pointers. *)
Prepare(r, d, i) ==
  /\ phase[r] = "idle"
  /\ phase' = [phase EXCEPT ![r] = "new"]
  /\ dir' = [dir EXCEPT ![r] = d]
  /\ ioprio' = [ioprio EXCEPT ![r] = i]
  /\ home' = [home EXCEPT ![r] = None]
  /\ class' = [class EXCEPT ![r] = None]
  /\ UNCHANGED <<listVars, countVars, jiffies>>

(* Mutant: every insertion is counted, that of a requeued request as well. *)
CountInsert_Always(r, p) ==
  inserted' = [inserted EXCEPT ![p] = (@ + 1) % CounterSpan]

(* A request is counted by the first queue it is inserted in.              *)
CountInsert(r, p) ==
  inserted' = IF home[r] = None
                THEN [inserted EXCEPT ![p] = (@ + 1) % CounterSpan]
                ELSE inserted

(* The first half of dd_insert_request: classify, mark and count.          *)
Classify(r, p) ==
  /\ class' = [class EXCEPT ![r] = IF @ # None \/ MetaRoom THEN p ELSE None]
  /\ ioprio' = [ioprio EXCEPT ![r] = IF p = "HP" THEN "HP" ELSE @]
  /\ CountInsert(r, p)
  /\ home' = [home EXCEPT ![r] = p]
  /\ UNCHANGED <<dir, completed, jiffies>>

(* blk_mq_sched_try_insert_merge found a neighbour t: dd_merged_requests   *)
(* takes r in, which is on no list yet.                                    *)
InsertMerged(r, t, fg) ==
  LET p == SelectQueue(r, fg)
  IN  /\ phase[r] = "new"
      /\ Mergeable(r)
      /\ t \in rqhash
      /\ dir[t] = dir[r]
      /\ ioprio[t] = IF p = "HP" THEN "HP" ELSE ioprio[r]
      /\ Classify(r, p)
      /\ RemoveRequest(r, p)
      /\ phase' = [phase EXCEPT ![r] = "merged"]
      /\ UNCHANGED fifo_time

(* BLK_MQ_INSERT_AT_HEAD, which is how the block layer puts back requests  *)
(* that the driver could not take.                                         *)
LinkAtHead(r, p) ==
  /\ dispatch' = [dispatch EXCEPT ![p] = <<r>> \o @]
  /\ fifo_time' = [fifo_time EXCEPT ![r] = jiffies]
  /\ UNCHANGED <<fifo, sort_list, rqhash, last_merge, wrong_root>>

LinkByArrival(r, p) ==
  /\ fifo' = [fifo EXCEPT ![p][dir[r]] = Append(@, r)]
  /\ sort_list' = [sort_list EXCEPT ![p][dir[r]] = @ \cup {r}]
  /\ fifo_time' = [fifo_time EXCEPT ![r] = jiffies]
  /\ IF Mergeable(r)
       THEN /\ rqhash' = rqhash \cup {r}
            /\ last_merge' = IF last_merge = None THEN r ELSE last_merge
       ELSE UNCHANGED <<rqhash, last_merge>>
  /\ UNCHANGED <<dispatch, wrong_root>>

(* dd_insert_request when nothing takes the request in.                    *)
Insert(r, fg) ==
  LET p == SelectQueue(r, fg)
  IN  /\ phase[r] \in {"new", "requeued"}
      /\ Classify(r, p)
      /\ IF phase[r] = "requeued" THEN LinkAtHead(r, p) ELSE LinkByArrival(r, p)
      /\ phase' = [phase EXCEPT ![r] = "queued"]

(* dd_request_merged after a front merge: off the tree that the request is *)
(* on, by the root of the queue that the caller's task selects, and on to  *)
(* the tree of that queue; the FIFO stays.  Without a meta the two queues  *)
(* may differ, and the request is then on one queue's FIFO and in the      *)
(* other's tree.                                                           *)
RequestMerged(r, fg) ==
  LET p == SelectQueue(r, fg)
      d == dir[r]
  IN  /\ r \in rqhash
      /\ sort_list' = [q \in Prios |-> [sort_list[q] EXCEPT
                         ![d] = IF q = p THEN @ \cup {r} ELSE @ \ {r}]]
      /\ wrong_root' = (wrong_root \/ r \notin sort_list[p][d])
      /\ UNCHANGED <<requestVars, fifo_time, dispatch, fifo, rqhash,
                     last_merge, countVars, jiffies>>

(* When next was linked earlier, req takes its time and its place, on the  *)
(* FIFO that next is on.                                                   *)
InheritPlace(req, next) ==
  LET earlier == fifo_time[next] < fifo_time[req]
  IN  /\ fifo_time' = IF earlier
                        THEN [fifo_time EXCEPT ![req] = fifo_time[next]]
                        ELSE fifo_time
      /\ fifo' = [q \in Prios |-> [d \in Dirs |->
           IF earlier THEN ReplaceAll(RemoveFirst(fifo[q][d], req), next, req)
                      ELSE RemoveFirst(fifo[q][d], next)]]

(* dd_merged_requests for two linked requests: a bio or a request filled   *)
(* the gap between them.  Both are in one tree (of queue p), for that is   *)
(* where the block layer looks for a neighbour; the task that runs this    *)
(* selects the queue the code removes next from.                           *)
MergedRequests(req, next, p, fg) ==
  LET d == dir[req]
  IN  /\ req # next
      /\ {req, next} \subseteq sort_list[p][d] \cap rqhash
      /\ ioprio[req] = ioprio[next]
      /\ InheritPlace(req, next)
      /\ sort_list' = [sort_list EXCEPT ![p][d] = @ \ {next}]
      /\ rqhash' = rqhash \ {next}
      /\ last_merge' = IF last_merge = next THEN None ELSE last_merge
      /\ wrong_root' =
           (wrong_root \/ next \notin sort_list[SelectQueue(next, fg)][d])
      /\ phase' = [phase EXCEPT ![next] = "merged"]
      /\ UNCHANGED <<dir, ioprio, home, class, dispatch, countVars, jiffies>>

HasWork(p) ==
  dispatch[p] # << >> \/ \E d \in Dirs : fifo[p][d] # << >>

(* Mutant: reads always go before writes.                                  *)
First_ReadsFirst(p) ==
  LET reads == fifo[p]["read"]
      writes == fifo[p]["write"]
  IN  CASE dispatch[p] # << >> -> Head(dispatch[p])
        [] dispatch[p] = << >> /\ reads # << >> -> Head(reads)
        [] OTHER -> Head(writes)

(* dd_dispatch_fifo's choice: the head of the dispatch list; else of the   *)
(* two FIFO heads the earlier one, and the write when both are as early.   *)
First(p) ==
  LET reads == fifo[p]["read"]
      writes == fifo[p]["write"]
  IN  CASE dispatch[p] # << >> -> Head(dispatch[p])
        [] dispatch[p] = << >> /\ reads = << >> -> Head(writes)
        [] dispatch[p] = << >> /\ writes = << >> -> Head(reads)
        [] OTHER -> IF fifo_time[Head(reads)] < fifo_time[Head(writes)]
                      THEN Head(reads) ELSE Head(writes)

(* dd_dispatch_request's order of the queues.  The gate is asked for RT    *)
(* and again for BE.                                                       *)
Chosen(p, rtOpen, beOpen) ==
  /\ HasWork(p)
  /\ p # "HP" => ~HasWork("HP")
  /\ p = "RT" => rtOpen
  /\ p = "BE" => beOpen /\ (rtOpen => ~HasWork("RT"))

Dispatch(p, rtOpen, beOpen) ==
  /\ Chosen(p, rtOpen, beOpen)
  /\ LET r == First(p)
     IN  /\ RemoveRequest(r, p)
         /\ phase' = [phase EXCEPT ![r] = "dispatched"]
  /\ UNCHANGED <<dir, ioprio, home, class, fifo_time, countVars, jiffies>>

(* block_rq_issue reaches smart_io_throttle_record_issue, which gives a    *)
(* request without a meta one when there is room again; its queue_class is *)
(* the zero of the cleared meta, HP.  A request with a meta keeps it.      *)
Issue(r) ==
  /\ phase[r] = "dispatched"
  /\ class' = [class EXCEPT ![r] = IF @ = None /\ MetaRoom THEN "HP" ELSE @]
  /\ UNCHANGED <<phase, dir, ioprio, home, listVars, countVars, jiffies>>

(* The driver was busy.  Both pointers of the request stay.                *)
Requeue(r) ==
  /\ phase[r] = "dispatched"
  /\ phase' = [phase EXCEPT ![r] = "requeued"]
  /\ UNCHANGED <<dir, ioprio, home, class, listVars, countVars, jiffies>>

(* The completion is counted where the insertion was.                      *)
CountFinish(r) ==
  completed' = IF home[r] # None
                 THEN [completed EXCEPT ![home[r]] = (@ + 1) % CounterSpan]
                 ELSE completed

(* dd_finish_request: completed, merged away, or never inserted.  The      *)
(* throttle takes its meta back.                                           *)
Finish(r) ==
  /\ phase[r] \in {"new", "merged", "dispatched"}
  /\ phase' = [phase EXCEPT ![r] = "idle"]
  /\ CountFinish(r)
  /\ home' = [home EXCEPT ![r] = None]
  /\ class' = [class EXCEPT ![r] = None]
  /\ UNCHANGED <<dir, ioprio, inserted, listVars, jiffies>>

Tick ==
  /\ jiffies < MaxJiffies
  /\ jiffies' = jiffies + 1
  /\ UNCHANGED <<requestVars, listVars, countVars>>

DeadlineNext ==
  \/ \E r \in Requests :
       \/ \E d \in Dirs, i \in Ioprios : Prepare(r, d, i)
       \/ \E fg \in BOOLEAN :
            \/ Insert(r, fg)
            \/ RequestMerged(r, fg)
            \/ \E t \in Requests :
                 \/ InsertMerged(r, t, fg)
                 \/ \E p \in Prios : MergedRequests(r, t, p, fg)
       \/ Issue(r)
       \/ Requeue(r)
       \/ Finish(r)
  \/ \E p \in Prios, rtOpen, beOpen \in BOOLEAN : Dispatch(p, rtOpen, beOpen)
  \/ Tick

DeadlineSpec == DeadlineInit /\ [][DeadlineNext]_deadlineVars

-----------------------------------------------------------------------------
(* Properties.                                                             *)

DeadlineTypeOK ==
  /\ phase \in [Requests -> Phases]
  /\ dir \in [Requests -> Dirs]
  /\ ioprio \in [Requests -> Prios]
  /\ home \in [Requests -> Prios \cup {None}]
  /\ class \in [Requests -> Prios \cup {None}]
  /\ fifo_time \in [Requests -> 0 .. MaxJiffies]
  /\ dispatch \in [Prios -> Seq(Requests)]
  /\ fifo \in [Prios -> [Dirs -> Seq(Requests)]]
  /\ sort_list \in [Prios -> [Dirs -> SUBSET Requests]]
  /\ rqhash \subseteq Requests
  /\ last_merge \in Requests \cup {None}
  /\ {inserted, completed} \subseteq [Prios -> 0 .. CounterSpan - 1]
  /\ wrong_root \in BOOLEAN
  /\ jiffies \in 0 .. MaxJiffies

(* "Requests are present on both sort_list[] and fifo_list[]"              *)
(* (smart_deadline.c:73): every queued request is either on the tree and   *)
(* the FIFO of its own queue and direction, once, or on its queue's        *)
(* dispatch list, once; and nothing else is on any list.                   *)
OnBothLists ==
  /\ \A p \in Prios :
       /\ IsInjective(dispatch[p])
       /\ \A r \in ToSet(dispatch[p]) : phase[r] = "queued" /\ home[r] = p
  /\ \A p \in Prios, d \in Dirs :
       /\ IsInjective(fifo[p][d])
       /\ ToSet(fifo[p][d]) = sort_list[p][d]
       /\ \A r \in sort_list[p][d] :
            /\ phase[r] = "queued" /\ home[r] = p /\ dir[r] = d
            /\ r \notin ToSet(dispatch[p])
  /\ \A r \in Requests : phase[r] = "queued" =>
       \E p \in Prios : r \in sort_list[p][dir[r]] \cup ToSet(dispatch[p])

(* Every FIFO stays in the order of fifo_time through every merge, which   *)
(* is what makes its head the request that has waited longest              *)
(* (dd_dispatch_fifo compares the heads only).                             *)
FifoSorted ==
  \A p \in Prios, d \in Dirs :
    \A i, j \in DOMAIN fifo[p][d] :
      i < j => fifo_time[fifo[p][d][i]] <= fifo_time[fifo[p][d][j]]

(* What the block layer may merge into, by hash or one-hit cache, is still *)
(* linked: a request that was dispatched or merged away is not found.      *)
MergeHintsLinked ==
  /\ \A r \in rqhash : Linked(r)
  /\ last_merge # None => last_merge \in rqhash

(* dd_queued: the difference of two counters that may wrap.                *)
Queued(p) == (inserted[p] + CounterSpan - completed[p]) % CounterSpan

(* "It is fine if these counters overflow" (smart_deadline.c:61): their    *)
(* difference is the number of requests the queue has counted and not yet  *)
(* seen finished, through every wrap, merge and requeue.                   *)
QueuedAgrees ==
  \A p \in Prios : Queued(p) = Cardinality({r \in Requests : home[r] = p})

(* No tree is told to remove a request that another tree holds, although   *)
(* dd_merged_requests and dd_request_merged ask for the queue afresh, on   *)
(* behalf of whichever task happens to run them.  It takes a meta for      *)
(* every request: a request without one is told by the task's own state.   *)
RightRoot == ~wrong_root

(* The assertion of dd_exit_sched (WARN_ONCE(queued != 0, ...)): when all  *)
(* requests have been given back every queue's statistics are balanced.    *)
ExitBalanced ==
  (\A r \in Requests : phase[r] = "idle") => \A p \in Prios : Queued(p) = 0

(* The order of ElevatorOrder is implemented: reads and writes of a queue  *)
(* are kept in two FIFOs of which only the heads are compared.             *)
Order == INSTANCE ElevatorOrder WITH
  waiting <- [p \in Prios |-> sort_list[p]["read"] \cup sort_list[p]["write"]],
  urgent <- dispatch,
  served <- {r \in Requests : phase[r] = "dispatched"},
  arrival <- fifo_time,
  now <- jiffies

ImplementsOrder == Order!OrderSpec

(* The lists, the trees and the merge hints of the elevator agree after    *)
(* every insertion, merge, requeue and dispatch: a request is where its    *)
(* queue and direction say, once, in the order of its deadline, and can be *)
(* merged into only while it is there.                                     *)
ElevatorConsistent ==
  /\ DeadlineTypeOK
  /\ OnBothLists
  /\ MergeHintsLinked
  /\ RightRoot
  /\ FifoSorted
=============================================================================
