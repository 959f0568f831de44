--------------------------- MODULE RequestRecords ---------------------------
(***************************************************************************)
(* The request records of io_semantics.c: one rq_record per captured block *)
(* request, kept in a sharded hash table from block_rq_insert (or, for a   *)
(* request that goes round the elevator, block_rq_issue) to the last       *)
(* block_rq_complete; the device occupancy in_flight / ts_busy_start that  *)
(* issue and completion keep; and the two remap tables that remember the   *)
(* device a bio or request came from until its record is made.             *)
(*                                                                         *)
(* The tracepoint handlers are the actions.  The block layer serialises    *)
(* the handlers of one request, so the two look-ups of record_issue find   *)
(* the same record and its "lost request" branch is not reachable; the     *)
(* three writes of the procfs switch do interleave with everything.        *)
(*                                                                         *)
(* What insertion and completion feed besides the record has modules of    *)
(* its own with disjoint state: the per-window statistics (WindowStats)    *)
(* and the hot-inode table (HotInodes). Abstracted: shards (the look-up    *)
(* key is the request), timestamps and all fields of a record but the      *)
(* issued mark and data_bytes.                                             *)
(***************************************************************************)
EXTENDS Naturals, FiniteSets, Sequences

CONSTANTS
  Requests,  \* request structures of the tag sets, reused for ever
  Bios,      \* bio structures, reused for ever
  Devs,      \* devices a bio may have been remapped from
  MaxBytes,  \* bound: bytes of one request, in some unit
  Wrap,      \* 2^32 for the code's u32 data_bytes
  MaxInFlight,  \* bound: in_flight, which re-insertion drives up for ever
  Environments  \* the environments considered, subsets of Behaviours

Behaviours == {"direct",    \* requests are issued without being inserted
               "partial",   \* a request completes in several steps
               "reinsert",  \* a requeued request is inserted again
               "merge",     \* a bio is merged into an inserted request
               "drop",      \* a bio ends before it is in a request, or a
                            \* request before it is issued
               "serial",    \* the queue has one tag: one request at a time
               "remap",     \* a device mapper hands bios and requests on
               "sample",    \* capture is sampled, or an allocation fails
               "flip"}      \* the procfs switch is written

ASSUME RecordsAssumption ==
  /\ IsFiniteSet(Requests)
  /\ MaxBytes \in Nat \ {0} /\ Wrap \in Nat /\ MaxBytes < Wrap
  /\ MaxInFlight \in Nat
  /\ Environments \subseteq SUBSET Behaviours

VARIABLES
  may,        \* what the environment does, the same all the time
  phase,      \* where the block layer has each request
  left,       \* blk_rq_bytes: bytes the request still has to do
  bios,       \* the bios of each request
  submitted,  \* bios on their way to a request
  table,      \* rq_shards: the records found under each request
  in_flight,  \* the counter of the same name
  busy,       \* ts_busy_start # 0
  bio_remap, rq_remap,  \* the two remap hashes: the set of old_dev kept
  checked,    \* bio_remap handlers that have seen smart_io_enabled set
  enabled,    \* smart_io_enabled
  policy_on,  \* current_policy.enabled
  writer      \* the enable_write under way: what it still has to do

blockVars == <<phase, left, bios, submitted>>
deviceVars == <<in_flight, busy>>
remapVars == <<bio_remap, rq_remap, checked>>
switchVars == <<enabled, policy_on, writer>>
recordVars == <<may, blockVars, table, deviceVars, remapVars, switchVars>>

Phases == {"idle", "new", "inserted", "issued", "requeued"}
Record == [issued : BOOLEAN, bytes : 0 .. Wrap - 1]

(* Both tables are empty and nothing is captured until procfs says so; a   *)
(* run that never flips the switch starts with it on.                      *)
RecordsInit ==
  /\ may \in Environments
  /\ phase = [r \in Requests |-> "idle"]
  /\ left = [r \in Requests |-> 0]
  /\ bios = [r \in Requests |-> {}]
  /\ submitted = {}
  /\ table = [r \in Requests |-> <<>>]
  /\ in_flight = 0
  /\ busy = FALSE
  /\ bio_remap = [b \in Bios |-> {}]
  /\ rq_remap = [r \in Requests |-> {}]
  /\ checked = {}
  /\ enabled = ("flip" \notin may)
  /\ policy_on = ("flip" \notin may)
  /\ writer = "none"

-----------------------------------------------------------------------------
(* Helpers.                                                                *)

(* rq_find_locked finds the newest record: hash_add puts it in front.      *)
Found(r) == table[r] # <<>>

(* device_issue_account, device_complete_account: one util_lock section.   *)
DeviceIssue ==
  /\ in_flight' = in_flight + 1
  /\ busy' = (busy \/ in_flight = 0)

DeviceComplete ==
  /\ in_flight' = IF in_flight > 0 THEN in_flight - 1 ELSE 0
  /\ busy' = (busy /\ in_flight # 1)

(* consume_request_remap: the entries of the request and of all its bios   *)
(* are taken out, for the record to be made.                               *)
(* Mutant: the request's own entry is consumed, those of its bios are not. *)
ConsumeRemap_RequestOnly(r) ==
  /\ rq_remap' = [rq_remap EXCEPT ![r] = {}]
  /\ UNCHANGED <<bio_remap, checked>>

ConsumeRemap(r) ==
  /\ UNCHANGED checked
  /\ rq_remap' = [rq_remap EXCEPT ![r] = {}]
  /\ bio_remap' = [b \in Bios |-> IF b \in bios[r] THEN {} ELSE bio_remap[b]]

(* should_capture_rq and kmem_cache_zalloc.                                *)
Captured == IF "sample" \in may THEN BOOLEAN ELSE {TRUE}

(* fill_record_from_current; a direct record is issued at once.            *)
NewRecord(r, direct) == [issued |-> direct, bytes |-> left[r]]

-----------------------------------------------------------------------------
(* The life of bios and requests in the block layer (external).  A bio     *)
(* whose remap handler is still running goes nowhere.                      *)

Free == {b \in submitted : \A dev \in Devs : <<b, dev>> \notin checked}

SubmitBio(b) ==
  /\ b \notin submitted /\ \A r \in Requests : b \notin bios[r]
  /\ submitted' = submitted \cup {b}
  /\ UNCHANGED <<phase, left, bios, table, deviceVars, remapVars, switchVars>>

DropBio(b) ==
  /\ "drop" \in may
  /\ b \in Free
  /\ submitted' = submitted \ {b}
  /\ UNCHANGED <<phase, left, bios, table, deviceVars, remapVars, switchVars>>

(* A bio becomes a request; a flush has no bio and no bytes.               *)
NewRequest(r, own, n) ==
  /\ phase[r] = "idle"
  /\ "serial" \in may => \A q \in Requests : phase[q] = "idle"
  /\ own \subseteq Free /\ Cardinality(own) <= 1
  /\ IF own = {} THEN n = 0 ELSE n \in 1 .. MaxBytes
  /\ phase' = [phase EXCEPT ![r] = "new"]
  /\ left' = [left EXCEPT ![r] = n]
  /\ bios' = [bios EXCEPT ![r] = own]
  /\ submitted' = submitted \ own
  /\ UNCHANGED <<table, deviceVars, remapVars, switchVars>>

(* A bio is merged into a request that is already recorded: the record     *)
(* keeps its byte count, and the bio's remap entry stays behind.           *)
MergeBio(r, b) ==
  /\ "merge" \in may
  /\ phase[r] = "inserted" /\ b \in Free
  /\ left[r] \in 1 .. MaxBytes - 1
  /\ left' = [left EXCEPT ![r] = @ + 1]
  /\ bios' = [bios EXCEPT ![r] = @ \cup {b}]
  /\ submitted' = submitted \ {b}
  /\ UNCHANGED <<phase, table, deviceVars, remapVars, switchVars>>

-----------------------------------------------------------------------------
(* The tracepoint handlers.                                                *)

(* smart_io_record_bio_remap: the switch is read first, the entry added    *)
(* under the lock later; an entry that exists already wins.                *)
CheckBioRemap(b, dev) ==
  /\ "remap" \in may
  /\ b \in Free /\ enabled
  /\ checked' = checked \cup {<<b, dev>>}
  /\ UNCHANGED <<blockVars, table, deviceVars, bio_remap, rq_remap, switchVars>>

AddBioRemap(b, dev) ==
  /\ <<b, dev>> \in checked
  /\ checked' = checked \ {<<b, dev>>}
  /\ \E allocated \in Captured :
       bio_remap' = [bio_remap EXCEPT ![b] = IF @ = {} /\ allocated THEN {dev} ELSE @]
  /\ UNCHANGED <<blockVars, table, deviceVars, rq_remap, switchVars>>

(* smart_io_record_rq_remap, of a request that is not recorded yet.        *)
RecordRqRemap(r, dev) ==
  /\ "remap" \in may
  /\ phase[r] = "new" /\ enabled
  /\ \E allocated \in Captured :
       rq_remap' = [rq_remap EXCEPT ![r] = IF @ = {} /\ allocated THEN {dev} ELSE @]
  /\ UNCHANGED <<blockVars, table, deviceVars, bio_remap, checked, switchVars>>

(* Mutant: the record of an earlier use is not looked for.                 *)
RecordInsert_NoDuplicateCheck(r) ==
  /\ phase[r] = "new" \/ (phase[r] = "requeued" /\ "reinsert" \in may)
  /\ phase' = [phase EXCEPT ![r] = "inserted"]
  /\ IF enabled
       THEN /\ ConsumeRemap(r)
            /\ \E captured \in Captured :
                 table' = IF policy_on /\ captured
                            THEN [table EXCEPT ![r] = <<NewRecord(r, FALSE)>> \o @]
                            ELSE table
       ELSE UNCHANGED <<table, remapVars>>
  /\ UNCHANGED <<left, bios, submitted, deviceVars, switchVars>>

(* smart_io_record_insert, from block_rq_insert.  A record found under the *)
(* same request is dropped without giving back its place in in_flight.     *)
RecordInsert(r) ==
  /\ phase[r] = "new" \/ (phase[r] = "requeued" /\ "reinsert" \in may)
  /\ phase' = [phase EXCEPT ![r] = "inserted"]
  /\ IF enabled
       THEN /\ ConsumeRemap(r)
            /\ \E captured \in Captured :
                 IF policy_on /\ captured
                   THEN table' = [table EXCEPT ![r] = <<NewRecord(r, FALSE)>> \o
                                    (IF Found(r) THEN Tail(@) ELSE @)]
                   ELSE UNCHANGED table
       ELSE UNCHANGED <<table, remapVars>>
  /\ UNCHANGED <<left, bios, submitted, deviceVars, switchVars>>

(* Mutant: every issue is counted, also that of a requeued request.        *)
IssueKnown_CountsAgain(r) ==
  /\ table' = [table EXCEPT ![r][1].issued = TRUE]
  /\ DeviceIssue
  /\ UNCHANGED remapVars

(* smart_io_record_issue, from block_rq_issue.                             *)
IssueKnown(r) ==
  /\ table' = [table EXCEPT ![r][1].issued = TRUE]
  /\ IF Head(table[r]).issued THEN UNCHANGED deviceVars ELSE DeviceIssue
  /\ UNCHANGED remapVars

IssueUnknown(r) ==
  /\ ConsumeRemap(r)
  /\ \E captured \in Captured :
       IF policy_on /\ captured
         THEN /\ table' = [table EXCEPT ![r] = <<NewRecord(r, TRUE)>>]
              /\ DeviceIssue
         ELSE UNCHANGED <<table, deviceVars>>

RecordIssue(r) ==
  /\ phase[r] \in {"new", "inserted", "requeued"}
  /\ phase[r] = "new" => "direct" \in may
  /\ in_flight < MaxInFlight
  /\ phase' = [phase EXCEPT ![r] = "issued"]
  /\ IF ~enabled THEN UNCHANGED <<table, deviceVars, remapVars>>
     ELSE IF Found(r) THEN IssueKnown(r)
     ELSE IssueUnknown(r)
  /\ UNCHANGED <<left, bios, submitted, switchVars>>

(* smart_io_record_requeue: in raw mode a line is traced; the record stays *)
(* as it is, issued mark and all.                                          *)
RecordRequeue(r) ==
  /\ phase[r] \in {"new", "inserted", "issued"}
  /\ phase[r] = "new" => "direct" \in may
  /\ phase' = [phase EXCEPT ![r] = "requeued"]
  /\ UNCHANGED <<left, bios, submitted, table, deviceVars, remapVars, switchVars>>

(* The record after n bytes: data_bytes is unsigned, so a request that     *)
(* grew after it was recorded takes it through zero and keeps the record.  *)
AfterComplete(r, n) ==
  LET bytes == (Head(table[r]).bytes + Wrap - n) % Wrap
  IN  IF bytes = 0 THEN Tail(table[r])
                   ELSE [table[r] EXCEPT ![1].bytes = bytes]

(* smart_io_record_complete, from block_rq_complete: n bytes are done, or  *)
(* the request fails as a whole, perhaps before it was issued.             *)
RecordComplete(r, n) ==
  /\ phase[r] # "idle"
  /\ phase[r] # "issued" => "drop" \in may
  /\ \/ n = left[r]
     \/ "partial" \in may /\ phase[r] = "issued" /\ n \in 1 .. left[r]
  /\ left' = [left EXCEPT ![r] = @ - n]
  /\ IF n = left[r]
       THEN /\ phase' = [phase EXCEPT ![r] = "idle"]
            /\ bios' = [bios EXCEPT ![r] = {}]
       ELSE UNCHANGED <<phase, bios>>
  /\ IF enabled /\ Found(r)
       THEN /\ table' = [table EXCEPT ![r] = AfterComplete(r, n)]
            /\ IF Head(table[r]).issued THEN DeviceComplete
                                        ELSE UNCHANGED deviceVars
       ELSE UNCHANGED <<table, deviceVars>>
  /\ UNCHANGED <<submitted, remapVars, switchVars>>

(* enable_write: smart_io_enabled, then current_policy.enabled, then, when *)
(* switching off, smart_io_clear_remap_state.                              *)
WriteEnabled(on) ==
  /\ "flip" \in may
  /\ writer = "none"
  /\ enabled' = on
  /\ writer' = IF on THEN "policy on" ELSE "policy off"
  /\ UNCHANGED <<blockVars, table, deviceVars, remapVars, policy_on>>

WritePolicy ==
  /\ writer \in {"policy on", "policy off"}
  /\ policy_on' = (writer = "policy on")
  /\ writer' = IF writer = "policy on" THEN "none" ELSE "clear"
  /\ UNCHANGED <<blockVars, table, deviceVars, remapVars, enabled>>

ClearRemapState ==
  /\ writer = "clear"
  /\ bio_remap' = [b \in Bios |-> {}]
  /\ rq_remap' = [r \in Requests |-> {}]
  /\ UNCHANGED checked
  /\ writer' = "none"
  /\ UNCHANGED <<blockVars, table, deviceVars, enabled, policy_on>>

BlockNext ==
  \/ \E b \in Bios : \/ SubmitBio(b) \/ DropBio(b)
                     \/ \E dev \in Devs : CheckBioRemap(b, dev) \/ AddBioRemap(b, dev)
  \/ \E r \in Requests :
       \/ \E own \in SUBSET Free, n \in 0 .. MaxBytes : NewRequest(r, own, n)
       \/ \E b \in Bios : MergeBio(r, b)
       \/ \E dev \in Devs : RecordRqRemap(r, dev)
       \/ RecordInsert(r) \/ RecordIssue(r) \/ RecordRequeue(r)
       \/ \E n \in 0 .. MaxBytes : RecordComplete(r, n)

RecordsNext ==
  /\ UNCHANGED may
  /\ \/ BlockNext
     \/ \E on \in BOOLEAN : WriteEnabled(on)
     \/ WritePolicy
     \/ ClearRemapState

RecordsSpec == RecordsInit /\ [][RecordsNext]_recordVars

-----------------------------------------------------------------------------
(* Properties.                                                             *)

(* Every variable keeps its type; in_flight is never more than one place   *)
(* per request structure unless re-insertion loses places.                 *)
RecordsTypeOK ==
  /\ phase \in [Requests -> Phases]
  /\ left \in [Requests -> 0 .. MaxBytes]
  /\ bios \in [Requests -> SUBSET Bios]
  /\ submitted \subseteq Bios
  /\ table \in [Requests -> Seq(Record)]
  /\ in_flight \in Nat
  /\ busy \in BOOLEAN
  /\ bio_remap \in [Bios -> SUBSET Devs]
  /\ rq_remap \in [Requests -> SUBSET Devs]
  /\ checked \subseteq Bios \X Devs
  /\ enabled \in BOOLEAN /\ policy_on \in BOOLEAN
  /\ writer \in {"none", "policy on", "policy off", "clear"}

(* However requests are reused, requeued, merged and the switch is flipped *)
(* in between, the hash never holds two records of one request: a record   *)
(* left behind is replaced or taken over, so the table stays as small as   *)
(* the set of request structures.                                          *)
AtMostOneRecord == \A r \in Requests : Len(table[r]) <= 1

(* A busy period is open exactly while in_flight is above zero, so the     *)
(* utilisation of a window never counts an idle device as busy, nor misses *)
(* the end of a period, whatever in_flight itself has drifted to.          *)
BusyMatchesInFlight == busy <=> in_flight > 0

(* Requests the device has, as far as they are recorded.                   *)
InDevice == {r \in Requests : phase[r] # "idle" /\ Found(r) /\ Head(table[r]).issued}

(* Without partial completions, re-insertion and growth and with the       *)
(* switch left alone, in_flight is exact, though capture be sampled and    *)
(* requests be issued directly, requeued or dropped.                       *)
InFlightExact ==
  may \cap {"partial", "reinsert", "merge", "flip"} = {} =>
    in_flight = Cardinality(InDevice)

(* A partial completion takes in_flight down early; it never takes it up,  *)
(* so in_flight may understate the device's load but does not overstate it,*)
(* unless issued requests are inserted again, grow or meet the switch.     *)
InFlightNotOver ==
  may \cap {"reinsert", "merge", "flip"} = {} =>
    in_flight <= Cardinality(InDevice)

(* Re-insertion of an issued request drops its record with its mark and    *)
(* leaves in_flight too high; it never makes it too low, as long as no     *)
(* request completes in several steps, grows or meets the switch.          *)
InFlightNotUnder ==
  may \cap {"partial", "merge", "flip"} = {} =>
    in_flight >= Cardinality(InDevice)

(* A record does not outlive its request: partial completions add up to    *)
(* the bytes recorded, and the last one frees it.  Holds while requests do *)
(* not grow after insertion and the switch is left alone, though they be   *)
(* requeued, inserted again with part of them done, or dropped.            *)
NoRecordLeft ==
  may \cap {"merge", "flip"} = {} =>
    \A r \in Requests : phase[r] = "idle" => ~Found(r)

(* A remap entry is that of a bio on its way or of a request not recorded  *)
(* yet: none waits for the next user of the same structure, whose records  *)
(* it would give a foreign device.  Holds while bios neither merge into    *)
(* recorded requests nor end early.                                        *)
NoRemapLeft ==
  may \cap {"merge", "flip", "drop"} = {} =>
  /\ \A b \in Bios : bio_remap[b] # {} =>
       \/ b \in submitted
       \/ \E r \in Requests : phase[r] \in {"new", "requeued"} /\ b \in bios[r]
  /\ \A r \in Requests : rq_remap[r] # {} => phase[r] \in {"new", "requeued"}

(* The hash and the busy period agree with what the device has been told,  *)
(* whatever the handlers and the switch do in between: one record per      *)
(* request, and a period that is open while in_flight is above zero.       *)
RecordsConsistent ==
  /\ RecordsTypeOK
  /\ AtMostOneRecord
  /\ BusyMatchesInFlight

(* in_flight drifts from the number of requests in the device only for the *)
(* reasons that are named, and only in the direction each of them has.     *)
InFlightDrift ==
  /\ InFlightExact
  /\ InFlightNotOver
  /\ InFlightNotUnder

(* Neither a record nor a remap entry survives what it was made for, to be *)
(* taken for that of the next request in the same structure.               *)
NothingLeft ==
  /\ NoRecordLeft
  /\ NoRemapLeft
=============================================================================
