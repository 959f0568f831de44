------------------------ MODULE RequestRecordsProofs ------------------------
(***************************************************************************)
(* Proofs about RequestRecords: types, the uniqueness of records, the busy *)
(* period, the drift of in_flight, and that neither records nor remap      *)
(* entries are left behind, for any number of requests and bios, any       *)
(* environment and any writes of the switch.                               *)
(***************************************************************************)
EXTENDS RequestRecords, SequenceTheorems, FiniteSetTheorems, TLAPS

(* The three invariants need each other: one record per request keeps the  *)
(* tail of a table entry trivial, and the types keep in_flight a natural.  *)
RecordsInv == RecordsTypeOK /\ AtMostOneRecord /\ BusyMatchesInFlight

TableOK == /\ table \in [Requests -> Seq(Record)]
           /\ \A r \in Requests : Len(table[r]) <= 1
DeviceOK == in_flight \in Nat /\ busy \in BOOLEAN /\ (busy <=> in_flight > 0)
RemapOK == /\ bio_remap \in [Bios -> SUBSET Devs]
           /\ rq_remap \in [Requests -> SUBSET Devs]
           /\ checked \subseteq Bios \X Devs
BlockOK == /\ phase \in [Requests -> Phases]
           /\ left \in [Requests -> 0 .. MaxBytes]
           /\ bios \in [Requests -> SUBSET Bios]
           /\ submitted \subseteq Bios
SwitchOK == /\ enabled \in BOOLEAN /\ policy_on \in BOOLEAN
            /\ writer \in {"none", "policy on", "policy off", "clear"}

(* The invariant in parts, one for each group of variables an action may   *)
(* leave unchanged.                                                        *)
LEMMA RecordsParts ==
  /\ RecordsInv <=> BlockOK /\ TableOK /\ DeviceOK /\ RemapOK /\ SwitchOK
  /\ RecordsInv' <=> BlockOK' /\ TableOK' /\ DeviceOK' /\ RemapOK' /\ SwitchOK'
PROOF
  BY DEF RecordsInv, RecordsTypeOK, AtMostOneRecord, BusyMatchesInFlight,
         BlockOK, TableOK, DeviceOK, RemapOK, SwitchOK

(* A part whose variables a step leaves alone is kept.                     *)
LEMMA Frames ==
  /\ BlockOK /\ UNCHANGED blockVars => BlockOK'
  /\ TableOK /\ UNCHANGED table => TableOK'
  /\ DeviceOK /\ UNCHANGED deviceVars => DeviceOK'
  /\ RemapOK /\ UNCHANGED remapVars => RemapOK'
  /\ SwitchOK /\ UNCHANGED switchVars => SwitchOK'
PROOF
  <1>1. BlockOK /\ UNCHANGED blockVars => BlockOK'  BY DEF BlockOK, blockVars
  <1>2. TableOK /\ UNCHANGED table => TableOK'  BY DEF TableOK
  <1>3. DeviceOK /\ UNCHANGED deviceVars => DeviceOK'  BY DEF DeviceOK, deviceVars
  <1>4. RemapOK /\ UNCHANGED remapVars => RemapOK'  BY DEF RemapOK, remapVars
  <1>5. SwitchOK /\ UNCHANGED switchVars => SwitchOK'  BY DEF SwitchOK, switchVars
  <1> QED  BY <1>1, <1>2, <1>3, <1>4, <1>5

(* Taking a place of in_flight and giving one back keep the busy period in *)
(* step with the counter.                                                  *)
LEMMA DeviceSteps == DeviceOK /\ (DeviceIssue \/ DeviceComplete) => DeviceOK'
PROOF
  <1> SUFFICES ASSUME DeviceOK, DeviceIssue \/ DeviceComplete
               PROVE  DeviceOK'
    OBVIOUS
  <1>1. CASE DeviceIssue
    <2>1. in_flight' \in Nat /\ in_flight' > 0  BY <1>1 DEF DeviceOK, DeviceIssue
    <2>2. in_flight = 0 <=> ~(in_flight > 0)  BY DEF DeviceOK
    <2>3. busy' = TRUE  BY <1>1, <2>2, Zenon DEF DeviceOK, DeviceIssue
    <2> QED  BY <2>1, <2>3 DEF DeviceOK
  <1>2. CASE DeviceComplete
    <2>1. in_flight' \in Nat  BY <1>2 DEF DeviceOK, DeviceComplete
    <2>2. in_flight' > 0 <=> in_flight > 0 /\ in_flight # 1
      BY <1>2 DEF DeviceOK, DeviceComplete
    <2>3. busy' = (busy /\ in_flight # 1)  BY <1>2 DEF DeviceComplete
    <2>4. busy' \in BOOLEAN /\ (busy' <=> in_flight' > 0)
      BY <2>2, <2>3, Zenon DEF DeviceOK
    <2> QED  BY <2>1, <2>4 DEF DeviceOK
  <1> QED  BY <1>1, <1>2

LEMMA ConsumeKeeps ==
  ASSUME NEW r \in Requests, RemapOK, ConsumeRemap(r)
  PROVE  RemapOK'
PROOF
  BY DEF RemapOK, ConsumeRemap

(* One record is a sequence of records.                                    *)
LEMMA OneRecord ==
  ASSUME NEW rec \in Record
  PROVE  /\ <<rec>> \in Seq(Record) /\ Len(<<rec>>) = 1
         /\ \A s \in Seq(Record) : Len(s) <= 1 /\ s # <<>> =>
              /\ Len(s) = 1 /\ Head(s) \in Record /\ s[1] = Head(s)
              /\ Tail(s) = <<>>
              /\ [s EXCEPT ![1] = rec] = <<rec>>
PROOF
  <1>1. <<rec>> \in Seq(Record) /\ Len(<<rec>>) = 1  OBVIOUS
  <1>2. ASSUME NEW s \in Seq(Record), Len(s) <= 1, s # <<>>
        PROVE  /\ Len(s) = 1 /\ Head(s) \in Record /\ s[1] = Head(s)
               /\ Tail(s) = <<>>
               /\ [s EXCEPT ![1] = rec] = <<rec>>
    <2>1. Len(s) = 1
      <3>1. Len(s) \in Nat \ {0}  BY <1>2, EmptySeq, Zenon
      <3>2. \A n \in Nat \ {0} : n <= 1 => n = 1  OBVIOUS
      <3> QED  BY <1>2, <3>1, <3>2, Zenon
    <2>2. Head(s) \in Record /\ s[1] = Head(s)  BY <2>1, <1>2
    <2>3. Tail(s) = <<>>
      <3>1. Len(Tail(s)) = 0 /\ Tail(s) \in Seq(Record)
        BY <2>1, <1>2, HeadTailProperties
      <3> QED  BY <3>1, EmptySeq, Zenon
    <2>4. [s EXCEPT ![1] = rec] = <<rec>>
      BY <2>1, <1>2
    <2> QED  BY <2>1, <2>2, <2>3, <2>4
  <1> QED  BY <1>1, <1>2

(* A new record counts the request's bytes, which fit.                     *)
LEMMA NewRecordType ==
  ASSUME NEW r \in Requests, NEW direct \in BOOLEAN, BlockOK
  PROVE  NewRecord(r, direct) \in Record
PROOF
  BY RecordsAssumption DEF BlockOK, NewRecord, Record

(* Replacing one request's records by none or by one keeps the table.      *)
LEMMA TableUpdate ==
  ASSUME TableOK, NEW r \in Requests, NEW s,
         s = <<>> \/ \E rec \in Record : s = <<rec>>,
         table' = [table EXCEPT ![r] = s]
  PROVE  TableOK'
PROOF
  <1>1. s \in Seq(Record) /\ Len(s) <= 1
    <2>1. CASE s = <<>>  BY <2>1
    <2>2. CASE \E rec \in Record : s = <<rec>>
      <3>1. PICK rec \in Record : s = <<rec>>  BY <2>2
      <3> QED  BY <3>1
    <2> QED  BY <2>1, <2>2
  <1>2. table' \in [Requests -> Seq(Record)]  BY <1>1 DEF TableOK
  <1>3. \A q \in Requests : Len(table'[q]) <= 1  BY <1>1 DEF TableOK
  <1> QED  BY <1>2, <1>3 DEF TableOK

(* The head of a found record, and what is behind it.                      *)
LEMMA FoundRecord ==
  ASSUME TableOK, NEW r \in Requests, Found(r)
  PROVE  /\ Head(table[r]) \in Record /\ table[r][1] = Head(table[r])
         /\ Tail(table[r]) = <<>>
         /\ \A rec \in Record : [table[r] EXCEPT ![1] = rec] = <<rec>>
PROOF
  <1>1. table[r] \in Seq(Record) /\ Len(table[r]) <= 1 /\ table[r] # <<>>
    BY DEF TableOK, Found
  <1>2. [issued |-> FALSE, bytes |-> 0] \in Record  BY RecordsAssumption DEF Record
  <1> QED  BY <1>1, <1>2, OneRecord, Zenon

LEMMA InsertKeeps ==
  ASSUME BlockOK, TableOK, DeviceOK, RemapOK, SwitchOK,
         NEW r \in Requests, RecordInsert(r)
  PROVE  BlockOK' /\ TableOK' /\ DeviceOK' /\ RemapOK' /\ SwitchOK'
PROOF
  <1>1. BlockOK'  BY DEF RecordInsert, BlockOK, Phases
  <1>2. DeviceOK' /\ SwitchOK'  BY Frames DEF RecordInsert
  <1>3. RemapOK'  BY Frames, ConsumeKeeps DEF RecordInsert
  <1>4. TableOK'
    <2>1. CASE UNCHANGED table  BY <2>1, Frames
    <2>2. CASE table' = [table EXCEPT ![r] = <<NewRecord(r, FALSE)>> \o
                           (IF Found(r) THEN Tail(@) ELSE @)]
      <3>1. (IF Found(r) THEN Tail(table[r]) ELSE table[r]) = <<>>
        BY FoundRecord DEF Found
      <3>2. PICK rec \in Record : rec = NewRecord(r, FALSE)  BY NewRecordType
      <3>3. <<rec>> \o <<>> = <<rec>>  OBVIOUS
      <3>4. table' = [table EXCEPT ![r] = <<rec>>]
        BY <2>2, <3>1, <3>2, <3>3, Zenon DEF TableOK
      <3> QED  BY <3>4, TableUpdate
    <2> QED  BY <2>1, <2>2, Zenon DEF RecordInsert
  <1> QED  BY <1>1, <1>2, <1>3, <1>4

LEMMA IssueKeeps ==
  ASSUME BlockOK, TableOK, DeviceOK, RemapOK, SwitchOK,
         NEW r \in Requests, RecordIssue(r)
  PROVE  BlockOK' /\ TableOK' /\ DeviceOK' /\ RemapOK' /\ SwitchOK'
PROOF
  <1>1. BlockOK'  BY DEF RecordIssue, BlockOK, Phases
  <1>2. SwitchOK'  BY Frames DEF RecordIssue
  <1>3. CASE UNCHANGED <<table, deviceVars, remapVars>>
    <2>1. TableOK' /\ DeviceOK' /\ RemapOK'  BY <1>3, Frames
    <2> QED  BY <1>1, <1>2, <2>1
  <1>4. CASE Found(r) /\ IssueKnown(r)
    <2>1. RemapOK'  BY <1>4, Frames DEF IssueKnown
    <2>2. DeviceOK'  BY <1>4, Frames, DeviceSteps DEF IssueKnown
    <2>3. PICK rec \in Record : rec = [Head(table[r]) EXCEPT !.issued = TRUE]
      BY <1>4, FoundRecord DEF Record
    <2>4. table' = [table EXCEPT ![r] = <<rec>>]
      <3>1. table' = [table EXCEPT ![r] = [table[r] EXCEPT
                        ![1] = [table[r][1] EXCEPT !.issued = TRUE]]]
        BY <1>4 DEF IssueKnown
      <3>2. [table[r] EXCEPT ![1] = rec] = <<rec>> /\ table[r][1] = Head(table[r])
        BY <1>4, FoundRecord
      <3> QED  BY <2>3, <3>1, <3>2
    <2>5. TableOK'  BY <2>4, TableUpdate
    <2> QED  BY <1>1, <1>2, <2>1, <2>2, <2>5
  <1>5. CASE IssueUnknown(r)
    <2>1. RemapOK'  BY <1>5, ConsumeKeeps DEF IssueUnknown
    <2>2. DeviceOK'  BY <1>5, Frames, DeviceSteps DEF IssueUnknown
    <2>3. NewRecord(r, TRUE) \in Record  BY NewRecordType
    <2>4. TableOK'
      <3>1. \/ UNCHANGED table
            \/ table' = [table EXCEPT ![r] = <<NewRecord(r, TRUE)>>]
        BY <1>5, Zenon DEF IssueUnknown
      <3> QED  BY <2>3, <3>1, Frames, TableUpdate
    <2> QED  BY <1>1, <1>2, <2>1, <2>2, <2>4
  <1> QED  BY <1>3, <1>4, <1>5 DEF RecordIssue

(* Subtracting modulo the width of data_bytes stays within the width.      *)
LEMMA WrapRange == \A a, n \in Nat : (a + Wrap - n) % Wrap \in 0 .. Wrap - 1
PROOF
  <1>1. Wrap \in Nat \ {0}  BY RecordsAssumption
  <1>2. \A a, n \in Nat : a + Wrap - n \in Int  BY <1>1
  <1> QED  BY <1>1, <1>2

LEMMA CompleteKeeps ==
  ASSUME BlockOK, TableOK, DeviceOK, RemapOK, SwitchOK,
         NEW r \in Requests, NEW n \in 0 .. MaxBytes, RecordComplete(r, n)
  PROVE  BlockOK' /\ TableOK' /\ DeviceOK' /\ RemapOK' /\ SwitchOK'
PROOF
  <1>1. BlockOK'
    <2>1. n <= left[r] /\ left[r] \in 0 .. MaxBytes
      BY DEF RecordComplete, BlockOK
    <2>2. left' \in [Requests -> 0 .. MaxBytes]
      <3>1. left[r] - n \in 0 .. MaxBytes  BY <2>1, RecordsAssumption
      <3>2. left' = [left EXCEPT ![r] = left[r] - n]  BY DEF RecordComplete
      <3> QED  BY <3>1, <3>2 DEF BlockOK
    <2>3. /\ phase' \in [Requests -> Phases] /\ bios' \in [Requests -> SUBSET Bios]
          /\ submitted' \subseteq Bios
      BY DEF RecordComplete, BlockOK, Phases
    <2> QED  BY <2>2, <2>3 DEF BlockOK
  <1>2. RemapOK' /\ SwitchOK'  BY Frames DEF RecordComplete
  <1>3. DeviceOK'  BY Frames, DeviceSteps DEF RecordComplete
  <1>4. TableOK'
    <2>1. CASE UNCHANGED table  BY <2>1, Frames
    <2>2. CASE Found(r) /\ table' = [table EXCEPT ![r] = AfterComplete(r, n)]
      <3> DEFINE bytes == (Head(table[r]).bytes + Wrap - n) % Wrap
      <3>1. Head(table[r]) \in Record /\ n \in Nat  BY <2>2, FoundRecord, RecordsAssumption
      <3>2. Head(table[r]).bytes \in Nat  BY <3>1, RecordsAssumption DEF Record
      <3>3. bytes \in 0 .. Wrap - 1  BY <3>1, <3>2, WrapRange
      <3> HIDE DEF bytes
      <3>4. [Head(table[r]) EXCEPT !.bytes = bytes] \in Record
        BY <3>1, <3>3 DEF Record
      <3>5. AfterComplete(r, n) = IF bytes = 0 THEN <<>>
                                  ELSE <<[Head(table[r]) EXCEPT !.bytes = bytes]>>
        <4>1. /\ table[r][1] = Head(table[r]) /\ Tail(table[r]) = <<>>
              /\ [table[r] EXCEPT ![1] = [Head(table[r]) EXCEPT !.bytes = bytes]]
                   = <<[Head(table[r]) EXCEPT !.bytes = bytes]>>
          BY <2>2, <3>4, FoundRecord
        <4>2. AfterComplete(r, n) =
                IF bytes = 0 THEN Tail(table[r])
                ELSE [table[r] EXCEPT ![1] = [table[r][1] EXCEPT !.bytes = bytes]]
          BY DEF AfterComplete, bytes
        <4> QED  BY <4>1, <4>2
      <3> QED  BY <2>2, <3>4, <3>5, TableUpdate
    <2> QED  BY <2>1, <2>2 DEF RecordComplete
  <1> QED  BY <1>1, <1>2, <1>3, <1>4

(* The actions that touch neither a record nor in_flight.                  *)
LEMMA OthersKeep ==
  ASSUME BlockOK, TableOK, DeviceOK, RemapOK, SwitchOK,
         \/ \E b \in Bios : \/ SubmitBio(b) \/ DropBio(b)
                            \/ \E dev \in Devs : CheckBioRemap(b, dev) \/ AddBioRemap(b, dev)
         \/ \E r \in Requests :
              \/ \E own \in SUBSET Free, n \in 0 .. MaxBytes : NewRequest(r, own, n)
              \/ \E b \in Bios : MergeBio(r, b)
              \/ \E dev \in Devs : RecordRqRemap(r, dev)
              \/ RecordRequeue(r)
         \/ \E on \in BOOLEAN : WriteEnabled(on)
         \/ WritePolicy
         \/ ClearRemapState
  PROVE  BlockOK' /\ TableOK' /\ DeviceOK' /\ RemapOK' /\ SwitchOK'
PROOF
  <1>1. TableOK' /\ DeviceOK'
    BY Frames DEF SubmitBio, DropBio, CheckBioRemap, AddBioRemap, NewRequest,
                  MergeBio, RecordRqRemap, RecordRequeue, WriteEnabled,
                  WritePolicy, ClearRemapState
  <1>2. CASE \E b \in Bios : SubmitBio(b) \/ DropBio(b)
    <2>1. BlockOK'  BY <1>2 DEF SubmitBio, DropBio, BlockOK
    <2>2. RemapOK' /\ SwitchOK'  BY <1>2, Frames DEF SubmitBio, DropBio
    <2> QED  BY <1>1, <2>1, <2>2
  <1>3. CASE \E b \in Bios, dev \in Devs : CheckBioRemap(b, dev) \/ AddBioRemap(b, dev)
    <2>1. BlockOK' /\ SwitchOK'  BY <1>3, Frames DEF CheckBioRemap, AddBioRemap
    <2>2. RemapOK'  BY <1>3 DEF CheckBioRemap, AddBioRemap, RemapOK
    <2> QED  BY <1>1, <2>1, <2>2
  <1>4. CASE \E r \in Requests, own \in SUBSET Free, n \in 0 .. MaxBytes :
               NewRequest(r, own, n)
    <2>1. PICK r \in Requests, own \in SUBSET Free, n \in 0 .. MaxBytes :
                 NewRequest(r, own, n)
      BY <1>4
    <2>2. own \subseteq Bios  BY DEF Free, BlockOK
    <2>3. BlockOK'  BY <2>1, <2>2 DEF NewRequest, BlockOK, Phases
    <2>4. RemapOK' /\ SwitchOK'  BY <2>1, Frames DEF NewRequest
    <2> QED  BY <1>1, <2>3, <2>4
  <1>5. CASE \E r \in Requests, b \in Bios : MergeBio(r, b)
    <2>1. PICK r \in Requests, b \in Bios : MergeBio(r, b)  BY <1>5
    <2>2. left[r] + 1 \in 0 .. MaxBytes
      BY <2>1, RecordsAssumption DEF MergeBio, BlockOK
    <2>3. BlockOK'  BY <2>1, <2>2 DEF MergeBio, BlockOK
    <2>4. RemapOK' /\ SwitchOK'  BY <2>1, Frames DEF MergeBio
    <2> QED  BY <1>1, <2>3, <2>4
  <1>6. CASE \E r \in Requests, dev \in Devs : RecordRqRemap(r, dev)
    <2>1. BlockOK' /\ SwitchOK'  BY <1>6, Frames DEF RecordRqRemap
    <2>2. RemapOK'  BY <1>6 DEF RecordRqRemap, RemapOK
    <2> QED  BY <1>1, <2>1, <2>2
  <1>7. CASE \E r \in Requests : RecordRequeue(r)
    <2>1. BlockOK'  BY <1>7 DEF RecordRequeue, BlockOK, Phases
    <2>2. RemapOK' /\ SwitchOK'  BY <1>7, Frames DEF RecordRequeue
    <2> QED  BY <1>1, <2>1, <2>2
  <1>8. CASE (\E on \in BOOLEAN : WriteEnabled(on)) \/ WritePolicy \/ ClearRemapState
    <2>1. BlockOK'  BY <1>8, Frames DEF WriteEnabled, WritePolicy, ClearRemapState
    <2>2. RemapOK'
      BY <1>8, Frames DEF WriteEnabled, WritePolicy, ClearRemapState, RemapOK
    <2>3. SwitchOK'
      BY <1>8 DEF WriteEnabled, WritePolicy, ClearRemapState, SwitchOK
    <2> QED  BY <1>1, <2>1, <2>2, <2>3
  <1> QED  BY <1>2, <1>3, <1>4, <1>5, <1>6, <1>7, <1>8

THEOREM RecordsInvInit == RecordsInit => RecordsInv
PROOF
  <1> SUFFICES ASSUME RecordsInit PROVE RecordsInv
    OBVIOUS
  <1>1. BlockOK  BY RecordsAssumption DEF RecordsInit, BlockOK, Phases
  <1>2. TableOK  BY EmptySeq DEF RecordsInit, TableOK
  <1>3. DeviceOK
    <2>1. in_flight \in Nat /\ ~(in_flight > 0)  BY DEF RecordsInit
    <2>2. busy = FALSE  BY DEF RecordsInit
    <2> QED  BY <2>1, <2>2, Zenon DEF DeviceOK
  <1>4. RemapOK  BY DEF RecordsInit, RemapOK
  <1>5. SwitchOK  BY DEF RecordsInit, SwitchOK
  <1> QED  BY <1>1, <1>2, <1>3, <1>4, <1>5, RecordsParts

THEOREM RecordsInvStep == RecordsInv /\ [RecordsNext]_recordVars => RecordsInv'
PROOF
  <1> SUFFICES ASSUME RecordsInv, [RecordsNext]_recordVars PROVE RecordsInv'
    OBVIOUS
  <1>1. BlockOK /\ TableOK /\ DeviceOK /\ RemapOK /\ SwitchOK  BY RecordsParts
  <1>2. CASE UNCHANGED recordVars
    <2>1. BlockOK' /\ TableOK' /\ DeviceOK' /\ RemapOK' /\ SwitchOK'
      BY <1>1, <1>2, Frames DEF recordVars
    <2> QED  BY <2>1, RecordsParts
  <1>3. CASE \E r \in Requests :
               \/ RecordInsert(r) \/ RecordIssue(r)
               \/ \E n \in 0 .. MaxBytes : RecordComplete(r, n)
    BY <1>1, <1>3, InsertKeeps, IssueKeeps, CompleteKeeps, RecordsParts
  <1>4. CASE RecordsNext /\ ~(\E r \in Requests :
               \/ RecordInsert(r) \/ RecordIssue(r)
               \/ \E n \in 0 .. MaxBytes : RecordComplete(r, n))
    BY <1>1, <1>4, OthersKeep, RecordsParts DEF RecordsNext, BlockNext
  <1> QED  BY <1>2, <1>3, <1>4

(* The invariant holds in every reachable state.                           *)
THEOREM RecordsInvariant == RecordsSpec => []RecordsInv
PROOF
  BY RecordsInvInit, RecordsInvStep, PTL DEF RecordsSpec

(* Every variable of the records keeps its type: in_flight never wraps     *)
(* below zero and data_bytes stays an unsigned number of its width.        *)
THEOREM RecordsTypes == RecordsSpec => []RecordsTypeOK
PROOF
  <1>1. RecordsInv => RecordsTypeOK  BY DEF RecordsInv
  <1> QED  BY <1>1, RecordsInvariant, PTL

(* record_insert, record_issue and record_complete never leave two records *)
(* of one request in the hash.                                             *)
THEOREM OneRecordAlways == RecordsSpec => []AtMostOneRecord
PROOF
  <1>1. RecordsInv => AtMostOneRecord  BY DEF RecordsInv
  <1> QED  BY <1>1, RecordsInvariant, PTL

(* device_issue_account and device_complete_account keep a busy period     *)
(* open exactly while in_flight is above zero.                             *)
THEOREM BusyAlways == RecordsSpec => []BusyMatchesInFlight
PROOF
  <1>1. RecordsInv => BusyMatchesInFlight  BY DEF RecordsInv
  <1> QED  BY <1>1, RecordsInvariant, PTL

(* The three together, as the run checks them: the hash and the busy       *)
(* period survive every order of handlers, remaps and writes of the switch.*)
THEOREM RecordsAlwaysConsistent == RecordsSpec => []RecordsConsistent
PROOF
  <1>1. RecordsInv => RecordsConsistent  BY DEF RecordsInv, RecordsConsistent
  <1> QED  BY <1>1, RecordsInvariant, PTL
-----------------------------------------------------------------------------
(* What a step does to the record of its request.                          *)

(* A record that takes the place of whatever was there, if anything was.   *)
Recorded(r, rec) == table' = [table EXCEPT ![r] = <<rec>>]
Freed(r) == table' = [table EXCEPT ![r] = <<>>]

LEMMA InsertRecords ==
  ASSUME RecordsInv, NEW r \in Requests, RecordInsert(r)
  PROVE  UNCHANGED table \/ Recorded(r, NewRecord(r, FALSE))
PROOF
  <1>1. BlockOK /\ TableOK  BY RecordsParts
  <1>2. CASE table' = [table EXCEPT ![r] = <<NewRecord(r, FALSE)>> \o
                         (IF Found(r) THEN Tail(@) ELSE @)]
    <2>1. (IF Found(r) THEN Tail(table[r]) ELSE table[r]) = <<>>
      BY <1>1, FoundRecord DEF Found
    <2>2. PICK rec \in Record : rec = NewRecord(r, FALSE)
      BY <1>1, NewRecordType
    <2>3. <<rec>> \o <<>> = <<rec>>  OBVIOUS
    <2> QED
      BY <1>1, <1>2, <2>1, <2>2, <2>3, Zenon DEF TableOK, Recorded
  <1> QED  BY <1>2, Zenon DEF RecordInsert

LEMMA IssueRecords ==
  ASSUME RecordsInv, NEW r \in Requests, RecordIssue(r)
  PROVE  \/ UNCHANGED <<table, deviceVars>>
         \/ /\ Found(r) /\ Recorded(r, [Head(table[r]) EXCEPT !.issued = TRUE])
            /\ IF Head(table[r]).issued THEN UNCHANGED deviceVars ELSE DeviceIssue
         \/ ~Found(r) /\ Recorded(r, NewRecord(r, TRUE)) /\ DeviceIssue
PROOF
  <1>1. CASE Found(r) /\ IssueKnown(r)
    <2>1. TableOK  BY RecordsParts
    <2>2. PICK rec \in Record : rec = [Head(table[r]) EXCEPT !.issued = TRUE]
      BY <1>1, <2>1, FoundRecord DEF Record
    <2>3. table' = [table EXCEPT ![r] = [table[r] EXCEPT
                      ![1] = [table[r][1] EXCEPT !.issued = TRUE]]]
      BY <1>1 DEF IssueKnown
    <2>4. [table[r] EXCEPT ![1] = rec] = <<rec>> /\ table[r][1] = Head(table[r])
      BY <1>1, <2>1, FoundRecord
    <2>5. Recorded(r, rec)  BY <2>2, <2>3, <2>4 DEF Recorded
    <2>6. IF Head(table[r]).issued THEN UNCHANGED deviceVars ELSE DeviceIssue
      BY <1>1 DEF IssueKnown
    <2> QED  BY <1>1, <2>2, <2>5, <2>6
  <1>2. CASE ~Found(r) /\ IssueUnknown(r)
    BY <1>2, Zenon DEF IssueUnknown, Recorded
  <1>3. CASE UNCHANGED <<table, deviceVars, remapVars>>
    BY <1>3
  <1> QED  BY <1>1, <1>2, <1>3, Zenon DEF RecordIssue

LEMMA WrapExact ==
  ASSUME NEW a \in 0 .. Wrap - 1, NEW n \in 0 .. a
  PROVE  (a + Wrap - n) % Wrap = a - n
PROOF
  <1>1. Wrap \in Nat  BY RecordsAssumption
  <1>2. \A x \in 0 .. Wrap - 1 : (x + Wrap) % Wrap = x  BY <1>1
  <1>3. a - n \in 0 .. Wrap - 1  BY <1>1
  <1>4. a + Wrap - n = (a - n) + Wrap  BY <1>1
  <1> QED  BY <1>2, <1>3, <1>4

(* The record after n bytes, of a request it still counts all of.          *)
LEMMA CompleteRecords ==
  ASSUME RecordsInv, NEW r \in Requests, NEW n \in 0 .. MaxBytes,
         RecordComplete(r, n), Found(r), enabled,
         Head(table[r]).bytes = left[r]
  PROVE  /\ n <= left[r] /\ left' = [left EXCEPT ![r] = left[r] - n]
         /\ IF n = left[r]
              THEN Freed(r)
              ELSE Recorded(r, [Head(table[r]) EXCEPT !.bytes = left[r] - n])
PROOF
  <1>1. BlockOK /\ TableOK  BY RecordsParts
  <1>2. left[r] \in 0 .. MaxBytes /\ MaxBytes \in Nat /\ Wrap \in Nat /\ MaxBytes < Wrap
    BY <1>1, RecordsAssumption DEF BlockOK
  <1>3. n <= left[r]  BY <1>2 DEF RecordComplete
  <1>4. (left[r] + Wrap - n) % Wrap = left[r] - n
    <2>1. left[r] \in 0 .. Wrap - 1 /\ n \in 0 .. left[r]  BY <1>2, <1>3
    <2> QED  BY <2>1, WrapExact
  <1>5. table' = [table EXCEPT ![r] = AfterComplete(r, n)]
    BY DEF RecordComplete
  <1>6. left[r] - n \in 0 .. Wrap - 1  BY <1>2, <1>3
  <1> DEFINE rec == [Head(table[r]) EXCEPT !.bytes = left[r] - n]
  <1>7. Head(table[r]) \in Record  BY <1>1, FoundRecord
  <1>8. rec \in Record  BY <1>6, <1>7 DEF Record
  <1>9. /\ table[r][1] = Head(table[r]) /\ Tail(table[r]) = <<>>
        /\ [table[r] EXCEPT ![1] = rec] = <<rec>>
    BY <1>1, <1>8, FoundRecord
  <1>10. AfterComplete(r, n) =
           IF left[r] - n = 0 THEN Tail(table[r])
           ELSE [table[r] EXCEPT ![1] = [table[r][1] EXCEPT !.bytes = left[r] - n]]
    BY <1>4 DEF AfterComplete
  <1>11. AfterComplete(r, n) = IF left[r] - n = 0 THEN <<>> ELSE <<rec>>
    BY <1>9, <1>10
  <1>12. left[r] - n = 0 <=> n = left[r]  BY <1>2
  <1>13. left' = [left EXCEPT ![r] = left[r] - n]  BY DEF RecordComplete
  <1> QED  BY <1>3, <1>5, <1>11, <1>12, <1>13 DEF Freed, Recorded

(* Where the record of one request changes, that of the others does not.   *)
LEMMA RecordedThere ==
  ASSUME TableOK, NEW r \in Requests, NEW rec, Recorded(r, rec)
  PROVE  /\ Found(r)' /\ Head(table'[r]) = rec
         /\ \A q \in Requests : q # r => table'[q] = table[q]
PROOF
  <1>1. table' = [table EXCEPT ![r] = <<rec>>]  BY DEF Recorded
  <1>2. table'[r] = <<rec>>  BY <1>1 DEF TableOK
  <1>3. <<rec>> # <<>> /\ Head(<<rec>>) = rec  OBVIOUS
  <1>4. \A q \in Requests : q # r => table'[q] = table[q]
    BY <1>1 DEF TableOK
  <1> QED  BY <1>2, <1>3, <1>4 DEF Found

LEMMA FreedThere ==
  ASSUME TableOK, NEW r \in Requests, Freed(r)
  PROVE  /\ ~Found(r)'
         /\ \A q \in Requests : q # r => table'[q] = table[q]
PROOF
  <1>1. table'[r] = <<>> /\ \A q \in Requests : q # r => table'[q] = table[q]
    BY DEF TableOK, Freed
  <1> QED  BY <1>1 DEF Found

-----------------------------------------------------------------------------
(* Nothing is left behind (NothingLeft).                                   *)

(* A request that does not grow, while the switch is on, has a record that *)
(* was made after it, and that still counts all it has to do.              *)
RecordFresh ==
  \A r \in Requests : Found(r) =>
    /\ phase[r] \in {"inserted", "issued", "requeued"}
    /\ Head(table[r]).bytes = left[r]

(* Remap entries, while no bio ends early: those of a bio on its way, or   *)
(* of a request without a record that may still get one.                   *)
RemapAwaited ==
  /\ \A b \in Bios, dev \in Devs : <<b, dev>> \in checked => b \in submitted
  /\ \A r \in Requests : \A b \in bios[r] : b \notin submitted
  /\ \A b \in Bios : bio_remap[b] # {} =>
       \/ b \in submitted
       \/ \E r \in Requests : phase[r] \in {"new", "requeued"} /\ b \in bios[r]
  /\ \A r \in Requests : rq_remap[r] # {} => phase[r] \in {"new", "requeued"}
  /\ \A r \in Requests : Found(r) =>
       rq_remap[r] = {} /\ \A b \in bios[r] : bio_remap[b] = {}

(* The switch is on for good where nobody writes it.                       *)
SwitchStays == "flip" \notin may => enabled

Grows == "merge" \in may \/ "flip" \in may
FreshInv ==
  /\ RecordsInv /\ SwitchStays
  /\ ~Grows => RecordFresh
  /\ ~Grows /\ "drop" \notin may => RemapAwaited

LEMMA SwitchStaysStep ==
  ASSUME SwitchStays, RecordsNext
  PROVE  SwitchStays'
PROOF
  BY DEF SwitchStays, RecordsNext, BlockNext, SubmitBio, DropBio, CheckBioRemap,
         AddBioRemap, NewRequest, MergeBio, RecordRqRemap, RecordInsert,
         RecordIssue, RecordRequeue, RecordComplete, WriteEnabled, WritePolicy,
         ClearRemapState, switchVars

(* The steps that change neither a record nor the request it is for.       *)
LEMMA FreshAlike ==
  ASSUME RecordFresh, UNCHANGED <<phase, left, table>>
  PROVE  RecordFresh'
PROOF
  BY DEF RecordFresh, Found

LEMMA FreshNewRequest ==
  ASSUME RecordsInv, RecordFresh, NEW r \in Requests, NEW own, NEW n,
         NewRequest(r, own, n)
  PROVE  RecordFresh'
PROOF
  <1>1. ~Found(r) /\ UNCHANGED table
    BY DEF NewRequest, RecordFresh
  <1>2. \A q \in Requests : q # r => phase'[q] = phase[q] /\ left'[q] = left[q]
    BY RecordsParts DEF NewRequest, BlockOK
  <1> QED  BY <1>1, <1>2 DEF RecordFresh, Found

LEMMA FreshInsert ==
  ASSUME RecordsInv, RecordFresh, NEW r \in Requests, RecordInsert(r)
  PROVE  RecordFresh'
PROOF
  <1>1. /\ phase'[r] = "inserted" /\ UNCHANGED left
        /\ \A q \in Requests : q # r => phase'[q] = phase[q]
    BY RecordsParts DEF RecordInsert, BlockOK
  <1>2. CASE UNCHANGED table
    BY <1>1, <1>2 DEF RecordFresh, Found
  <1>3. CASE Recorded(r, NewRecord(r, FALSE))
    <2>1. /\ Head(table'[r]) = NewRecord(r, FALSE)
          /\ \A q \in Requests : q # r => table'[q] = table[q]
      BY <1>3, RecordsParts, RecordedThere
    <2>2. NewRecord(r, FALSE).bytes = left[r]  BY DEF NewRecord
    <2> QED  BY <1>1, <2>1, <2>2 DEF RecordFresh, Found
  <1> QED  BY <1>2, <1>3, InsertRecords

LEMMA FreshIssue ==
  ASSUME RecordsInv, RecordFresh, NEW r \in Requests, RecordIssue(r)
  PROVE  RecordFresh'
PROOF
  <1>1. /\ phase'[r] = "issued" /\ UNCHANGED left
        /\ \A q \in Requests : q # r => phase'[q] = phase[q]
    BY RecordsParts DEF RecordIssue, BlockOK
  <1>2. CASE UNCHANGED table
    BY <1>1, <1>2 DEF RecordFresh, Found
  <1>3. ASSUME NEW rec, Recorded(r, rec), rec.bytes = left[r]
        PROVE  RecordFresh'
    <2>1. /\ Head(table'[r]) = rec
          /\ \A q \in Requests : q # r => table'[q] = table[q]
      BY <1>3, RecordsParts, RecordedThere
    <2> QED  BY <1>1, <1>3, <2>1 DEF RecordFresh, Found
  <1>4. CASE Found(r) /\ Recorded(r, [Head(table[r]) EXCEPT !.issued = TRUE])
    <2>1. [Head(table[r]) EXCEPT !.issued = TRUE].bytes = left[r]
      BY <1>4, RecordsParts, FoundRecord DEF RecordFresh, Record
    <2> QED  BY <1>3, <1>4, <2>1
  <1>5. CASE Recorded(r, NewRecord(r, TRUE))
    <2>1. NewRecord(r, TRUE).bytes = left[r]  BY DEF NewRecord
    <2> QED  BY <1>3, <1>5, <2>1
  <1> QED  BY <1>2, <1>4, <1>5, IssueRecords

LEMMA FreshRequeue ==
  ASSUME RecordsInv, RecordFresh, NEW r \in Requests, RecordRequeue(r)
  PROVE  RecordFresh'
PROOF
  <1>1. /\ phase'[r] = "requeued" /\ UNCHANGED <<left, table>>
        /\ \A q \in Requests : q # r => phase'[q] = phase[q]
    BY RecordsParts DEF RecordRequeue, BlockOK
  <1> QED  BY <1>1 DEF RecordFresh, Found

LEMMA FreshComplete ==
  ASSUME RecordsInv, RecordFresh, enabled, NEW r \in Requests,
         NEW n \in 0 .. MaxBytes, RecordComplete(r, n)
  PROVE  RecordFresh'
PROOF
  <1>1. \A q \in Requests : q # r => phase'[q] = phase[q] /\ left'[q] = left[q]
    BY RecordsParts DEF RecordComplete, BlockOK
  <1>2. CASE ~Found(r)
    BY <1>1, <1>2 DEF RecordComplete, RecordFresh, Found
  <1>3. CASE Found(r)
    <2>1. Head(table[r]).bytes = left[r]  BY <1>3 DEF RecordFresh
    <2>2. CASE n = left[r]
      <3>1. Freed(r)  BY <1>3, <2>1, <2>2, CompleteRecords
      <3>2. ~Found(r)' /\ \A q \in Requests : q # r => table'[q] = table[q]
        BY <3>1, FreedThere, RecordsParts
      <3> QED  BY <1>1, <3>2 DEF RecordFresh, Found
    <2>3. CASE n # left[r]
      <3> DEFINE rec == [Head(table[r]) EXCEPT !.bytes = left[r] - n]
      <3>1. Recorded(r, rec) /\ left' = [left EXCEPT ![r] = left[r] - n]
        BY <1>3, <2>1, <2>3, CompleteRecords
      <3>2. rec.bytes = left'[r]
        BY <1>3, <3>1, RecordsParts, FoundRecord DEF Record, BlockOK
      <3> HIDE DEF rec
      <3>3. Head(table'[r]) = rec /\ \A q \in Requests : q # r => table'[q] = table[q]
        BY <3>1, RecordedThere, RecordsParts
      <3>4. phase' = phase  BY <2>3 DEF RecordComplete
      <3> QED  BY <1>1, <1>3, <3>2, <3>3, <3>4 DEF RecordFresh, Found
    <2> QED  BY <2>2, <2>3
  <1> QED  BY <1>2, <1>3

LEMMA FreshStep ==
  ASSUME RecordsInv, RecordFresh, SwitchStays, ~Grows, RecordsNext
  PROVE  RecordFresh'
PROOF
  <1>1. CASE \E r \in Requests, own \in SUBSET Free, n \in 0 .. MaxBytes :
               NewRequest(r, own, n)
    BY <1>1, FreshNewRequest
  <1>2. CASE \E r \in Requests :
               \/ RecordInsert(r) \/ RecordIssue(r) \/ RecordRequeue(r)
               \/ \E n \in 0 .. MaxBytes : RecordComplete(r, n)
    BY <1>2, FreshInsert, FreshIssue, FreshRequeue, FreshComplete
       DEF SwitchStays, Grows
  <1>3. CASE ~(\E r \in Requests, own \in SUBSET Free, n \in 0 .. MaxBytes :
                 NewRequest(r, own, n))
             /\ ~(\E r \in Requests :
                    \/ RecordInsert(r) \/ RecordIssue(r) \/ RecordRequeue(r)
                    \/ \E n \in 0 .. MaxBytes : RecordComplete(r, n))
    <2>1. UNCHANGED <<phase, left, table>>
      BY <1>3 DEF RecordsNext, BlockNext, Grows, SubmitBio, DropBio, MergeBio,
                  CheckBioRemap, AddBioRemap, RecordRqRemap, WriteEnabled,
                  WritePolicy, ClearRemapState, blockVars
    <2> QED  BY <2>1, FreshAlike
  <1> QED  BY <1>1, <1>2, <1>3

(* The remap entries: bios on their way first.                             *)
LEMMA RemapBios ==
  ASSUME RecordsInv, RecordFresh, RemapAwaited, ~Grows, "drop" \notin may,
         NEW b \in Bios, NEW dev \in Devs,
         \/ SubmitBio(b) \/ DropBio(b)
         \/ CheckBioRemap(b, dev) \/ AddBioRemap(b, dev)
  PROVE  RemapAwaited'
PROOF
  <1>1. CASE SubmitBio(b)
    BY <1>1 DEF SubmitBio, RemapAwaited, Found, remapVars
  <1>2. CASE CheckBioRemap(b, dev)
    BY <1>2 DEF CheckBioRemap, RemapAwaited, Found, Free, blockVars
  <1>3. CASE AddBioRemap(b, dev)
    <2>1. /\ b \in submitted
          /\ \A c \in Bios : c # b => bio_remap'[c] = bio_remap[c]
          /\ checked' \subseteq checked
          /\ UNCHANGED <<phase, left, bios, submitted, table, rq_remap>>
      BY <1>3, RecordsParts DEF AddBioRemap, RemapAwaited, RemapOK, blockVars
    <2>2. \A r \in Requests : b \notin bios[r]
      BY <2>1 DEF RemapAwaited
    <2>3. \A r \in Requests : bios[r] \subseteq Bios
      BY RecordsParts DEF BlockOK
    <2> QED  BY <2>1, <2>2, <2>3 DEF RemapAwaited, Found
  <1> QED  BY <1>1, <1>2, <1>3 DEF DropBio

LEMMA RemapNewRequest ==
  ASSUME RecordsInv, RecordFresh, RemapAwaited, NEW r \in Requests,
         NEW own \in SUBSET Free, NEW n, NewRequest(r, own, n)
  PROVE  RemapAwaited'
PROOF
  <1>1. /\ phase[r] = "idle" /\ phase'[r] = "new" /\ bios'[r] = own
        /\ \A q \in Requests : q # r => phase'[q] = phase[q] /\ bios'[q] = bios[q]
        /\ submitted' = submitted \ own
        /\ UNCHANGED <<table, bio_remap, rq_remap, checked>>
    BY RecordsParts DEF NewRequest, BlockOK, remapVars
  <1>2. \A b \in own : b \in submitted /\ \A dev \in Devs : <<b, dev>> \notin checked
    BY DEF Free
  <1>3. ~Found(r)  BY <1>1 DEF RecordFresh
  <1> QED  BY <1>1, <1>2, <1>3 DEF RemapAwaited, Found

LEMMA RemapRqRemap ==
  ASSUME RecordsInv, RecordFresh, RemapAwaited, NEW r \in Requests,
         NEW dev \in Devs, RecordRqRemap(r, dev)
  PROVE  RemapAwaited'
PROOF
  <1>1. /\ phase[r] = "new"
        /\ \A q \in Requests : q # r => rq_remap'[q] = rq_remap[q]
        /\ UNCHANGED <<phase, bios, submitted, table, bio_remap, checked>>
    BY RecordsParts DEF RecordRqRemap, RemapOK, blockVars
  <1>2. ~Found(r)  BY <1>1 DEF RecordFresh
  <1> QED  BY <1>1, <1>2 DEF RemapAwaited, Found

(* consume_request_remap takes out what waited for this request.           *)
LEMMA Consumed ==
  ASSUME RecordsInv, NEW r \in Requests, ConsumeRemap(r)
  PROVE  /\ rq_remap'[r] = {} /\ \A b \in bios[r] : bio_remap'[b] = {}
         /\ \A q \in Requests : q # r => rq_remap'[q] = rq_remap[q]
         /\ \A b \in Bios : b \notin bios[r] => bio_remap'[b] = bio_remap[b]
         /\ UNCHANGED checked
PROOF
  BY RecordsParts DEF ConsumeRemap, RemapOK, BlockOK

(* A request moves on, its remap entries consumed, or recorded before.     *)
LEMMA RemapRecorded ==
  ASSUME RecordsInv, RemapAwaited, NEW r \in Requests,
         \/ ConsumeRemap(r)
         \/ Found(r) /\ UNCHANGED remapVars,
         \A q \in Requests : q # r => phase'[q] = phase[q] /\ table'[q] = table[q],
         UNCHANGED <<bios, submitted>>
  PROVE  RemapAwaited'
PROOF
  <1>1. /\ rq_remap'[r] = {} /\ \A b \in bios[r] : bio_remap'[b] = {}
        /\ \A q \in Requests : q # r => rq_remap'[q] = rq_remap[q]
        /\ \A b \in Bios : b \notin bios[r] => bio_remap'[b] = bio_remap[b]
        /\ UNCHANGED checked
    BY Consumed DEF RemapAwaited, remapVars
  <1>2. \A q \in Requests : bios[q] \subseteq Bios
    BY RecordsParts DEF BlockOK
  <1>3. \A b \in Bios : bio_remap'[b] # {} => b \notin bios[r] /\ bio_remap[b] # {}
    BY <1>1
  <1>4. \A b \in Bios : bio_remap'[b] # {} =>
          \/ b \in submitted'
          \/ \E q \in Requests : phase'[q] \in {"new", "requeued"} /\ b \in bios'[q]
    BY <1>3 DEF RemapAwaited
  <1>5. \A q \in Requests : rq_remap'[q] # {} => phase'[q] \in {"new", "requeued"}
    BY <1>1 DEF RemapAwaited
  <1>6. \A q \in Requests : Found(q)' =>
          rq_remap'[q] = {} /\ \A b \in bios'[q] : bio_remap'[b] = {}
    BY <1>1, <1>2 DEF RemapAwaited, Found
  <1> QED  BY <1>1, <1>4, <1>5, <1>6 DEF RemapAwaited

LEMMA RemapInsert ==
  ASSUME RecordsInv, RemapAwaited, enabled, NEW r \in Requests, RecordInsert(r)
  PROVE  RemapAwaited'
PROOF
  <1>1. \A q \in Requests : q # r => phase'[q] = phase[q]
    BY RecordsParts DEF RecordInsert, BlockOK
  <1>2. \A q \in Requests : q # r => table'[q] = table[q]
    BY RecordsParts, InsertRecords, RecordedThere
  <1>3. ConsumeRemap(r) /\ UNCHANGED <<bios, submitted>>
    BY DEF RecordInsert
  <1> QED  BY <1>1, <1>2, <1>3, RemapRecorded

LEMMA RemapIssue ==
  ASSUME RecordsInv, RemapAwaited, enabled, NEW r \in Requests, RecordIssue(r)
  PROVE  RemapAwaited'
PROOF
  <1>1. \A q \in Requests : q # r => phase'[q] = phase[q]
    BY RecordsParts DEF RecordIssue, BlockOK
  <1>2. \A q \in Requests : q # r => table'[q] = table[q]
    BY RecordsParts, IssueRecords, RecordedThere
  <1>3. \/ ConsumeRemap(r)
        \/ Found(r) /\ UNCHANGED remapVars
    BY DEF RecordIssue, IssueKnown, IssueUnknown
  <1>4. UNCHANGED <<bios, submitted>>
    BY DEF RecordIssue
  <1> QED  BY <1>1, <1>2, <1>3, <1>4, RemapRecorded

LEMMA RemapRequeue ==
  ASSUME RecordsInv, RemapAwaited, NEW r \in Requests, RecordRequeue(r)
  PROVE  RemapAwaited'
PROOF
  <1>1. /\ phase'[r] = "requeued"
        /\ \A q \in Requests : q # r => phase'[q] = phase[q]
        /\ UNCHANGED <<bios, submitted, table, bio_remap, rq_remap, checked>>
    BY RecordsParts DEF RecordRequeue, BlockOK, remapVars
  <1> QED  BY <1>1 DEF RemapAwaited, Found

LEMMA RemapComplete ==
  ASSUME RecordsInv, RecordFresh, RemapAwaited, enabled, "drop" \notin may,
         NEW r \in Requests, NEW n \in 0 .. MaxBytes, RecordComplete(r, n)
  PROVE  RemapAwaited'
PROOF
  <1>1. /\ phase[r] = "issued" /\ bios'[r] \subseteq bios[r]
        /\ phase'[r] \in {"issued", "idle"}
        /\ \A q \in Requests : q # r => phase'[q] = phase[q] /\ bios'[q] = bios[q]
        /\ UNCHANGED <<submitted, bio_remap, rq_remap, checked>>
    BY RecordsParts DEF RecordComplete, BlockOK, remapVars
  <1>2. \A q \in Requests : Found(q)' => Found(q)
    <2>1. CASE ~Found(r)
      BY <2>1 DEF RecordComplete, Found
    <2>2. CASE Found(r)
      BY <2>2, RecordsParts, CompleteRecords, FreedThere, RecordedThere
         DEF RecordFresh, Found
    <2> QED  BY <2>1, <2>2
  <1> QED  BY <1>1, <1>2 DEF RemapAwaited

LEMMA RemapStep ==
  ASSUME RecordsInv, RecordFresh, RemapAwaited, SwitchStays,
         ~Grows, "drop" \notin may, RecordsNext
  PROVE  RemapAwaited'
PROOF
  <1>1. CASE \E b \in Bios : \/ SubmitBio(b)
                             \/ \E dev \in Devs :
                                  CheckBioRemap(b, dev) \/ AddBioRemap(b, dev)
    <2>1. CASE \E b \in Bios : SubmitBio(b)
      BY <2>1 DEF SubmitBio, RemapAwaited, Found, remapVars
    <2>2. CASE \E b \in Bios, dev \in Devs :
                 CheckBioRemap(b, dev) \/ AddBioRemap(b, dev)
      BY <2>2, RemapBios
    <2> QED  BY <1>1, <2>1, <2>2
  <1>2. CASE \E r \in Requests, own \in SUBSET Free, n \in 0 .. MaxBytes :
               NewRequest(r, own, n)
    BY <1>2, RemapNewRequest
  <1>3. CASE \E r \in Requests, dev \in Devs : RecordRqRemap(r, dev)
    BY <1>3, RemapRqRemap
  <1>4. CASE \E r \in Requests :
               \/ RecordInsert(r) \/ RecordIssue(r) \/ RecordRequeue(r)
               \/ \E n \in 0 .. MaxBytes : RecordComplete(r, n)
    BY <1>4, RemapInsert, RemapIssue, RemapRequeue, RemapComplete
       DEF SwitchStays, Grows
  <1>5. CASE WritePolicy
    BY <1>5 DEF WritePolicy, RemapAwaited, Found, blockVars, remapVars
  <1>6. CASE ClearRemapState
    <2>1. /\ \A b \in Bios : bio_remap'[b] = {}
          /\ \A r \in Requests : rq_remap'[r] = {}
          /\ UNCHANGED <<phase, bios, submitted, table, checked>>
      BY <1>6 DEF ClearRemapState, blockVars
    <2>2. \A r \in Requests : bios[r] \subseteq Bios
      BY RecordsParts DEF BlockOK
    <2> QED  BY <2>1, <2>2 DEF RemapAwaited, Found
  <1> QED
    BY <1>1, <1>2, <1>3, <1>4, <1>5, <1>6
       DEF RecordsNext, BlockNext, Grows, DropBio, MergeBio, WriteEnabled

LEMMA FreshInvInit == RecordsInit => FreshInv
PROOF
  <1> SUFFICES ASSUME RecordsInit PROVE FreshInv
    OBVIOUS
  <1>1. RecordsInv  BY RecordsInvInit
  <1>2. SwitchStays  BY DEF RecordsInit, SwitchStays
  <1>3. \A r \in Requests : ~Found(r)  BY DEF RecordsInit, Found
  <1>4. RecordFresh  BY <1>3 DEF RecordFresh
  <1>5. RemapAwaited  BY <1>3 DEF RecordsInit, RemapAwaited
  <1> QED  BY <1>1, <1>2, <1>4, <1>5 DEF FreshInv

LEMMA FreshInvStep == FreshInv /\ [RecordsNext]_recordVars => FreshInv'
PROOF
  <1> SUFFICES ASSUME FreshInv, [RecordsNext]_recordVars PROVE FreshInv'
    OBVIOUS
  <1>1. RecordsInv'  BY RecordsInvStep DEF FreshInv
  <1>2. CASE UNCHANGED recordVars
    <2>1. UNCHANGED <<may, phase, left, bios, submitted, table, bio_remap,
                      rq_remap, checked, enabled>>
      BY <1>2 DEF recordVars, blockVars, remapVars, switchVars
    <2>2. (~Grows)' = ~Grows  BY <2>1 DEF Grows
    <2>3. SwitchStays'  BY <2>1 DEF FreshInv, SwitchStays
    <2>4. RecordFresh' = RecordFresh  BY <2>1 DEF RecordFresh, Found
    <2>5. RemapAwaited' = RemapAwaited  BY <2>1 DEF RemapAwaited, Found
    <2> QED  BY <1>1, <2>1, <2>2, <2>3, <2>4, <2>5 DEF FreshInv
  <1>3. CASE RecordsNext
    <2>1. UNCHANGED may  BY <1>3 DEF RecordsNext
    <2>2. SwitchStays'  BY <1>3, SwitchStaysStep DEF FreshInv
    <2>3. ~Grows => RecordFresh'  BY <1>3, FreshStep DEF FreshInv
    <2>4. ~Grows /\ "drop" \notin may => RemapAwaited'
      BY <1>3, RemapStep DEF FreshInv
    <2>5. (~Grows)' = ~Grows  BY <2>1 DEF Grows
    <2> QED  BY <1>1, <2>1, <2>2, <2>3, <2>4, <2>5 DEF FreshInv
  <1> QED  BY <1>2, <1>3

THEOREM FreshInvariant == RecordsSpec => []FreshInv
PROOF
  BY FreshInvInit, FreshInvStep, PTL DEF RecordsSpec

(* record_complete frees every record, and consume_request_remap takes out *)
(* every remap entry, before its request or bio structure is used again.   *)
THEOREM RecordsNothingLeft == RecordsSpec => []NothingLeft
PROOF
  <1>1. FreshInv => NothingLeft
    <2> SUFFICES ASSUME FreshInv PROVE NothingLeft
      OBVIOUS
    <2>1. NoRecordLeft
      BY DEF FreshInv, Grows, RecordFresh, NoRecordLeft
    <2>2. NoRemapLeft
      BY DEF FreshInv, Grows, RemapAwaited, NoRemapLeft
    <2> QED  BY <2>1, <2>2 DEF NothingLeft
  <1> QED  BY <1>1, FreshInvariant, PTL

-----------------------------------------------------------------------------
(* The drift of in_flight (InFlightDrift).                                 *)

(* The requests whose record says they were issued; as long as no record   *)
(* outlives its request, they are those the device has.                    *)
Marked == {r \in Requests : Found(r) /\ Head(table[r]).issued}

LEMMA MarkedInDevice == RecordFresh => InDevice = Marked
PROOF
  BY DEF RecordFresh, InDevice, Marked

LEMMA MarkedRecorded ==
  ASSUME TableOK, NEW r \in Requests, NEW rec, Recorded(r, rec),
         rec.issued \in BOOLEAN
  PROVE  Marked' = IF rec.issued THEN Marked \cup {r} ELSE Marked \ {r}
PROOF
  <1>1. /\ Found(r)' /\ Head(table'[r]) = rec
        /\ \A q \in Requests : q # r => table'[q] = table[q]
    BY RecordedThere
  <1>2. \A q \in Requests : q # r => (q \in Marked' <=> q \in Marked)
    BY <1>1 DEF Marked, Found
  <1>3. r \in Marked' <=> rec.issued
    BY <1>1 DEF Marked, Found
  <1>4. Marked \subseteq Requests /\ Marked' \subseteq Requests
    BY DEF Marked
  <1> QED  BY <1>2, <1>3, <1>4, Zenon

LEMMA MarkedFreed ==
  ASSUME TableOK, NEW r \in Requests, Freed(r)
  PROVE  Marked' = Marked \ {r}
PROOF
  <1>1. ~Found(r)' /\ \A q \in Requests : q # r => table'[q] = table[q]
    BY FreedThere
  <1> QED  BY <1>1 DEF Marked, Found

(* The ways in which one step changes the marked requests and in_flight:   *)
(* both alike, or one of them only, for the reason that is named.          *)
Together == UNCHANGED <<Marked, in_flight>>
Starts(r) == r \notin Marked /\ Marked' = Marked \cup {r} /\ DeviceIssue
Ends(r) == r \in Marked /\ Marked' = Marked \ {r} /\ DeviceComplete
DropsMark(r) ==
  "reinsert" \in may /\ Marked' = Marked \ {r} /\ UNCHANGED in_flight
EndsEarly == "partial" \in may /\ UNCHANGED Marked /\ DeviceComplete

DriftStep ==
  \/ Together \/ EndsEarly
  \/ \E r \in Requests : Starts(r) \/ Ends(r) \/ DropsMark(r)

LEMMA DriftInsert ==
  ASSUME RecordsInv, RecordFresh, NEW r \in Requests, RecordInsert(r)
  PROVE  DriftStep
PROOF
  <1>1. UNCHANGED in_flight /\ (phase[r] = "new" \/ "reinsert" \in may)
    BY DEF RecordInsert, deviceVars
  <1>2. CASE UNCHANGED table
    BY <1>1, <1>2 DEF DriftStep, Together, Marked, Found
  <1>3. CASE Recorded(r, NewRecord(r, FALSE))
    <2>1. NewRecord(r, FALSE).issued = FALSE  BY DEF NewRecord
    <2>2. Marked' = Marked \ {r}
      BY <1>3, <2>1, RecordsParts, MarkedRecorded
    <2>3. phase[r] = "new" => r \notin Marked
      BY DEF RecordFresh, Marked
    <2> QED  BY <1>1, <2>2, <2>3 DEF DriftStep, Together, DropsMark
  <1> QED  BY <1>2, <1>3, InsertRecords

LEMMA DriftIssue ==
  ASSUME RecordsInv, NEW r \in Requests, RecordIssue(r)
  PROVE  DriftStep
PROOF
  <1>1. TableOK  BY RecordsParts
  <1>2. CASE UNCHANGED <<table, deviceVars>>
    BY <1>2 DEF DriftStep, Together, Marked, Found, deviceVars
  <1>3. CASE /\ Found(r) /\ Recorded(r, [Head(table[r]) EXCEPT !.issued = TRUE])
             /\ IF Head(table[r]).issued THEN UNCHANGED deviceVars ELSE DeviceIssue
    <2>1. [Head(table[r]) EXCEPT !.issued = TRUE].issued = TRUE
      BY <1>1, <1>3, FoundRecord DEF Record
    <2>2. Marked' = Marked \cup {r}
      BY <1>1, <1>3, <2>1, MarkedRecorded
    <2>3. CASE Head(table[r]).issued
      <3>1. r \in Marked  BY <1>3, <2>3 DEF Marked
      <3> QED  BY <1>3, <2>2, <2>3, <3>1 DEF DriftStep, Together, deviceVars
    <2>4. CASE ~Head(table[r]).issued
      <3>1. r \notin Marked  BY <2>4 DEF Marked
      <3> QED  BY <1>3, <2>2, <2>4, <3>1 DEF DriftStep, Starts
    <2> QED  BY <2>3, <2>4
  <1>4. CASE ~Found(r) /\ Recorded(r, NewRecord(r, TRUE)) /\ DeviceIssue
    <2>1. NewRecord(r, TRUE).issued = TRUE  BY DEF NewRecord
    <2>2. Marked' = Marked \cup {r}
      BY <1>1, <1>4, <2>1, MarkedRecorded
    <2>3. r \notin Marked  BY <1>4 DEF Marked
    <2> QED  BY <1>4, <2>2, <2>3 DEF DriftStep, Starts
  <1> QED  BY <1>2, <1>3, <1>4, IssueRecords

LEMMA DriftComplete ==
  ASSUME RecordsInv, RecordFresh, enabled, NEW r \in Requests,
         NEW n \in 0 .. MaxBytes, RecordComplete(r, n)
  PROVE  DriftStep
PROOF
  <1>1. TableOK  BY RecordsParts
  <1>2. CASE ~Found(r)
    BY <1>2 DEF RecordComplete, DriftStep, Together, Marked, Found, deviceVars
  <1>3. CASE Found(r)
    <2>1. IF Head(table[r]).issued THEN DeviceComplete ELSE UNCHANGED in_flight
      BY <1>3 DEF RecordComplete, deviceVars
    <2>2. r \in Marked <=> Head(table[r]).issued
      BY <1>3 DEF Marked
    <2>3. CASE n = left[r]
      <3>1. Freed(r)  BY <1>3, <2>3, CompleteRecords DEF RecordFresh
      <3>2. Marked' = Marked \ {r}  BY <1>1, <3>1, MarkedFreed
      <3>3. CASE r \in Marked
        BY <2>1, <2>2, <3>2, <3>3 DEF DriftStep, Ends
      <3>4. CASE r \notin Marked
        BY <2>1, <2>2, <3>2, <3>4 DEF DriftStep, Together
      <3> QED  BY <3>3, <3>4
    <2>4. CASE n # left[r]
      <3> DEFINE rec == [Head(table[r]) EXCEPT !.bytes = left[r] - n]
      <3>1. Recorded(r, rec)
        BY <1>3, <2>4, CompleteRecords DEF RecordFresh
      <3>2. rec.issued = Head(table[r]).issued /\ rec.issued \in BOOLEAN
        BY <1>1, <1>3, FoundRecord DEF Record
      <3> HIDE DEF rec
      <3>3. Marked' = IF rec.issued THEN Marked \cup {r} ELSE Marked \ {r}
        BY <1>1, <3>1, <3>2, MarkedRecorded
      <3>4. Marked' = Marked  BY <2>2, <3>2, <3>3
      <3>5. "partial" \in may  BY <2>4 DEF RecordComplete
      <3> QED  BY <2>1, <3>4, <3>5 DEF DriftStep, EndsEarly, Together
    <2> QED  BY <2>3, <2>4
  <1> QED  BY <1>2, <1>3

LEMMA DriftSteps ==
  ASSUME RecordsInv, RecordFresh, SwitchStays, ~Grows, RecordsNext
  PROVE  DriftStep
PROOF
  <1>1. CASE \E r \in Requests :
               \/ RecordInsert(r) \/ RecordIssue(r)
               \/ \E n \in 0 .. MaxBytes : RecordComplete(r, n)
    BY <1>1, DriftInsert, DriftIssue, DriftComplete DEF SwitchStays, Grows
  <1>2. CASE ~(\E r \in Requests :
                 \/ RecordInsert(r) \/ RecordIssue(r)
                 \/ \E n \in 0 .. MaxBytes : RecordComplete(r, n))
    <2>1. UNCHANGED <<table, deviceVars>>
      BY <1>2 DEF RecordsNext, BlockNext, Grows, SubmitBio, DropBio, MergeBio,
                  NewRequest, RecordRequeue, CheckBioRemap, AddBioRemap,
                  RecordRqRemap, WriteEnabled, WritePolicy, ClearRemapState
    <2> QED  BY <2>1 DEF DriftStep, Together, Marked, Found, deviceVars
  <1> QED  BY <1>1, <1>2

Over == in_flight <= Cardinality(Marked)
Under == in_flight >= Cardinality(Marked)

(* How many requests are marked: the set is finite, as the tag sets are.   *)
LEMMA MarkedCount ==
  /\ IsFiniteSet(Marked) /\ Cardinality(Marked) \in Nat
  /\ \A r \in Requests :
       /\ r \notin Marked => Cardinality(Marked \cup {r}) = Cardinality(Marked) + 1
       /\ r \in Marked => /\ Cardinality(Marked) > 0
                          /\ Cardinality(Marked \ {r}) = Cardinality(Marked) - 1
PROOF
  <1>1. IsFiniteSet(Marked)
    <2>1. Marked \subseteq Requests  BY DEF Marked
    <2> QED  BY <2>1, RecordsAssumption, FS_Subset
  <1>2. Cardinality(Marked) \in Nat  BY <1>1, FS_CardinalityType
  <1>3. ASSUME NEW r \in Requests, r \notin Marked
        PROVE  Cardinality(Marked \cup {r}) = Cardinality(Marked) + 1
    BY <1>1, <1>3, FS_AddElement
  <1>4. ASSUME NEW r \in Requests, r \in Marked
        PROVE  /\ Cardinality(Marked) > 0
               /\ Cardinality(Marked \ {r}) = Cardinality(Marked) - 1
    <2>1. Cardinality(Marked \ {r}) = Cardinality(Marked) - 1
      BY <1>1, <1>4, FS_RemoveElement
    <2>2. Cardinality(Marked) # 0  BY <1>1, <1>4, FS_EmptySet
    <2> QED  BY <1>2, <2>1, <2>2
  <1> QED  BY <1>1, <1>2, <1>3, <1>4

(* Only an early end takes in_flight below the marked requests, and only a *)
(* mark that is dropped takes it above.                                    *)
LEMMA DriftDirections ==
  ASSUME in_flight \in Nat, DriftStep
  PROVE  /\ Over /\ "reinsert" \notin may => Over'
         /\ Under /\ "partial" \notin may => Under'
PROOF
  <1> DEFINE size == Cardinality(Marked)
  <1>1. size \in Nat  BY MarkedCount
  <1>2. CASE Together
    BY <1>2 DEF Together, Over, Under
  <1>3. CASE EndsEarly
    <2>1. in_flight' = (IF in_flight > 0 THEN in_flight - 1 ELSE 0)
          /\ Cardinality(Marked)' = size /\ "partial" \in may
      BY <1>3 DEF EndsEarly, DeviceComplete
    <2> QED  BY <1>1, <2>1 DEF Over
  <1>4. ASSUME NEW r \in Requests, Starts(r)
        PROVE  (Over => Over') /\ (Under => Under')
    <2>1. in_flight' = in_flight + 1 /\ Cardinality(Marked)' = size + 1
      BY <1>4, MarkedCount DEF Starts, DeviceIssue
    <2> QED  BY <1>1, <2>1 DEF Over, Under
  <1>5. ASSUME NEW r \in Requests, Ends(r)
        PROVE  (Over => Over') /\ (Under => Under')
    <2>1. /\ in_flight' = IF in_flight > 0 THEN in_flight - 1 ELSE 0
          /\ size > 0 /\ Cardinality(Marked)' = size - 1
      BY <1>5, MarkedCount DEF Ends, DeviceComplete
    <2> QED  BY <1>1, <2>1 DEF Over, Under
  <1>6. ASSUME NEW r \in Requests, DropsMark(r)
        PROVE  "reinsert" \in may /\ (Under => Under')
    <2>1. /\ "reinsert" \in may /\ in_flight' = in_flight
          /\ Marked' = Marked \ {r}
      BY <1>6 DEF DropsMark
    <2>2. Cardinality(Marked \ {r}) \in {size, size - 1}
      <3>1. r \notin Marked => Marked \ {r} = Marked  OBVIOUS
      <3> QED  BY <3>1, MarkedCount
    <2>3. Cardinality(Marked)' \in {size, size - 1}  BY <2>1, <2>2
    <2> QED  BY <1>1, <2>1, <2>3 DEF Under
  <1> QED  BY <1>2, <1>3, <1>4, <1>5, <1>6 DEF DriftStep

DriftInv ==
  /\ FreshInv
  /\ ~Grows /\ "reinsert" \notin may => Over
  /\ ~Grows /\ "partial" \notin may => Under

LEMMA DriftInvInit == RecordsInit => DriftInv
PROOF
  <1> SUFFICES ASSUME RecordsInit PROVE DriftInv
    OBVIOUS
  <1>1. FreshInv  BY FreshInvInit
  <1>2. Marked = {}  BY DEF RecordsInit, Marked, Found
  <1>3. Cardinality(Marked) = 0  BY <1>2, FS_EmptySet
  <1>4. in_flight = 0  BY DEF RecordsInit
  <1>5. Over /\ Under  BY <1>3, <1>4 DEF Over, Under
  <1> QED  BY <1>1, <1>5 DEF DriftInv

LEMMA DriftInvStep == DriftInv /\ [RecordsNext]_recordVars => DriftInv'
PROOF
  <1> SUFFICES ASSUME DriftInv, [RecordsNext]_recordVars PROVE DriftInv'
    OBVIOUS
  <1>1. FreshInv'  BY FreshInvStep DEF DriftInv
  <1>2. UNCHANGED may /\ (~Grows => DriftStep)
    <2>1. CASE RecordsNext
      BY <2>1, DriftSteps DEF DriftInv, FreshInv, RecordsNext
    <2>2. CASE UNCHANGED recordVars
      BY <2>2 DEF recordVars, deviceVars, DriftStep, Together, Marked, Found
    <2> QED  BY <2>1, <2>2
  <1>3. in_flight \in Nat
    BY DEF DriftInv, FreshInv, RecordsInv, RecordsTypeOK
  <1>4. ~Grows => /\ Over /\ "reinsert" \notin may => Over'
                  /\ Under /\ "partial" \notin may => Under'
    BY <1>2, <1>3, DriftDirections
  <1>5. Grows' = Grows  BY <1>2 DEF Grows
  <1> QED  BY <1>1, <1>2, <1>4, <1>5 DEF DriftInv

THEOREM DriftInvariant == RecordsSpec => []DriftInv
PROOF
  BY DriftInvInit, DriftInvStep, PTL DEF RecordsSpec

(* The issue and completion hooks let in_flight drift from the number of   *)
(* requests in the device only for the reasons that are named, and only in *)
(* the direction each of them has.                                         *)
THEOREM RecordsInFlightDrift == RecordsSpec => []InFlightDrift
PROOF
  <1>1. DriftInv => InFlightDrift
    <2> SUFFICES ASSUME DriftInv PROVE InFlightDrift
      OBVIOUS
    <2>1. ~Grows => InDevice = Marked
      BY MarkedInDevice DEF DriftInv, FreshInv
    <2>2. InFlightNotOver
      BY <2>1 DEF DriftInv, Grows, Over, InFlightNotOver
    <2>3. InFlightNotUnder
      BY <2>1 DEF DriftInv, Grows, Under, InFlightNotUnder
    <2>4. in_flight \in Nat /\ Cardinality(Marked) \in Nat
      BY MarkedCount DEF DriftInv, FreshInv, RecordsInv, RecordsTypeOK
    <2>5. InFlightExact
      <3> SUFFICES ASSUME may \cap {"partial", "reinsert", "merge", "flip"} = {}
                   PROVE  in_flight = Cardinality(InDevice)
        BY DEF InFlightExact
      <3>1. ~Grows /\ "reinsert" \notin may /\ "partial" \notin may
        BY DEF Grows
      <3>2. Over /\ Under /\ InDevice = Marked
        BY <2>1, <3>1 DEF DriftInv
      <3> QED  BY <2>4, <3>2 DEF Over, Under
    <2> QED  BY <2>2, <2>3, <2>5 DEF InFlightDrift
  <1> QED  BY <1>1, DriftInvariant, PTL

=============================================================================
