--------------------------- MODULE DirtyRateProofs ---------------------------
(***************************************************************************)
(* Proofs about DirtyRate and DirtyRatePolicy: the bucket agrees with the  *)
(* configuration, nobody sleeps on an obsolete one, only background tasks  *)
(* are made to wait, and the composition with the policy implements the    *)
(* limiter, for any writers, rates, page size and length of a second.      *)
(***************************************************************************)
EXTENDS DirtyRatePolicy, TLAPS

(* A task about to take the lock that is not in /background will be let    *)
(* through, unless the configuration moved since it looked.                *)
CheckedLetThrough ==
  \A w \in Writers : pc[w] = "checked" /\ w \notin Background /\ w \notin unread =>
    Bypassed(w)

BucketTypes ==
  /\ enabled \in BOOLEAN /\ active \in BOOLEAN
  /\ config_wbps \in Rates \cup {0} /\ wbps \in Rates \cup {0}
  /\ tokens \in Nat /\ age \in 0 .. MaxAge
TaskTypes ==
  /\ fg_uid \in Uids \cup {NoUid}
  /\ pc \in [Writers -> Places]
  /\ seen \in [Writers -> Uids \cup {NoUid}]
  /\ timer \in [Writers -> Nat]
  /\ stale \subseteq Writers /\ unread \subseteq Writers
  /\ caller \in [Callers -> {"idle", "count", "wake"}]

LEMMA TypesSplit ==
  /\ LimiterTypeOK <=> BucketTypes /\ TaskTypes
  /\ LimiterTypeOK' <=> BucketTypes' /\ TaskTypes'
PROOF
  BY DEF LimiterTypeOK, BucketTypes, TaskTypes

-----------------------------------------------------------------------------
(* Arithmetic.                                                             *)

LEMMA QuotientNat == \A x \in Nat, y \in Nat \ {0} : x \div y \in Nat
PROOF
  OBVIOUS

LEMMA ConversionTypes ==
  ASSUME NEW x \in Nat, NEW rate \in Nat \ {0}, NEW up \in BOOLEAN
  PROVE  BytesForNs(x, rate) \in Nat /\ NsForBytes(x, rate, up) \in Nat
PROOF
  <1>1. x * rate \in Nat /\ x * Second \in Nat /\ Second \in Nat \ {0}
    BY DirtyRateAssumption
  <1>2. (x * rate) \div Second \in Nat /\ (x * Second) \div rate \in Nat
    BY <1>1, QuotientNat
  <1>3. (IF up /\ x % rate # 0 THEN 1 ELSE 0) \in {0, 1}  OBVIOUS
  <1>4. NsForBytes(x, rate, up) \in Nat
    BY <1>2, <1>3 DEF NsForBytes
  <1> QED  BY <1>2, <1>4 DEF BytesForNs

(* A bucket with a rate holds at least a page, one without holds nothing.  *)
LEMMA BurstTypes ==
  ASSUME NEW rate \in Nat
  PROVE  /\ BurstOf(rate) \in Nat
         /\ rate # 0 => BurstOf(rate) >= Page
         /\ BurstOf(0) = 0
PROOF
  BY DirtyRateAssumption DEF BurstOf

(* dirtyrate_refill_locked keeps the tokens between what they were and the *)
(* burst, and makes no bucket older.                                       *)
LEMMA RefillBounds ==
  ASSUME NEW rate \in Nat \ {0}, NEW t \in Nat, t <= BurstOf(rate),
         NEW a \in 0 .. MaxAge
  PROVE  /\ Refill(t, a, rate).tokens \in Nat
         /\ t <= Refill(t, a, rate).tokens
         /\ Refill(t, a, rate).tokens <= BurstOf(rate)
         /\ Refill(t, a, rate).age \in 0 .. MaxAge
PROOF
  <1> DEFINE burst == BurstOf(rate)
             added == BytesForNs(a, rate)
             used == NsForBytes(added, rate, FALSE)
             advanced == IF used > 1 THEN used ELSE 1
             full == t >= burst \/ a >= NsForBytes(burst - t, rate, TRUE) \/ added >= burst - t
  <1>1. burst \in Nat /\ MaxAge \in Nat /\ a \in Nat  BY BurstTypes, DirtyRateAssumption
  <1>2. added \in Nat  BY <1>1, ConversionTypes
  <1>3. used \in Nat  BY <1>2, ConversionTypes
  <1>4. advanced \in Nat  BY <1>3
  <1>5. Refill(t, a, rate) =
          IF full THEN [tokens |-> burst, age |-> 0]
          ELSE IF added = 0 THEN [tokens |-> t, age |-> a]
          ELSE [tokens |-> t + added, age |-> IF advanced < a THEN a - advanced ELSE 0]
    BY DEF Refill
  <1>6. ~full => ~(added >= burst - t)  BY Zenon
  <1>7. t <= burst  OBVIOUS
  <1> HIDE DEF burst, added, used, advanced, full
  <1>8. CASE full  BY <1>1, <1>5, <1>7, <1>8 DEF burst
  <1>9. CASE ~full /\ added = 0  BY <1>1, <1>5, <1>7, <1>9 DEF burst
  <1>10. CASE ~full /\ added # 0
    <2>1. Refill(t, a, rate).tokens = t + added
      BY <1>5, <1>10
    <2>2. Refill(t, a, rate).age = IF advanced < a THEN a - advanced ELSE 0
      BY <1>5, <1>10
    <2>3. t + added \in Nat /\ t <= t + added /\ t + added <= burst
      BY <1>1, <1>2, <1>6, <1>7, <1>10
    <2>4. (IF advanced < a THEN a - advanced ELSE 0) \in 0 .. MaxAge
      BY <1>1, <1>4
    <2> QED  BY <2>1, <2>2, <2>3, <2>4 DEF burst
  <1> QED  BY <1>8, <1>9, <1>10

-----------------------------------------------------------------------------
(* The invariant, one lemma for each part.                                 *)

LimiterInv ==
  BucketTypes /\ TaskTypes /\ BucketConsistent /\ NoStaleSleep
    /\ OutsidersWaitOnChange /\ CheckedLetThrough

(* A hook step that looks at the bucket fills it first.                    *)
LEMMA FilledBucket ==
  ASSUME BucketTypes, BucketConsistent, NEW w \in Writers, ~Bypassed(w)
  PROVE  /\ wbps \in Nat \ {0}
         /\ Refill(tokens, age, wbps).tokens \in Nat
         /\ tokens <= Refill(tokens, age, wbps).tokens
         /\ Refill(tokens, age, wbps).tokens <= BurstOf(wbps)
         /\ Refill(tokens, age, wbps).age \in 0 .. MaxAge
PROOF
  <1>1. wbps \in Nat \ {0}
    BY DirtyRateAssumption DEF Bypassed, BucketTypes
  <1>2. tokens \in Nat /\ tokens <= BurstOf(wbps) /\ age \in 0 .. MaxAge
    BY DEF BucketTypes, BucketConsistent
  <1> QED  BY <1>1, <1>2, RefillBounds

LEMMA ResetKeeps ==
  ASSUME NEW rate \in Rates \cup {0}, ResetBucket(rate)
  PROVE  /\ wbps' = rate /\ wbps' \in Rates \cup {0}
         /\ tokens' \in Nat /\ age' \in 0 .. MaxAge
         /\ tokens' <= BurstOf(wbps')
PROOF
  <1>1. rate \in Nat  BY DirtyRateAssumption
  <1>2. BurstOf(rate) \in Nat  BY <1>1, BurstTypes
  <1> QED  BY <1>2, DirtyRateAssumption DEF ResetBucket

(* The bucket's types, and its agreement with the configuration.           *)
LEMMA BucketStep ==
  ASSUME BucketTypes, BucketConsistent, LimiterNext
  PROVE  BucketTypes' /\ BucketConsistent'
PROOF
  <1>1. CASE UNCHANGED <<configVars, bucketVars>>
    BY <1>1 DEF BucketTypes, BucketConsistent, configVars, bucketVars
  <1>2. CASE Tick
    <2>1. age' \in 0 .. MaxAge  BY <1>2, DirtyRateAssumption DEF Tick, BucketTypes
    <2> QED  BY <1>2, <2>1 DEF Tick, BucketTypes, BucketConsistent, configVars
  <1>3. CASE \E w \in Writers : TakePage(w)
    <2>1. PICK w \in Writers : TakePage(w)  BY <1>3
    <2>2. ~Bypassed(w) /\ UNCHANGED <<configVars, wbps>>  BY <2>1 DEF TakePage
    <2>3. /\ tokens' = Refill(tokens, age, wbps).tokens - Page
          /\ Refill(tokens, age, wbps).tokens >= Page
          /\ age' = Refill(tokens, age, wbps).age
      BY <2>1 DEF TakePage
    <2>4. BurstOf(wbps) \in Nat /\ Page \in Nat
      BY <2>2, FilledBucket, BurstTypes, DirtyRateAssumption
    <2>5. tokens' \in Nat /\ tokens' <= BurstOf(wbps) /\ age' \in 0 .. MaxAge
      BY <2>2, <2>3, <2>4, FilledBucket
    <2> QED  BY <2>2, <2>5 DEF BucketTypes, BucketConsistent, configVars
  <1>4. CASE \E w \in Writers : StartWait(w)
    <2>1. PICK w \in Writers : StartWait(w)  BY <1>4
    <2>2. ~Bypassed(w) /\ UNCHANGED <<configVars, wbps>>  BY <2>1 DEF StartWait
    <2>3. /\ tokens' = Refill(tokens, age, wbps).tokens
          /\ age' = Refill(tokens, age, wbps).age
      BY <2>1 DEF StartWait
    <2> QED  BY <2>2, <2>3, FilledBucket DEF BucketTypes, BucketConsistent, configVars
  <1>5. CASE \E on \in BOOLEAN : SetEnabled(on)
    <2>1. PICK on \in BOOLEAN : SetEnabled(on)  BY <1>5
    <2>2. active' = FALSE /\ enabled' = on /\ config_wbps' = config_wbps
      BY <2>1 DEF SetEnabled
    <2>3. /\ wbps' = 0 /\ tokens' \in Nat /\ age' \in 0 .. MaxAge
          /\ tokens' <= BurstOf(wbps')
      BY <2>1, ResetKeeps DEF SetEnabled
    <2> QED  BY <2>2, <2>3 DEF BucketTypes, BucketConsistent
  <1>6. CASE \E rate \in Rates : SetWkbps(rate)
    <2>1. PICK rate \in Rates : SetWkbps(rate)  BY <1>6
    <2>2. config_wbps' = rate /\ UNCHANGED <<enabled, active>>  BY <2>1 DEF SetWkbps
    <2>3. CASE active
      <3>1. ResetBucket(rate)  BY <2>1, <2>3 DEF SetWkbps
      <3>2. /\ wbps' = rate /\ tokens' \in Nat /\ age' \in 0 .. MaxAge
            /\ tokens' <= BurstOf(wbps')
        BY <3>1, ResetKeeps
      <3> QED  BY <2>2, <2>3, <3>2 DEF BucketTypes, BucketConsistent
    <2>4. CASE ~active
      <3>1. UNCHANGED <<wbps, tokens, age>>  BY <2>1, <2>4 DEF SetWkbps, bucketVars
      <3> QED  BY <2>2, <2>4, <3>1 DEF BucketTypes, BucketConsistent
    <2> QED  BY <2>3, <2>4
  <1>7. CASE \E on \in BOOLEAN : PollSetsActive(on)
    <2>1. PICK on \in BOOLEAN : SetActive(on)  BY <1>7 DEF PollSetsActive
    <2>2. UNCHANGED <<enabled, config_wbps>>  BY <2>1 DEF SetActive
    <2>3. CASE UNCHANGED <<active, bucketVars>>
      BY <2>2, <2>3 DEF BucketTypes, BucketConsistent, bucketVars
    <2>4. CASE /\ active' = (on /\ enabled)
               /\ ResetBucket(IF on /\ enabled THEN config_wbps ELSE 0)
      <3>1. (IF on /\ enabled THEN config_wbps ELSE 0) \in Rates \cup {0}
        BY DEF BucketTypes
      <3>2. /\ wbps' = IF on /\ enabled THEN config_wbps ELSE 0
            /\ wbps' \in Rates \cup {0}
            /\ tokens' \in Nat /\ age' \in 0 .. MaxAge
            /\ tokens' <= BurstOf(wbps')
        BY <2>4, <3>1, ResetKeeps
      <3>3. active' \in BOOLEAN /\ (active' => enabled')
        BY <2>2, <2>4, Zenon DEF BucketTypes
      <3>4. wbps' = IF active' THEN config_wbps' ELSE 0
        BY <2>2, <2>4, <3>2, Zenon
      <3> QED  BY <2>2, <3>2, <3>3, <3>4 DEF BucketTypes, BucketConsistent
    <2> QED  BY <2>1, <2>3, <2>4, Zenon DEF SetActive
  <1> QED
    BY <1>1, <1>2, <1>3, <1>4, <1>5, <1>6, <1>7
    DEF LimiterNext, Configure, RunHook, EnterHook, ReadForeground, LeaveBypassed,
        CheckWait, EndWait, Interrupt, SetForeground, CountForeground, WakeUpAll

LEMMA TaskTypesStep ==
  ASSUME BucketTypes, BucketConsistent, TaskTypes, LimiterNext
  PROVE  TaskTypes'
PROOF
  <1>1. CASE Tick
    <2>1. timer' \in [Writers -> Nat]
      BY <1>1 DEF Tick, TaskTypes
    <2> QED  BY <1>1, <2>1 DEF Tick, TaskTypes
  <1>2. CASE \E w \in Writers : StartWait(w)
    <2>1. PICK w \in Writers : StartWait(w)  BY <1>2
    <2> DEFINE filled == Refill(tokens, age, wbps)
               needed == NsForBytes(Page - filled.tokens, wbps, TRUE)
    <2>2. filled.tokens < Page /\ ~Bypassed(w)  BY <2>1 DEF StartWait
    <2>3. filled.tokens \in Nat /\ wbps \in Nat \ {0}  BY <2>2, FilledBucket
    <2>4. Page - filled.tokens \in Nat  BY <2>2, <2>3, DirtyRateAssumption
    <2>5. needed \in Nat  BY <2>3, <2>4, ConversionTypes
    <2>6. timer' = [timer EXCEPT ![w] = IF needed < Second THEN needed ELSE Second]
      BY <2>1 DEF StartWait
    <2> HIDE DEF needed, filled
    <2>7. timer' \in [Writers -> Nat]
      BY <2>5, <2>6, DirtyRateAssumption DEF TaskTypes
    <2> QED  BY <2>1, <2>7 DEF StartWait, TaskTypes, Move, Places
  <1>3. CASE \E w \in Writers : EnterHook(w) \/ ReadForeground(w) \/ LeaveBypassed(w)
               \/ TakePage(w) \/ CheckWait(w) \/ EndWait(w) \/ Interrupt(w)
    BY <1>3 DEF EnterHook, ReadForeground, LeaveBypassed, TakePage, CheckWait,
                EndWait, Interrupt, TaskTypes, Move, Places
  <1>4. CASE Configure
    BY <1>4 DEF Configure, SetEnabled, SetWkbps, SetForeground, NewSequence, Calls,
                TaskTypes, Callers, taskVars
  <1>5. CASE CountForeground \/ \E c \in Callers : WakeUpAll(c)
    BY <1>5 DEF CountForeground, WakeUpAll, NewSequence, Calls, TaskTypes, Callers,
                Places
  <1>6. CASE \E on \in BOOLEAN : PollSetsActive(on)
    BY <1>6 DEF PollSetsActive, SetActive, NewSequence, Calls, TaskTypes, Callers
  <1> QED  BY <1>1, <1>2, <1>3, <1>4, <1>5, <1>6 DEF LimiterNext, RunHook

(* Nobody sleeps on an obsolete configuration: a sleeper has checked it, a *)
(* change leaves a caller with a wake-up to do, and a wake-up leaves       *)
(* nobody asleep.                                                          *)
LEMMA SleepStep ==
  ASSUME TaskTypes, NoStaleSleep, LimiterNext
  PROVE  NoStaleSleep'
PROOF
  <1> SUFFICES ASSUME NEW v \in Writers, pc'[v] = "asleep", WaitChanged(v)'
               PROVE  \E c \in Callers : caller'[c] # "idle"
    BY DEF NoStaleSleep
  <1>1. CASE Tick
    <2>1. UNCHANGED <<pc, stale, enabled, active, wbps, fg_uid, caller>>
      BY <1>1 DEF Tick, configVars
    <2> QED  BY <2>1 DEF NoStaleSleep, WaitChanged
  <1>2. CASE \E w \in Writers : EnterHook(w) \/ ReadForeground(w) \/ LeaveBypassed(w)
               \/ TakePage(w) \/ StartWait(w) \/ EndWait(w) \/ Interrupt(w)
    <2>1. PICK w \in Writers :
            EnterHook(w) \/ ReadForeground(w) \/ LeaveBypassed(w)
               \/ TakePage(w) \/ StartWait(w) \/ EndWait(w) \/ Interrupt(w)
      BY <1>2
    <2>2. /\ UNCHANGED <<enabled, active, wbps, fg_uid, caller>>
          /\ stale' \subseteq stale
          /\ \E place \in Places \ {"asleep"} : Move(w, place)
      BY <2>1 DEF EnterHook, ReadForeground, LeaveBypassed, TakePage, StartWait,
                  EndWait, Interrupt, configVars, bucketVars, Places
    <2>3. pc[v] = "asleep"  BY <2>2 DEF Move, TaskTypes
    <2>4. WaitChanged(v)  BY <2>2 DEF WaitChanged
    <2> QED  BY <2>2, <2>3, <2>4 DEF NoStaleSleep
  <1>3. CASE \E w \in Writers : CheckWait(w)
    <2>1. PICK w \in Writers : CheckWait(w)  BY <1>3
    <2>2. UNCHANGED <<enabled, active, wbps, fg_uid, caller, stale>>
      BY <2>1 DEF CheckWait, configVars, bucketVars
    <2>3. WaitChanged(v)  BY <2>2 DEF WaitChanged
    <2>4. v # w  BY <2>1, <2>3 DEF CheckWait, Move, TaskTypes
    <2>5. pc[v] = "asleep"  BY <2>1, <2>4 DEF CheckWait, Move, TaskTypes
    <2> QED  BY <2>2, <2>3, <2>5 DEF NoStaleSleep
  <1>4. CASE Configure \/ CountForeground \/ \E on \in BOOLEAN : PollSetsActive(on)
    <2>1. \E c \in Callers, place \in {"count", "wake"} : Calls(c, place)
      BY <1>4 DEF Configure, SetEnabled, SetWkbps, SetForeground, CountForeground,
                  PollSetsActive, Callers
    <2> QED  BY <2>1 DEF Calls, TaskTypes
  <1>5. CASE \E c \in Callers : WakeUpAll(c)
    <2>1. pc'[v] # "asleep"  BY <1>5 DEF WakeUpAll, TaskTypes
    <2> QED  BY <2>1
  <1> QED  BY <1>1, <1>2, <1>3, <1>4, <1>5 DEF LimiterNext, RunHook

(* A task outside /background waits only after a change.                   *)
LEMMA BackgroundStep ==
  ASSUME TaskTypes, OutsidersWaitOnChange, CheckedLetThrough, LimiterNext
  PROVE  OutsidersWaitOnChange' /\ CheckedLetThrough'
PROOF
  <1> SUFFICES ASSUME NEW v \in Writers, v \notin Background, v \notin unread'
               PROVE  /\ pc'[v] \notin {"waiting", "asleep"}
                      /\ pc'[v] = "checked" => Bypassed(v)'
    BY DEF OutsidersWaitOnChange, CheckedLetThrough
  <1>1. CASE Tick
    <2>1. UNCHANGED <<pc, unread, enabled, active, wbps, seen>>
      BY <1>1 DEF Tick, configVars
    <2> QED  BY <2>1 DEF OutsidersWaitOnChange, CheckedLetThrough, Bypassed
  <1>2. CASE \E w \in Writers : EnterHook(w) \/ LeaveBypassed(w) \/ TakePage(w)
               \/ StartWait(w) \/ CheckWait(w) \/ EndWait(w) \/ Interrupt(w)
    <2>1. PICK w \in Writers :
            EnterHook(w) \/ LeaveBypassed(w) \/ TakePage(w)
               \/ StartWait(w) \/ CheckWait(w) \/ EndWait(w) \/ Interrupt(w)
      BY <1>2
    <2>2. UNCHANGED <<enabled, active, wbps, seen, unread>>
      BY <2>1 DEF EnterHook, LeaveBypassed, TakePage, StartWait, CheckWait,
                  EndWait, Interrupt, configVars, bucketVars
    <2>3. /\ pc[v] \notin {"waiting", "asleep"}
          /\ pc[v] = "checked" => Bypassed(v)
      BY <2>2 DEF OutsidersWaitOnChange, CheckedLetThrough
    <2>4. Bypassed(v)' <=> Bypassed(v)  BY <2>2 DEF Bypassed
    <2>5. CASE v # w
      <3>1. pc'[v] = pc[v]
        BY <2>1, <2>5 DEF EnterHook, LeaveBypassed, TakePage, StartWait, CheckWait,
                          EndWait, Interrupt, Move, TaskTypes
      <3> QED  BY <2>3, <2>4, <3>1
    <2>6. CASE v = w
      <3>1. ~StartWait(w) /\ ~CheckWait(w) /\ ~EndWait(w) /\ ~Interrupt(w)
        BY <2>3, <2>6 DEF StartWait, CheckWait, EndWait, Interrupt
      <3>2. pc'[w] \in {"loop", "idle"}
        BY <2>1, <3>1 DEF EnterHook, LeaveBypassed, TakePage, Move, TaskTypes
      <3> QED  BY <2>6, <3>2
    <2> QED  BY <2>5, <2>6
  <1>3. CASE \E w \in Writers : ReadForeground(w)
    <2>1. PICK w \in Writers : ReadForeground(w)  BY <1>3
    <2>2. UNCHANGED <<enabled, active, wbps, fg_uid>> /\ unread' = unread \ {w}
      BY <2>1 DEF ReadForeground, configVars, bucketVars
    <2>3. CASE v # w
      <3>1. pc'[v] = pc[v] /\ seen'[v] = seen[v] /\ v \notin unread
        BY <2>1, <2>2, <2>3 DEF ReadForeground, Move, TaskTypes
      <3> QED  BY <2>2, <3>1 DEF OutsidersWaitOnChange, CheckedLetThrough, Bypassed
    <2>4. CASE v = w
      <3>1. seen'[w] = fg_uid  BY <2>1 DEF ReadForeground, TaskTypes
      <3>2. pc'[w] \in {"idle", "checked"}
        BY <2>1 DEF ReadForeground, Move, TaskTypes
      <3>3. pc'[w] = "checked" =>
              ~(enabled /\ active /\ wbps # 0 /\ fg_uid # NoUid /\ fg_uid # w)
        BY <2>1, <2>4 DEF ReadForeground, Move, TaskTypes
      <3> QED  BY <2>2, <2>4, <3>1, <3>2, <3>3 DEF Bypassed
    <2> QED  BY <2>3, <2>4
  <1>4. CASE UNCHANGED <<pc, seen, unread, enabled, active, wbps>>
    BY <1>4 DEF OutsidersWaitOnChange, CheckedLetThrough, Bypassed
  <1>5. CASE unread' = Writers
    BY <1>5
  <1>6. CASE \E c \in Callers : WakeUpAll(c)
    <2>1. UNCHANGED <<seen, unread, enabled, active, wbps>>
      BY <1>6 DEF WakeUpAll, configVars, bucketVars
    <2>2. pc[v] \notin {"waiting", "asleep"} /\ (pc[v] = "checked" => Bypassed(v))
      BY <2>1 DEF OutsidersWaitOnChange, CheckedLetThrough
    <2>3. pc'[v] = pc[v]  BY <1>6, <2>2 DEF WakeUpAll, TaskTypes
    <2> QED  BY <2>1, <2>2, <2>3 DEF Bypassed
  <1>7. CASE Configure \/ CountForeground \/ \E on \in BOOLEAN : PollSetsActive(on)
    <2>1. \/ unread' = Writers
          \/ UNCHANGED <<pc, seen, unread, enabled, active, wbps>>
      BY <1>7 DEF Configure, SetEnabled, SetWkbps, SetForeground, CountForeground,
                  PollSetsActive, SetActive, NewSequence, configVars, bucketVars, taskVars
    <2> QED  BY <2>1, <1>4, <1>5
  <1> QED  BY <1>1, <1>2, <1>3, <1>6, <1>7 DEF LimiterNext, RunHook

-----------------------------------------------------------------------------
(* The theorems about the limiter.                                         *)

THEOREM LimiterInvInit == LimiterInit => LimiterInv
PROOF
  <1> SUFFICES ASSUME LimiterInit PROVE LimiterInv
    OBVIOUS
  <1>1. BucketTypes
    <2>1. tokens \in Nat /\ age \in 0 .. MaxAge
      BY DirtyRateAssumption DEF LimiterInit
    <2> QED  BY <2>1, Zenon DEF LimiterInit, BucketTypes
  <1>2. TaskTypes  BY DEF LimiterInit, TaskTypes, Places
  <1>3. BucketConsistent  BY BurstTypes DEF LimiterInit, BucketConsistent
  <1>4. NoStaleSleep /\ OutsidersWaitOnChange /\ CheckedLetThrough
    BY DEF LimiterInit, NoStaleSleep, OutsidersWaitOnChange, CheckedLetThrough
  <1> QED  BY <1>1, <1>2, <1>3, <1>4 DEF LimiterInv

THEOREM LimiterInvStep == LimiterInv /\ [LimiterNext]_limiterVars => LimiterInv'
PROOF
  <1> SUFFICES ASSUME LimiterInv, [LimiterNext]_limiterVars PROVE LimiterInv'
    OBVIOUS
  <1>1. CASE LimiterNext
    BY <1>1, BucketStep, TaskTypesStep, SleepStep, BackgroundStep DEF LimiterInv
  <1>2. CASE UNCHANGED limiterVars
    BY <1>2 DEF LimiterInv, BucketTypes, TaskTypes, BucketConsistent, NoStaleSleep,
                OutsidersWaitOnChange, CheckedLetThrough, WaitChanged, Bypassed,
                limiterVars, configVars, bucketVars, taskVars
  <1> QED  BY <1>1, <1>2

(* The invariant of the limiter.                                           *)
THEOREM LimiterInvariant == LimiterSpec => []LimiterInv
PROOF
  BY LimiterInvInit, LimiterInvStep, PTL DEF LimiterSpec

(* Types; the bucket is never overdrawn, whatever the rates.               *)
THEOREM LimiterTypes == LimiterSpec => []LimiterTypeOK
PROOF
  <1>1. LimiterInv => LimiterTypeOK  BY TypesSplit DEF LimiterInv
  <1> QED  BY <1>1, LimiterInvariant, PTL

(* set_enabled, set_active and set_wkbps keep the bucket in agreement with *)
(* the configuration in every order, and no refill overfills it.           *)
THEOREM BucketAgrees == LimiterSpec => []BucketConsistent
PROOF
  <1>1. LimiterInv => BucketConsistent  BY DEF LimiterInv
  <1> QED  BY <1>1, LimiterInvariant, PTL

(* Types and bucket together, as the run checks them.                      *)
THEOREM LimiterAlwaysConsistent == LimiterSpec => []LimiterConsistent
PROOF
  <1>1. LimiterInv => LimiterConsistent
    BY TypesSplit DEF LimiterInv, LimiterConsistent
  <1> QED  BY <1>1, LimiterInvariant, PTL

(* A task asleep in the hook on an obsolete configuration is about to be   *)
(* woken.                                                                  *)
THEOREM NobodyOversleeps == LimiterSpec => []NoStaleSleep
PROOF
  <1>1. LimiterInv => NoStaleSleep  BY DEF LimiterInv
  <1> QED  BY <1>1, LimiterInvariant, PTL

(* A task outside /background waits only when the configuration moved in   *)
(* the same round of its loop, after the unlocked check of the hook.       *)
THEOREM OutsidersPassAtRest == LimiterSpec => []OutsidersWaitOnChange
PROOF
  <1>1. LimiterInv => OutsidersWaitOnChange  BY DEF LimiterInv
  <1> QED  BY <1>1, LimiterInvariant, PTL

-----------------------------------------------------------------------------
(* What a refill grants, and what time it uses up.                         *)

LEMMA QuotientBounds ==
  ASSUME NEW x \in Nat, NEW y \in Nat \ {0}
  PROVE  /\ x \div y \in Nat
         /\ y * (x \div y) <= x
         /\ x < y * ((x \div y) + 1)
PROOF
  <1>1. /\ x \div y \in Nat /\ x % y \in 0 .. y - 1
        /\ x = y * (x \div y) + (x % y)
    OBVIOUS
  <1>2. x \div y \in Nat
    BY QuotientNat
  <1>3. y * ((x \div y) + 1) = y * (x \div y) + y /\ y * (x \div y) \in Nat
    BY <1>2
  <1> QED  BY <1>1, <1>2, <1>3

LEMMA ProductGrows ==
  ASSUME NEW k \in Nat, NEW m \in Nat, NEW n \in Nat, m <= n
  PROVE  k * m \in Nat /\ k * n \in Nat /\ k * m <= k * n
PROOF
  OBVIOUS

(* The time that a number of bytes takes, rounded up, is enough for them.  *)
LEMMA TimeSuffices ==
  ASSUME NEW x \in Nat, NEW rate \in Nat \ {0}
  PROVE  x * Second <= rate * NsForBytes(x, rate, TRUE)
PROOF
  <1> DEFINE q == (x * Second) \div rate
  <1>1. x * Second \in Nat
    BY DirtyRateAssumption
  <1>2. q \in Nat /\ rate * q <= x * Second /\ x * Second < rate * (q + 1)
    BY <1>1, QuotientBounds
  <1>3. CASE x % rate # 0
    <2>1. NsForBytes(x, rate, TRUE) = q + 1
      BY <1>3 DEF NsForBytes
    <2> HIDE DEF q
    <2>2. x * Second <= rate * (q + 1)
      <3>1. rate * (q + 1) \in Nat
        BY <1>2
      <3> QED  BY <1>1, <1>2, <3>1
    <2> QED  BY <2>1, <2>2
  <1>4. CASE x % rate = 0
    <2>1. NsForBytes(x, rate, TRUE) = q
      BY <1>2, <1>4 DEF NsForBytes
    <2>2. x = rate * (x \div rate) /\ x \div rate \in Nat
      <3>1. x \div rate \in Nat /\ x = rate * (x \div rate) + (x % rate)
        BY QuotientNat
      <3> QED  BY <1>4, <3>1
    <2>3. PICK n \in Nat : x = rate * n
      BY <2>2
    <2>4. x * Second = rate * (n * Second) /\ n * Second \in Nat
      BY <2>3, DirtyRateAssumption
    <2> HIDE DEF q
    <2>5. ~(q < n * Second)
      <3> SUFFICES ASSUME q < n * Second PROVE FALSE
        OBVIOUS
      <3>1. rate * (q + 1) <= rate * (n * Second)
        BY <1>2, <2>4, ProductGrows
      <3> QED  BY <1>1, <1>2, <2>4, <3>1
    <2>6. rate * (n * Second) <= rate * q
      BY <1>2, <2>4, <2>5, ProductGrows
    <2> QED  BY <1>1, <2>1, <2>4, <2>6
  <1> QED  BY <1>3, <1>4

(* A refill grants what the time it uses up is worth, within one tick.     *)
LEMMA RefillExact ==
  ASSUME NEW rate \in Nat \ {0}, NEW t \in Nat, t <= BurstOf(rate),
         NEW a \in 0 .. MaxAge
  PROVE  LET gained == Refill(t, a, rate).tokens - t
             used == a - Refill(t, a, rate).age
         IN  /\ gained * Second <= rate * (used + 1)
             /\ \/ t + gained = BurstOf(rate)
                \/ rate * used <= gained * Second + rate
PROOF
  <1> DEFINE filled == Refill(t, a, rate)
             burst == BurstOf(rate)
             added == BytesForNs(a, rate)
             spent == NsForBytes(added, rate, FALSE)
             advanced == IF spent > 1 THEN spent ELSE 1
             early == NsForBytes(burst - t, rate, TRUE)
             full == t >= burst \/ a >= early \/ added >= burst - t
  <1>1. /\ burst \in Nat /\ t <= burst /\ MaxAge \in Nat /\ a \in Nat
        /\ Second \in Nat \ {0} /\ burst - t \in Nat
    BY BurstTypes, DirtyRateAssumption
  <1>2. /\ added \in Nat /\ added * Second \in Nat /\ a * rate \in Nat
        /\ added * Second <= rate * a
    <2>1. added \in Nat /\ a * rate \in Nat /\ a * rate = rate * a
      <3>1. added \in Nat
        BY <1>1, ConversionTypes
      <3>2. a * rate \in Nat /\ a * rate = rate * a
        BY <1>1
      <3> QED  BY <3>1, <3>2
    <2>2. Second * added <= a * rate
      BY <1>1, <2>1, QuotientBounds DEF BytesForNs
    <2> HIDE DEF added
    <2>3. added * Second = Second * added /\ added * Second \in Nat
      BY <1>1, <2>1
    <2> QED  BY <2>1, <2>2, <2>3
  <1>3. spent \in Nat /\ rate * spent <= added * Second /\ added * Second < rate * (spent + 1)
    <2>1. spent = (added * Second) \div rate
      <3>1. (added * Second) \div rate \in Nat
        BY <1>2, QuotientNat
      <3> QED  BY <3>1 DEF NsForBytes
    <2> QED  BY <1>2, <2>1, QuotientBounds
  <1>4. early \in Nat /\ (burst - t) * Second \in Nat /\ (burst - t) * Second <= rate * early
    <2>1. early \in Nat
      BY <1>1, ConversionTypes
    <2>2. (burst - t) * Second \in Nat
      BY <1>1
    <2>3. (burst - t) * Second <= rate * early
      BY <1>1, TimeSuffices
    <2> QED  BY <2>1, <2>2, <2>3
  <1>5. filled =
          IF full THEN [tokens |-> burst, age |-> 0]
          ELSE IF added = 0 THEN [tokens |-> t, age |-> a]
          ELSE [tokens |-> t + added, age |-> IF advanced < a THEN a - advanced ELSE 0]
    BY DEF Refill
  <1>6. rate * 0 = 0 /\ rate * 1 = rate /\ 0 * Second = 0
    BY <1>1
  <1>7. CASE full
    <2>1. filled.tokens - t = burst - t /\ a - filled.age = a
      <3>1. filled = [tokens |-> burst, age |-> 0]
        BY <1>5, <1>7, Zenon
      <3> HIDE DEF filled, burst
      <3> QED  BY <1>1, <3>1
    <2>2. (burst - t) * Second <= rate * a
      <3>1. CASE t >= burst
        <4>1. burst - t = 0
          BY <1>1, <3>1
        <4>2. rate * a \in Nat
          BY <1>1
        <4> QED  BY <1>6, <4>1, <4>2
      <3>2. CASE a >= early
        <4>1. rate * early <= rate * a /\ rate * early \in Nat /\ rate * a \in Nat
          BY <1>1, <1>4, <3>2, ProductGrows
        <4> HIDE DEF early, burst
        <4> QED  BY <1>4, <4>1
      <3>3. CASE added >= burst - t
        <4>1. Second * (burst - t) <= Second * added
          BY <1>1, <1>2, <3>3, ProductGrows
        <4>2. (burst - t) * Second = Second * (burst - t) /\ Second * added = added * Second
          BY <1>1, <1>2
        <4>3. rate * a \in Nat
          BY <1>1
        <4> QED  BY <1>2, <1>4, <4>1, <4>2, <4>3
      <3>4. t >= burst \/ a >= early \/ added >= burst - t
        BY <1>7, Zenon
      <3> HIDE DEF burst, added, early, full
      <3> QED  BY <3>1, <3>2, <3>3, <3>4, Zenon
    <2>3. rate * a <= rate * (a + 1) /\ rate * a \in Nat /\ rate * (a + 1) \in Nat
      BY <1>1, ProductGrows
    <2>4. (burst - t) * Second <= rate * (a + 1)
      BY <1>4, <2>2, <2>3
    <2>5. t + (burst - t) = burst
      BY <1>1
    <2> HIDE DEF filled, burst
    <2> QED  BY <2>1, <2>4, <2>5 DEF filled, burst
  <1>8. CASE ~full /\ added = 0
    <2>1. filled.tokens - t = 0 /\ a - filled.age = 0
      BY <1>1, <1>5, <1>8
    <2>2. 0 * Second <= rate * (0 + 1) /\ rate * 0 <= 0 * Second + rate
      BY <1>6
    <2> HIDE DEF filled
    <2> QED  BY <2>1, <2>2 DEF filled
  <1>9. CASE ~full /\ added # 0
    <2>0. PICK used \in Nat : used = IF advanced < a THEN advanced ELSE a
      BY <1>1, <1>3
    <2>1. filled.tokens - t = added /\ a - filled.age = used
      <3>1. filled.tokens = t + added /\ filled.age = IF advanced < a THEN a - advanced ELSE 0
        BY <1>5, <1>9
      <3>2. advanced \in Nat
        BY <1>3
      <3> HIDE DEF filled, added, advanced
      <3> QED  BY <1>1, <1>2, <2>0, <3>1, <3>2
    <2>2. spent <= advanced /\ (advanced = spent \/ advanced = 1) /\ advanced \in Nat
      <3> HIDE DEF spent
      <3> QED  BY <1>3
    <2> HIDE DEF filled, added, advanced, spent
    <2>3. added * Second <= rate * (used + 1)
      <3>1. CASE advanced < a
        <4>1. rate * (spent + 1) <= rate * (used + 1)
          BY <1>3, <2>0, <2>2, <3>1, ProductGrows
        <4>2. rate * (spent + 1) \in Nat /\ rate * (used + 1) \in Nat
          BY <1>3
        <4> QED  BY <1>2, <1>3, <4>1, <4>2
      <3>2. CASE ~(advanced < a)
        <4>1. rate * a <= rate * (a + 1) /\ rate * a \in Nat /\ rate * (a + 1) \in Nat
          BY <1>1, ProductGrows
        <4> QED  BY <1>2, <2>0, <3>2, <4>1
      <3> QED  BY <3>1, <3>2
    <2>4. rate * used <= added * Second + rate
      <3>1. rate * used <= rate * advanced /\ rate * used \in Nat /\ rate * advanced \in Nat
        BY <1>1, <2>0, <2>2, ProductGrows
      <3>2. rate * advanced <= added * Second + rate
        <4>1. CASE advanced = spent
          BY <1>2, <1>3, <3>1, <4>1
        <4>2. CASE advanced = 1
          BY <1>2, <1>6, <4>2
        <4> QED  BY <2>2, <4>1, <4>2
      <3>3. added * Second + rate \in Nat
        BY <1>2
      <3> QED  BY <3>1, <3>2, <3>3
    <2> QED  BY <2>1, <2>3, <2>4 DEF filled
  <1> QED  BY <1>7, <1>8, <1>9

(* dirtyrate_refill_locked grants time neither twice nor loses any, within *)
(* a tick, whatever the rate, the page and the age of the bucket, and      *)
(* however often the writers look.                                         *)
THEOREM RefillAlwaysExact == LimiterSpec => RefillIsExact
PROOF
  <1> DEFINE Gained(w) == tokens' + (IF TakePage(w) THEN Page ELSE 0) - tokens
             Used == age - age'
             Exact(w) == /\ Gained(w) * Second <= wbps * (Used + 1)
                         /\ \/ tokens + Gained(w) = BurstOf(wbps)
                            \/ wbps * Used <= Gained(w) * Second + wbps
  <1>1. ASSUME LimiterInv, NEW w \in Writers, TakePage(w) \/ StartWait(w)
        PROVE  Exact(w)
    <2>1. ~Bypassed(w) /\ BucketTypes /\ BucketConsistent
      BY <1>1 DEF TakePage, StartWait, LimiterInv
    <2>2. /\ wbps \in Nat \ {0} /\ tokens \in Nat /\ tokens <= BurstOf(wbps)
          /\ age \in 0 .. MaxAge /\ Refill(tokens, age, wbps).tokens \in Nat
      BY <2>1, FilledBucket DEF BucketTypes, BucketConsistent
    <2>3. PICK filled : filled = Refill(tokens, age, wbps)
      OBVIOUS
    <2>4. LET gained == filled.tokens - tokens
              used == age - filled.age
          IN  /\ gained * Second <= wbps * (used + 1)
              /\ \/ tokens + gained = BurstOf(wbps)
                 \/ wbps * used <= gained * Second + wbps
      BY <2>2, <2>3, RefillExact
    <2>5. age' = filled.age
      BY <1>1, <2>3 DEF TakePage, StartWait
    <2>6. Gained(w) = filled.tokens - tokens
      <3>1. CASE TakePage(w)
        <4>1. tokens' = filled.tokens - Page
          BY <2>3, <3>1 DEF TakePage
        <4>2. Gained(w) = tokens' + Page - tokens
          BY <3>1
        <4> QED  BY <2>2, <2>3, <4>1, <4>2, DirtyRateAssumption
      <3>2. CASE ~TakePage(w)
        <4>1. tokens' = filled.tokens
          BY <1>1, <2>3, <3>2 DEF StartWait
        <4>2. Gained(w) = tokens' + 0 - tokens
          BY <3>2
        <4> QED  BY <2>2, <2>3, <4>1, <4>2
      <3> QED  BY <3>1, <3>2
    <2> HIDE DEF Gained
    <2> QED  BY <2>4, <2>5, <2>6
  <1>2. LimiterInv /\ [LimiterNext]_limiterVars
          => [\A w \in Writers : TakePage(w) \/ StartWait(w) => Exact(w)]_limiterVars
    BY <1>1
  <1> QED  BY <1>2, LimiterInvariant, PTL DEF LimiterSpec, RefillIsExact

-----------------------------------------------------------------------------
(* The composition implements the limiter.                                 *)

(* Every step of the composition is a step of the limiter or leaves it.    *)
LEMMA PolicyStepMaps == [PolicyNext]_systemVars => [LimiterNext]_limiterVars
PROOF
  <1> SUFFICES ASSUME [PolicyNext]_systemVars PROVE [LimiterNext]_limiterVars
    OBVIOUS
  <1>1. CASE UNCHANGED systemVars  BY <1>1 DEF systemVars
  <1>2. CASE PollSwitches
    <2>1. (poll = "entering") \in BOOLEAN  OBVIOUS
    <2> QED  BY <1>2, <2>1 DEF PollSwitches, LimiterNext
  <1>3. CASE PollIdle \/ PollBaseline \/ PollActive \/ PollInactive \/ PollCopies
             \/ \E g \in Growths : ChangeGrowth(g)
    BY <1>3 DEF PollIdle, PollBaseline, PollActive, PollInactive, PollCopies, ChangeGrowth
  <1>4. CASE \/ Tick
             \/ \E w \in Writers : EnterHook(w) \/ RunHook(w) \/ Interrupt(w)
             \/ \E on \in BOOLEAN : SetEnabled(on)
             \/ \E rate \in Rates : SetWkbps(rate)
             \/ \E uid \in Uids : SetForeground(uid)
             \/ CountForeground
             \/ \E c \in Callers : WakeUpAll(c)
    BY <1>4, Zenon DEF LimiterNext, Configure
  <1> QED  BY <1>1, <1>2, <1>3, <1>4 DEF PolicyNext, Poll

(* The limiter driven by the polling thread is the limiter of DirtyRate,   *)
(* so all that is proved of the one holds of the other.                    *)
THEOREM PolicyImplementsLimiter == PolicySpec => LimiterSpec
PROOF
  <1>1. PolicyInit => LimiterInit  BY DEF PolicyInit
  <1> QED  BY <1>1, PolicyStepMaps, PTL DEF PolicySpec, LimiterSpec

(* The policy's knowledge of the limiter, and that the thread clears its   *)
(* copy only after it has ended the limiter.                               *)
PolicyInv ==
  PolicyKnowsActive /\ (poll \in {"left", "reset"} => ~active)

LEMMA PolicyInvStep == PolicyInv /\ [PolicyNext]_systemVars => PolicyInv'
PROOF
  <1> SUFFICES ASSUME PolicyInv, [PolicyNext]_systemVars PROVE PolicyInv'
    OBVIOUS
  <1>1. CASE PollSwitches
    <2>1. CASE poll = "entering"
      <3>1. poll' = "entered"  BY <1>1, <2>1 DEF PollSwitches
      <3> QED  BY <3>1 DEF PolicyInv, PolicyKnowsActive
    <2>2. CASE poll # "entering"
      <3>1. SetActive(FALSE)  BY <1>1, <2>2 DEF PollSwitches, PollSetsActive
      <3>2. ~active'  BY <3>1, Zenon DEF SetActive
      <3> QED  BY <3>2 DEF PolicyInv, PolicyKnowsActive
    <2> QED  BY <2>1, <2>2
  <1>2. CASE PollCopies
    <2>1. active' = active /\ poll' = "sleeping" /\ policy_active' = (poll = "entered")
      BY <1>2 DEF PollCopies, limiterVars, configVars
    <2>2. active => poll = "entered"
      BY <1>2 DEF PollCopies, PolicyInv
    <2> QED  BY <2>1, <2>2 DEF PolicyInv, PolicyKnowsActive
  <1>3. CASE PollIdle \/ PollBaseline \/ PollActive \/ PollInactive
             \/ \E g \in Growths : ChangeGrowth(g)
    <2>1. active' = active /\ policy_active' = policy_active
      BY <1>3 DEF PollIdle, PollBaseline, PollActive, PollInactive, ChangeGrowth,
                  limiterVars, configVars
    <2>2. poll' = poll \/ (poll = "sleeping" /\ poll' \notin {"left", "reset"})
      BY <1>3 DEF PollIdle, PollBaseline, PollActive, PollInactive, ChangeGrowth
    <2> QED  BY <2>1, <2>2 DEF PolicyInv, PolicyKnowsActive
  <1>4. CASE UNCHANGED <<policy_active, poll>> /\ (active' = active \/ ~active')
    BY <1>4 DEF PolicyInv, PolicyKnowsActive
  <1>5. CASE UNCHANGED policyVars /\ \E on \in BOOLEAN : SetEnabled(on)
    BY <1>4, <1>5 DEF SetEnabled, policyVars
  <1>6. CASE /\ UNCHANGED policyVars
             /\ \/ Tick
                \/ \E w \in Writers : EnterHook(w) \/ RunHook(w) \/ Interrupt(w)
                \/ \E rate \in Rates : SetWkbps(rate)
                \/ \E uid \in Uids : SetForeground(uid)
                \/ CountForeground
                \/ \E c \in Callers : WakeUpAll(c)
    <2>1. active' = active
      BY <1>6 DEF Tick, EnterHook, RunHook, ReadForeground, LeaveBypassed, TakePage,
                  StartWait, CheckWait, EndWait, Interrupt, SetWkbps, SetForeground,
                  CountForeground, WakeUpAll, configVars
    <2> QED  BY <1>4, <1>6, <2>1 DEF policyVars
  <1>7. CASE UNCHANGED systemVars
    BY <1>4, <1>7 DEF systemVars, policyVars, limiterVars, configVars
  <1> QED
    BY <1>1, <1>2, <1>3, <1>5, <1>6, <1>7 DEF PolicyNext, Poll

(* The limiter is never active without the policy knowing, whatever procfs *)
(* writes between its steps.                                               *)
THEOREM PolicyAlwaysKnows == PolicySpec => []PolicyKnowsActive
PROOF
  <1>1. PolicyInit => PolicyInv
    BY DEF PolicyInit, LimiterInit, PolicyInv, PolicyKnowsActive
  <1>2. PolicyInv => PolicyKnowsActive  BY DEF PolicyInv
  <1> QED  BY <1>1, <1>2, PolicyInvStep, PTL DEF PolicySpec

(* The counters of windows stop at the number needed: the one that counts  *)
(* is below it whenever the thread sleeps, since reaching it sends the     *)
(* thread to switch the limiter, and the switch starts the other one.      *)
PolicyCounts ==
  /\ PolicyTypeOK
  /\ poll = "sleeping" => IF policy_active THEN recover < Needed ELSE trigger < Needed
  /\ poll \in {"resetting", "reset"} => trigger = 0

LEMMA HeightTyped == ASSUME NEW g PROVE Height(g) \in Heights
PROOF
  BY DEF Height, Heights

(* The history keeps the last windows only.                                *)
LEMMA JudgedTyped ==
  ASSUME windows \in Seq(Heights), Len(windows) <= Needed,
         NEW g \in Growths, Judged(g)
  PROVE  windows' \in Seq(Heights) /\ Len(windows') <= Needed
PROOF
  <1> DEFINE all == Append(windows, Height(g))
  <1>1. all \in Seq(Heights) /\ Len(all) = Len(windows) + 1 /\ all # <<>>
    BY HeightTyped
  <1>2. Len(windows) \in Nat /\ Needed \in Nat
    BY PolicyAssumption
  <1>3. CASE Len(all) > Needed
    <2>1. windows' = Tail(all)  BY <1>3 DEF Judged
    <2>2. Tail(all) \in Seq(Heights) /\ Len(Tail(all)) = Len(all) - 1
      BY <1>1
    <2> QED  BY <1>1, <1>2, <2>1, <2>2
  <1>4. CASE ~(Len(all) > Needed)
    <2>1. windows' = all  BY <1>4 DEF Judged
    <2> QED  BY <1>1, <1>2, <1>4, <2>1
  <1> QED  BY <1>3, <1>4

LEMMA PolicyCountsStep == PolicyCounts /\ [PolicyNext]_systemVars => PolicyCounts'
PROOF
  <1> SUFFICES ASSUME PolicyCounts, [PolicyNext]_systemVars PROVE PolicyCounts'
    OBVIOUS
  <1>n. Needed \in Nat /\ 0 < Needed  BY PolicyAssumption
  <1> USE <1>n
  <1>1. CASE PollIdle
    <2>1. windows' \in Seq(Heights) /\ Len(windows') <= Needed
      BY <1>1 DEF PollIdle
    <2>2. have_prev' \in BOOLEAN  BY <1>1, Zenon DEF PollIdle
    <2>3. /\ policy_active \in BOOLEAN /\ UNCHANGED <<policy_active, growth>>
          /\ trigger' = 0 /\ recover' = 0 /\ growth \in Growths
          /\ poll' \in {"sleeping", "resetting"}
      BY <1>1 DEF PollIdle, PolicyCounts, PolicyTypeOK
    <2> QED  BY <2>1, <2>2, <2>3 DEF PolicyCounts, PolicyTypeOK
  <1>2. CASE PollBaseline
    BY <1>2 DEF PollBaseline, PolicyCounts, PolicyTypeOK
  <1>3. CASE PollActive
    <2>1. windows' \in Seq(Heights) /\ Len(windows') <= Needed
      BY <1>3, JudgedTyped DEF PollActive, PolicyCounts, PolicyTypeOK
    <2> QED  BY <1>3, <2>1 DEF PollActive, PolicyCounts, PolicyTypeOK
  <1>4. CASE PollInactive
    <2>1. windows' \in Seq(Heights) /\ Len(windows') <= Needed
      BY <1>4, JudgedTyped DEF PollInactive, PolicyCounts, PolicyTypeOK
    <2> QED  BY <1>4, <2>1 DEF PollInactive, PolicyCounts, PolicyTypeOK
  <1>5. CASE PollSwitches
    <2>1. UNCHANGED <<have_prev, policy_active, trigger, recover, growth, windows>>
      BY <1>5 DEF PollSwitches
    <2>2. \/ poll = "entering" /\ poll' = "entered"
          \/ poll = "leaving" /\ poll' = "left"
          \/ poll = "resetting" /\ poll' = "reset"
      BY <1>5 DEF PollSwitches
    <2> QED  BY <2>1, <2>2 DEF PolicyCounts, PolicyTypeOK
  <1>6. CASE PollCopies
    <2>1. policy_active' \in BOOLEAN /\ (policy_active' <=> poll = "entered")
      BY <1>6 DEF PollCopies
    <2>2. /\ poll \in {"entered", "left", "reset"} /\ poll' = "sleeping"
          /\ recover' = IF poll = "entered" THEN 0 ELSE recover
          /\ trigger' = IF poll = "left" THEN 0 ELSE trigger
          /\ UNCHANGED <<have_prev, growth, windows>>
      BY <1>6 DEF PollCopies
    <2> QED  BY <2>1, <2>2 DEF PolicyCounts, PolicyTypeOK
  <1>7. CASE \E g \in Growths : ChangeGrowth(g)
    BY <1>7 DEF ChangeGrowth, PolicyCounts, PolicyTypeOK
  <1>8. CASE UNCHANGED policyVars
    BY <1>8 DEF policyVars, PolicyCounts, PolicyTypeOK
  <1>9. CASE UNCHANGED systemVars
    BY <1>8, <1>9 DEF systemVars
  <1> QED
    BY <1>1, <1>2, <1>3, <1>4, <1>5, <1>6, <1>7, <1>8, <1>9 DEF PolicyNext, Poll

LEMMA PolicyCountsHold == PolicySpec => []PolicyCounts
PROOF
  <1>1. PolicyInit => PolicyCounts
    <2>1. Needed \in Nat /\ 0 < Needed  BY PolicyAssumption
    <2>2. SUFFICES ASSUME PolicyInit PROVE PolicyCounts
      OBVIOUS
    <2>3. windows \in Seq(Heights) /\ Len(windows) = 0
      BY <2>2 DEF PolicyInit
    <2>4. have_prev \in BOOLEAN /\ policy_active \in BOOLEAN
      BY <2>2, Zenon DEF PolicyInit
    <2>5. trigger = 0 /\ recover = 0 /\ poll = "sleeping" /\ growth \in Growths
      BY <2>2 DEF PolicyInit, Growths
    <2> QED  BY <2>1, <2>3, <2>4, <2>5 DEF PolicyCounts, PolicyTypeOK
  <1> QED  BY <1>1, PolicyCountsStep, PTL DEF PolicySpec

(* The policy's copy, its counters and the tasks that wait are consistent  *)
(* through every order of polls, procfs writes and hook calls.             *)
THEOREM PolicyAlwaysConsistent == PolicySpec => []PolicyConsistent
PROOF
  <1>1. PolicyCounts => PolicyTypeOK  BY DEF PolicyCounts
  <1>2. PolicyTypeOK /\ PolicyKnowsActive /\ OutsidersWaitOnChange => PolicyConsistent
    BY DEF PolicyConsistent
  <1> QED
    BY <1>1, <1>2, PolicyCountsHold, PolicyAlwaysKnows, PolicyImplementsLimiter, OutsidersPassAtRest, PTL

-----------------------------------------------------------------------------
(* Three windows in a row.                                                 *)

(* While the policy takes the limiter for inactive, as many windows as it  *)
(* has counted, the last ones, were high; it enters with all of them.      *)
WindowsCounted ==
  /\ ~policy_active =>
       /\ trigger <= Len(windows)
       /\ \A i \in 1 .. Len(windows) : i > Len(windows) - trigger => windows[i] = "high"
  /\ poll = "entering" => ~policy_active /\ trigger >= Needed

(* One more window, of which the history keeps the last ones.              *)
LEMMA JudgedLast ==
  ASSUME PolicyTypeOK, NEW g \in Growths, Judged(g)
  PROVE  /\ Len(windows') \in Nat
         /\ \/ /\ Len(windows) < Needed /\ Len(windows') = Len(windows) + 1
               /\ \A i \in 1 .. Len(windows') :
                    windows'[i] = IF i = Len(windows') THEN Height(g) ELSE windows[i]
            \/ /\ Len(windows) = Needed /\ Len(windows') = Needed
               /\ \A i \in 1 .. Len(windows') :
                    windows'[i] = IF i = Len(windows') THEN Height(g) ELSE windows[i + 1]
PROOF
  <1>h. PICK h \in Heights : h = Height(g)
    BY HeightTyped
  <1> DEFINE all == Append(windows, h)
  <1>1. /\ windows \in Seq(Heights) /\ Len(windows) \in Nat /\ Len(windows) <= Needed
        /\ Needed \in Nat
    BY PolicyAssumption DEF PolicyTypeOK
  <1>2. /\ all \in Seq(Heights) /\ Len(all) = Len(windows) + 1 /\ all # <<>>
        /\ \A i \in 1 .. Len(windows) + 1 :
             all[i] = IF i = Len(windows) + 1 THEN h ELSE windows[i]
    BY <1>1
  <1>3. CASE Len(windows) = Needed
    <2>1. windows' = Tail(all)  BY <1>h, <1>1, <1>2, <1>3 DEF Judged
    <2>2. /\ Len(Tail(all)) = Len(all) - 1
          /\ \A i \in 1 .. Len(all) - 1 : Tail(all)[i] = all[i + 1]
      BY <1>2
    <2> HIDE DEF all
    <2>3. Len(windows') = Needed  BY <1>1, <1>2, <1>3, <2>1, <2>2
    <2>4. \A i \in 1 .. Len(windows') :
            windows'[i] = IF i = Len(windows') THEN Height(g) ELSE windows[i + 1]
      <3> TAKE i \in 1 .. Len(windows')
      <3>1. windows'[i] = all[i + 1] /\ i + 1 \in 1 .. Len(windows) + 1
        BY <1>1, <1>2, <1>3, <2>1, <2>2, <2>3
      <3> QED  BY <1>h, <1>1, <1>2, <1>3, <2>3, <3>1
    <2> QED  BY <1>1, <1>3, <2>3, <2>4
  <1>4. CASE Len(windows) < Needed
    <2>1. windows' = all  BY <1>h, <1>1, <1>2, <1>4 DEF Judged
    <2> HIDE DEF all
    <2> QED  BY <1>h, <1>1, <1>2, <1>4, <2>1
  <1> QED  BY <1>1, <1>3, <1>4

LEMMA WindowsCountedStep ==
  PolicyCounts /\ WindowsCounted /\ [PolicyNext]_systemVars => WindowsCounted'
PROOF
  <1> SUFFICES ASSUME PolicyCounts, WindowsCounted, [PolicyNext]_systemVars
               PROVE  WindowsCounted'
    OBVIOUS
  <1>n. /\ Needed \in Nat /\ 0 < Needed /\ trigger \in 0 .. Needed
        /\ windows \in Seq(Heights) /\ Len(windows) \in Nat /\ growth \in Growths
    BY PolicyAssumption DEF PolicyCounts, PolicyTypeOK
  <1>1. CASE PollIdle
    <2>1. trigger' = 0 /\ windows' = <<>> /\ poll' # "entering"
      BY <1>1 DEF PollIdle
    <2> QED  BY <2>1 DEF WindowsCounted
  <1>2. CASE PollBaseline
    BY <1>2 DEF PollBaseline, WindowsCounted
  <1>3. CASE PollActive
    <2>1. policy_active /\ UNCHANGED policy_active
      BY <1>3 DEF PollActive
    <2>2. poll' # "entering"
      BY <1>3 DEF PollActive
    <2> QED  BY <2>1, <2>2 DEF WindowsCounted
  <1>4. CASE PollInactive
    <2>1. /\ ~policy_active /\ ~policy_active' /\ Judged(growth) /\ poll = "sleeping"
          /\ trigger' = IF High(growth) THEN trigger + 1 ELSE 0
          /\ poll' = "entering" => trigger' >= Needed
      BY <1>4, <1>n DEF PollInactive
    <2>2. trigger < Needed
      BY <2>1 DEF PolicyCounts
    <2>3. /\ trigger <= Len(windows)
          /\ \A i \in 1 .. Len(windows) : i > Len(windows) - trigger => windows[i] = "high"
      BY <2>1 DEF WindowsCounted
    <2>4. /\ Len(windows') \in Nat
          /\ \/ /\ Len(windows) < Needed /\ Len(windows') = Len(windows) + 1
                /\ \A i \in 1 .. Len(windows') :
                     windows'[i] = IF i = Len(windows') THEN Height(growth) ELSE windows[i]
             \/ /\ Len(windows) = Needed /\ Len(windows') = Needed
                /\ \A i \in 1 .. Len(windows') :
                     windows'[i] = IF i = Len(windows') THEN Height(growth) ELSE windows[i + 1]
      BY <1>n, <2>1, JudgedLast DEF PolicyCounts
    <2>5. trigger' <= Len(windows')
      BY <1>n, <2>1, <2>2, <2>3, <2>4
    <2>6. \A i \in 1 .. Len(windows') : i > Len(windows') - trigger' => windows'[i] = "high"
      <3> SUFFICES ASSUME NEW i \in 1 .. Len(windows'), i > Len(windows') - trigger'
                   PROVE  windows'[i] = "high"
        OBVIOUS
      <3>1. High(growth) /\ trigger' = trigger + 1
        BY <1>n, <2>1, <2>4
      <3>5. Height(growth) = "high"
        BY <3>1 DEF Height
      <3>2. CASE i = Len(windows')
        BY <2>4, <3>2, <3>5
      <3>3. CASE i # Len(windows') /\ Len(windows) < Needed
        <4>1. windows'[i] = windows[i] /\ i \in 1 .. Len(windows) /\ i > Len(windows) - trigger
          BY <1>n, <2>4, <3>1, <3>3
        <4> QED  BY <2>3, <4>1
      <3>4. CASE i # Len(windows') /\ Len(windows) = Needed
        <4>1. /\ windows'[i] = windows[i + 1] /\ i + 1 \in 1 .. Len(windows)
              /\ i + 1 > Len(windows) - trigger
          BY <1>n, <2>4, <3>1, <3>4
        <4> QED  BY <2>3, <4>1
      <3> QED  BY <1>n, <2>4, <3>2, <3>3, <3>4
    <2> QED  BY <2>1, <2>5, <2>6 DEF WindowsCounted
  <1>5. CASE PollSwitches
    <2>1. UNCHANGED <<policy_active, trigger, windows>> /\ poll' # "entering"
      BY <1>5 DEF PollSwitches
    <2> QED  BY <2>1 DEF WindowsCounted
  <1>6. CASE PollCopies
    <2>1. /\ poll \in {"entered", "left", "reset"} /\ poll' = "sleeping"
          /\ policy_active' <=> poll = "entered"
          /\ trigger' = IF poll = "left" THEN 0 ELSE trigger
          /\ UNCHANGED windows
      BY <1>6 DEF PollCopies
    <2>2. ~policy_active' => trigger' = 0
      BY <2>1 DEF PolicyCounts
    <2>3. ~policy_active' => trigger' <= Len(windows')
      BY <1>n, <2>1, <2>2
    <2>4. ~policy_active' => \A i \in 1 .. Len(windows') : ~(i > Len(windows') - trigger')
      BY <1>n, <2>1, <2>2
    <2> QED  BY <2>1, <2>3, <2>4 DEF WindowsCounted
  <1>7. CASE \E g \in Growths : ChangeGrowth(g)
    BY <1>7 DEF ChangeGrowth, WindowsCounted
  <1>8. CASE UNCHANGED policyVars
    BY <1>8 DEF policyVars, WindowsCounted
  <1>9. CASE UNCHANGED systemVars
    BY <1>8, <1>9 DEF systemVars
  <1> QED
    BY <1>1, <1>2, <1>3, <1>4, <1>5, <1>6, <1>7, <1>8, <1>9 DEF PolicyNext, Poll

(* Only the polling thread makes the limiter active, when it enters.       *)
LEMMA OnlyPollActivates ==
  ASSUME [PolicyNext]_systemVars, ~active, active'
  PROVE  poll = "entering"
PROOF
  <1>1. CASE PollIdle \/ PollBaseline \/ PollActive \/ PollInactive \/ PollCopies
             \/ \E g \in Growths : ChangeGrowth(g)
    BY <1>1 DEF PollIdle, PollBaseline, PollActive, PollInactive, PollCopies, ChangeGrowth,
                limiterVars, configVars
  <1>2. CASE PollSwitches
    <2>1. SetActive(poll = "entering")
      BY <1>2 DEF PollSwitches, PollSetsActive
    <2>2. active' = active \/ active' = (poll = "entering" /\ enabled)
      BY <2>1 DEF SetActive, ResetBucket
    <2> QED  BY <2>2
  <1>3. CASE \E on \in BOOLEAN : SetEnabled(on)
    BY <1>3 DEF SetEnabled
  <1>4. CASE \/ Tick
             \/ \E w \in Writers : EnterHook(w) \/ RunHook(w) \/ Interrupt(w)
             \/ \E rate \in Rates : SetWkbps(rate)
             \/ \E uid \in Uids : SetForeground(uid)
             \/ CountForeground
             \/ \E c \in Callers : WakeUpAll(c)
    BY <1>4 DEF Tick, EnterHook, RunHook, ReadForeground, LeaveBypassed, TakePage,
                StartWait, CheckWait, EndWait, Interrupt, SetWkbps, SetForeground,
                CountForeground, WakeUpAll, configVars
  <1>5. CASE UNCHANGED systemVars
    BY <1>5 DEF systemVars, limiterVars, configVars
  <1> QED
    BY <1>1, <1>2, <1>3, <1>4, <1>5 DEF PolicyNext, Poll

(* The limiter becomes active only after Needed windows in a row whose     *)
(* rate, read as unsigned, reached the threshold: windows of fast growth   *)
(* or of fewer dirty pages (update_dirtyrate_policy).  Whatever is written *)
(* to procfs in between, and whatever the polls in between found.          *)
THEOREM OnlyAfterHighWindows == PolicySpec => ThreeHighWindows
PROOF
  <1>1. PolicyInit => WindowsCounted
    <2> SUFFICES ASSUME PolicyInit PROVE WindowsCounted
      OBVIOUS
    <2>1. trigger = 0 /\ windows = <<>> /\ poll = "sleeping"
      BY DEF PolicyInit
    <2> QED  BY <2>1 DEF WindowsCounted
  <1>2. PolicyCounts /\ WindowsCounted /\ [PolicyNext]_systemVars
          => [~active /\ active' => /\ Len(windows) = Needed
                                    /\ \A i \in 1 .. Needed : windows[i] = "high"]_systemVars
    <2> SUFFICES ASSUME PolicyCounts, WindowsCounted, [PolicyNext]_systemVars, ~active, active'
                 PROVE  Len(windows) = Needed /\ \A i \in 1 .. Needed : windows[i] = "high"
      OBVIOUS
    <2>1. /\ Needed \in Nat /\ trigger \in 0 .. Needed
          /\ Len(windows) \in Nat /\ Len(windows) <= Needed
      BY PolicyAssumption DEF PolicyCounts, PolicyTypeOK
    <2>2. /\ trigger >= Needed /\ trigger <= Len(windows)
          /\ \A i \in 1 .. Len(windows) : i > Len(windows) - trigger => windows[i] = "high"
      BY OnlyPollActivates DEF WindowsCounted
    <2> QED  BY <2>1, <2>2
  <1> QED
    BY <1>1, <1>2, PolicyCountsHold, WindowsCountedStep, PTL DEF PolicySpec, ThreeHighWindows
=============================================================================
