------------------------------ MODULE DirtyRate ------------------------------
(***************************************************************************)
(* The dirty-rate limiter of smart_io_dirtyrate.c: a token bucket that     *)
(* background writers take a page from before they dirty one, the sleep of *)
(* a writer that finds too few tokens, and the four callers that change    *)
(* the configuration and wake the sleepers: the two procfs files, the      *)
(* polling thread and the change of the foreground uid.                    *)
(*                                                                         *)
(* Time is counted in units of the hook's nanosecond.  The age of the      *)
(* bucket is now - dirtyrate_last_refill_ns, which saturates at a value    *)
(* that fills any bucket.  dirtyrate_config_seq is kept as what a writer   *)
(* can tell from it: whether it moved since the writer read it.            *)
(* The statistics counters are left out.                                   *)
(***************************************************************************)
EXTENDS Naturals, FiniteSets

CONSTANTS
  Writers,     \* tasks that dirty pages, each with a uid of its own
  Background,  \* those that dirtyrate_current_is_background takes for
               \* members of the cgroup /background
  OtherUid,    \* the uid of an app that dirties nothing
  NoUid,       \* fg_uid < 0
  Rates,       \* values of dirtyrate_config_wbps, in bytes per second
  Page,        \* PAGE_SIZE
  Second,      \* NSEC_PER_SEC
  MaxAge       \* saturation of the bucket's age

Uids == Writers \cup {OtherUid}

ASSUME DirtyRateAssumption ==
  /\ Background \subseteq Writers
  /\ NoUid \notin Uids /\ OtherUid \notin Writers
  /\ Rates \subseteq Nat /\ Page \in Nat \ {0}
  /\ Second \in Nat \ {0} /\ MaxAge \in Nat

VARIABLES
  enabled, active,  \* dirtyrate_enabled, dirtyrate_active
  config_wbps,      \* dirtyrate_config_wbps
  wbps, tokens,     \* dirtyrate_wbps, dirtyrate_tokens
  age,              \* time since dirtyrate_last_refill_ns
  fg_uid,           \* fg_uid of system_context.c
  pc,               \* where a writer is in the hook
  seen,             \* fg_uid as a writer read it at the top of its loop
  timer,            \* what is left of a writer's hrtimer
  stale,            \* writers whose config_seq is no longer the current one
  unread,           \* writers for whom it moved since the top of their loop
  caller            \* what each configuration caller still has to do

bucketVars == <<wbps, tokens, age>>
configVars == <<enabled, active, config_wbps>>
taskVars == <<pc, seen, timer, stale, unread>>
limiterVars == <<configVars, bucketVars, fg_uid, taskVars, caller>>

Callers == {"enable", "wkbps", "active", "fg"}
Places == {"idle", "loop", "checked", "waiting", "asleep"}

-----------------------------------------------------------------------------
(* Arithmetic of the bucket.                                               *)

(* dirtyrate_bytes_for_ns and dirtyrate_ns_for_bytes.                      *)
BytesForNs(duration, rate) == (duration * rate) \div Second
NsForBytes(bytes, rate, up) ==
  (bytes * Second) \div rate + (IF up /\ bytes % rate # 0 THEN 1 ELSE 0)

(* dirtyrate_burst_bytes of a rate.                                        *)
BurstOf(rate) == IF rate = 0 THEN 0
                 ELSE IF rate \div 8 > Page THEN rate \div 8 ELSE Page

(* Mutants: the time of a fraction is dropped; the time is never used up.  *)
Refill_DropsFraction(t, a, rate) ==
  LET burst == BurstOf(rate)
      added == BytesForNs(a, rate)
  IN  IF t >= burst \/ a >= NsForBytes(burst - t, rate, TRUE) \/ added >= burst - t
        THEN [tokens |-> burst, age |-> 0]
        ELSE [tokens |-> t + added, age |-> 0]

Refill_KeepsTime(t, a, rate) ==
  LET burst == BurstOf(rate)
      added == BytesForNs(a, rate)
  IN  IF t >= burst \/ a >= NsForBytes(burst - t, rate, TRUE) \/ added >= burst - t
        THEN [tokens |-> burst, age |-> 0]
        ELSE [tokens |-> t + added, age |-> a]

(* dirtyrate_refill_locked of a bucket with rate # 0: full, too early for  *)
(* a byte, or as many bytes as the age is worth, whose time is used up.    *)
Refill(t, a, rate) ==
  LET burst == BurstOf(rate)
      added == BytesForNs(a, rate)
      used  == NsForBytes(added, rate, FALSE)
      advanced == IF used > 1 THEN used ELSE 1
  IN  IF t >= burst \/ a >= NsForBytes(burst - t, rate, TRUE) \/ added >= burst - t
        THEN [tokens |-> burst, age |-> 0]
        ELSE IF added = 0 THEN [tokens |-> t, age |-> a]
        ELSE [tokens |-> t + added,
              age |-> IF advanced < a THEN a - advanced ELSE 0]

(* dirtyrate_reset_bucket_locked.                                          *)
ResetBucket(rate) ==
  /\ wbps' = rate
  /\ tokens' = BurstOf(rate)
  /\ age' = 0

-----------------------------------------------------------------------------
LimiterInit ==
  /\ enabled = FALSE /\ active = FALSE
  /\ config_wbps = 0
  /\ wbps = 0 /\ tokens = 0 /\ age = 0
  /\ fg_uid = NoUid
  /\ pc = [w \in Writers |-> "idle"]
  /\ seen = [w \in Writers |-> NoUid]
  /\ timer = [w \in Writers |-> 0]
  /\ stale = {} /\ unread = {}
  /\ caller = [c \in Callers |-> "idle"]

(* Time passes: the bucket ages and the timers run.                        *)
Tick ==
  /\ age' = IF age < MaxAge THEN age + 1 ELSE MaxAge
  /\ timer' = [w \in Writers |-> IF timer[w] > 0 THEN timer[w] - 1 ELSE 0]
  /\ UNCHANGED <<configVars, wbps, tokens, fg_uid, pc, seen, stale, unread, caller>>

-----------------------------------------------------------------------------
(* The hook, smart_io_dirtyrate_dirty_rate.                                *)

Move(w, place) == pc' = [pc EXCEPT ![w] = place]

EnterHook(w) ==
  /\ pc[w] = "idle"
  /\ Move(w, "loop")
  /\ UNCHANGED <<configVars, bucketVars, fg_uid, seen, timer, stale, unread, caller>>

(* The top of the loop, without the lock: a task outside /background is    *)
(* let through while the limiter is working.                               *)
ReadForeground(w) ==
  /\ pc[w] = "loop"
  /\ seen' = [seen EXCEPT ![w] = fg_uid]
  /\ unread' = unread \ {w}
  /\ Move(w, IF /\ enabled /\ active /\ wbps # 0
                /\ fg_uid # NoUid /\ fg_uid # w /\ w \notin Background
             THEN "idle" ELSE "checked")
  /\ UNCHANGED <<configVars, bucketVars, fg_uid, timer, stale, caller>>

(* The locked section, with the foreground uid read before.                *)
Bypassed(w) ==
  \/ ~enabled \/ ~active \/ wbps = 0
  \/ seen[w] \in {NoUid, w}

LeaveBypassed(w) ==
  /\ pc[w] = "checked" /\ Bypassed(w)
  /\ Move(w, "idle")
  /\ UNCHANGED <<configVars, bucketVars, fg_uid, seen, timer, stale, unread, caller>>

TakePage(w) ==
  LET filled == Refill(tokens, age, wbps)
  IN  /\ pc[w] = "checked" /\ ~Bypassed(w)
      /\ filled.tokens >= Page
      /\ tokens' = filled.tokens - Page
      /\ age' = filled.age
      /\ Move(w, "idle")
      /\ UNCHANGED <<configVars, wbps, fg_uid, seen, timer, stale, unread, caller>>

(* SMART_IO_DIRTYRATE_MAX_SLEEP_NS is one second.                          *)
StartWait(w) ==
  LET filled == Refill(tokens, age, wbps)
      needed == NsForBytes(Page - filled.tokens, wbps, TRUE)
  IN  /\ pc[w] = "checked" /\ ~Bypassed(w)
      /\ filled.tokens < Page
      /\ tokens' = filled.tokens
      /\ age' = filled.age
      /\ timer' = [timer EXCEPT ![w] = IF needed < Second THEN needed ELSE Second]
      /\ stale' = stale \ {w}
      /\ Move(w, "waiting")
      /\ UNCHANGED <<configVars, wbps, fg_uid, seen, unread, caller>>

(* dirtyrate_wait_changed.                                                 *)
WaitChanged(w) ==
  \/ w \in stale
  \/ ~enabled \/ ~active \/ wbps = 0
  \/ fg_uid \in {NoUid, w}

(* wait_event: on the queue first, then the condition, then the timer that *)
(* may have fired already, then asleep.                                    *)
CheckWait(w) ==
  /\ pc[w] = "waiting"
  /\ Move(w, IF WaitChanged(w) \/ timer[w] = 0 THEN "loop" ELSE "asleep")
  /\ UNCHANGED <<configVars, bucketVars, fg_uid, seen, timer, stale, unread, caller>>

EndWait(w) ==
  /\ pc[w] = "asleep" /\ timer[w] = 0
  /\ Move(w, "loop")
  /\ UNCHANGED <<configVars, bucketVars, fg_uid, seen, timer, stale, unread, caller>>

(* A signal: -ERESTARTSYS or a fatal signal pending.                       *)
Interrupt(w) ==
  /\ pc[w] = "asleep"
  /\ Move(w, "idle")
  /\ UNCHANGED <<configVars, bucketVars, fg_uid, seen, timer, stale, unread, caller>>

-----------------------------------------------------------------------------
(* The callers.  Each changes the configuration and its sequence number    *)
(* under the lock and calls wake_up_all after it.                          *)

NewSequence == stale' = Writers /\ unread' = Writers
Calls(c, place) == caller' = [caller EXCEPT ![c] = place]

SetEnabled(on) ==
  /\ caller["enable"] = "idle"
  /\ enabled' = on
  /\ active' = FALSE
  /\ ResetBucket(0)
  /\ NewSequence
  /\ Calls("enable", "wake")
  /\ UNCHANGED <<config_wbps, fg_uid, pc, seen, timer>>

SetWkbps(rate) ==
  /\ caller["wkbps"] = "idle"
  /\ config_wbps' = rate
  /\ IF active THEN ResetBucket(rate) ELSE UNCHANGED bucketVars
  /\ NewSequence
  /\ Calls("wkbps", "wake")
  /\ UNCHANGED <<enabled, active, fg_uid, pc, seen, timer>>

(* Mutant: a limiter that is switched off can still be made active.        *)
SetActive_WhileDisabled(on) ==
  /\ IF active = on
       THEN UNCHANGED <<active, bucketVars, stale, unread>>
       ELSE /\ active' = on
            /\ ResetBucket(IF on THEN config_wbps ELSE 0)
            /\ NewSequence
  /\ UNCHANGED <<enabled, config_wbps, fg_uid, pc, seen, timer>>

(* smart_io_dirtyrate_set_active, under its lock.                          *)
SetActive(on) ==
  LET now_active == on /\ enabled
  IN  /\ IF active = now_active
           THEN UNCHANGED <<active, bucketVars, stale, unread>>
           ELSE /\ active' = now_active
                /\ ResetBucket(IF now_active THEN config_wbps ELSE 0)
                /\ NewSequence
      /\ UNCHANGED <<enabled, config_wbps, fg_uid, pc, seen, timer>>

PollSetsActive(on) ==
  /\ caller["active"] = "idle"
  /\ SetActive(on)
  /\ Calls("active", "wake")

(* smart_io_set_fg_uid: the uid first, then the sequence number, both      *)
(* without the lock; nothing happens when the uid is the same.             *)
SetForeground(uid) ==
  /\ caller["fg"] = "idle"
  /\ uid # fg_uid
  /\ fg_uid' = uid
  /\ Calls("fg", "count")
  /\ UNCHANGED <<configVars, bucketVars, taskVars>>

(* Mutant: the sleepers are not woken.                                     *)
CountForeground_NoWake ==
  /\ caller["fg"] = "count"
  /\ NewSequence
  /\ Calls("fg", "idle")
  /\ UNCHANGED <<configVars, bucketVars, fg_uid, pc, seen, timer>>

CountForeground ==
  /\ caller["fg"] = "count"
  /\ NewSequence
  /\ Calls("fg", "wake")
  /\ UNCHANGED <<configVars, bucketVars, fg_uid, pc, seen, timer>>

(* wake_up_all: every sleeper checks its condition again.                  *)
WakeUpAll(c) ==
  /\ caller[c] = "wake"
  /\ Calls(c, "idle")
  /\ pc' = [w \in Writers |-> IF pc[w] = "asleep" THEN "waiting" ELSE pc[w]]
  /\ UNCHANGED <<configVars, bucketVars, fg_uid, seen, timer, stale, unread>>

(* What a task in the hook does by itself.                                 *)
RunHook(w) ==
  \/ ReadForeground(w) \/ LeaveBypassed(w) \/ TakePage(w)
  \/ StartWait(w) \/ CheckWait(w) \/ EndWait(w)

(* What userspace may do, but for the polling thread.                      *)
Configure ==
  \/ \E on \in BOOLEAN : SetEnabled(on)
  \/ \E rate \in Rates : SetWkbps(rate)
  \/ \E uid \in Uids : SetForeground(uid)

LimiterNext ==
  \/ Tick
  \/ \E w \in Writers : EnterHook(w) \/ RunHook(w) \/ Interrupt(w)
  \/ Configure
  \/ CountForeground
  \/ \E on \in BOOLEAN : PollSetsActive(on)
  \/ \E c \in Callers : WakeUpAll(c)

LimiterSpec == LimiterInit /\ [][LimiterNext]_limiterVars

(* Time passes, timers expire, tasks run and callers finish; nobody has to *)
(* enter the hook or to change the configuration.                          *)
LimiterFairness ==
  /\ WF_limiterVars(Tick)
  /\ \A w \in Writers : WF_limiterVars(RunHook(w))
  /\ WF_limiterVars(CountForeground)
  /\ \A c \in Callers : WF_limiterVars(WakeUpAll(c))

FairLimiterSpec == LimiterSpec /\ LimiterFairness

-----------------------------------------------------------------------------
(* Properties.                                                             *)

LimiterTypeOK ==
  /\ enabled \in BOOLEAN /\ active \in BOOLEAN
  /\ config_wbps \in Rates \cup {0} /\ wbps \in Rates \cup {0}
  /\ tokens \in Nat /\ age \in 0 .. MaxAge
  /\ fg_uid \in Uids \cup {NoUid}
  /\ pc \in [Writers -> Places]
  /\ seen \in [Writers -> Uids \cup {NoUid}]
  /\ timer \in [Writers -> Nat]
  /\ stale \subseteq Writers /\ unread \subseteq Writers
  /\ caller \in [Callers -> {"idle", "count", "wake"}]

(* Through every order of the switch, the rate and the policy, the bucket  *)
(* agrees with the configuration: it has a rate exactly as long as it is   *)
(* active, the configured one, and never more tokens than its burst.       *)
BucketConsistent ==
  /\ active => enabled
  /\ wbps = IF active THEN config_wbps ELSE 0
  /\ tokens <= BurstOf(wbps)

(* The state of the limiter is typed, and its bucket is that of its        *)
(* configuration, after every call of procfs and of the policy.            *)
LimiterConsistent ==
  /\ LimiterTypeOK
  /\ BucketConsistent

(* A writer that sleeps although its configuration is obsolete, or although*)
(* it has come to the foreground, is about to be woken: the change and the *)
(* wake-up are two steps, and none of the four callers forgets the second. *)
NoStaleSleep ==
  \A w \in Writers : pc[w] = "asleep" /\ WaitChanged(w) =>
    \E c \in Callers : caller[c] # "idle"

(* A task outside /background is not let through, and may have to wait,    *)
(* only when the configuration moved after the unlocked check of the same  *)
(* round of its loop: while the configuration rests it never waits, and it *)
(* is through at the next round.                                           *)
OutsidersWaitOnChange ==
  \A w \in Writers : pc[w] \in {"waiting", "asleep"} => w \in Background \/ w \in unread

(* What one refill grants is worth the time it uses up, within one tick on *)
(* either side, unless the bucket is full: time is neither granted twice   *)
(* nor lost, however often the writers look.                               *)
RefillIsExact ==
  [][\A w \in Writers : TakePage(w) \/ StartWait(w) =>
       LET gained == tokens' + (IF TakePage(w) THEN Page ELSE 0) - tokens
           used   == age - age'
       IN  /\ gained * Second <= wbps * (used + 1)
           /\ \/ tokens + gained = BurstOf(wbps)
              \/ wbps * used <= gained * Second + wbps]_limiterVars

(* A task that enters the hook leaves it, even when the foreground changes *)
(* and the rate is rewritten for ever, as soon as nobody else competes for *)
(* the pages: wake_up_all lets the others take every page otherwise.       *)
HookReturns ==
  \A w \in Writers :
    <>[](\A v \in Writers \ {w} : pc[v] = "idle") => (pc[w] # "idle" ~> pc[w] = "idle")
=============================================================================
