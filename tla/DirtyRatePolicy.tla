--------------------------- MODULE DirtyRatePolicy ---------------------------
(***************************************************************************)
(* The polling thread of system_context.c and its dirty-rate policy,       *)
(* composed with the limiter: every window it compares the growth of the   *)
(* dirty pages with a threshold, makes the limiter active after three      *)
(* windows in a row that reach it, and inactive after three in a row       *)
(* without growth.  The first comparison is unsigned and the second is     *)
(* signed: dirty pages that become fewer reach the threshold, and are no   *)
(* growth.  The policy keeps a copy of whether the limiter is active, and  *)
(* procfs switches the limiter without the policy's knowledge.             *)
(***************************************************************************)
EXTENDS DirtyRate, Sequences

CONSTANT Needed  \* DIRTYRATE_POLICY_CONSECUTIVE_WINDOWS

ASSUME PolicyAssumption == Needed \in Nat \ {0}

VARIABLES
  have_prev, policy_active,  \* dirtyrate_policy.have_prev, .active
  trigger, recover,          \* .trigger_windows, .recover_windows
  poll,                      \* where the polling thread is
  growth,                    \* how the dirty pages grow at the moment
  windows                    \* history: how the last Needed windows compared

policyVars == <<have_prev, policy_active, trigger, recover, poll, growth, windows>>
systemVars == <<limiterVars, policyVars>>

(* dirty_rate_kib_s: below zero; zero; above zero; at least the threshold. *)
Growths == {"shrinking", "none", "some", "fast"}

(* dirty_rate_kib_s >= DIRTYRATE_DIRTY_RATE_ENTER_KIB_S: the constant is   *)
(* 512ULL, so the s64 is converted to u64, and a rate below zero is huge.  *)
High(g) == g \in {"shrinking", "fast"}

Heights == {"high", "low"}
Height(g) == IF High(g) THEN "high" ELSE "low"

(* pressure_continue, the signed dirty_rate_kib_s > 0.                     *)
Rising(g) == g \in {"some", "fast"}

PolicyInit ==
  /\ LimiterInit
  /\ have_prev = FALSE /\ policy_active = FALSE
  /\ trigger = 0 /\ recover = 0
  /\ poll = "sleeping"
  /\ growth = "none"
  /\ windows = <<>>

Judged(g) ==
  LET all == Append(windows, Height(g))
  IN  windows' = IF Len(all) > Needed THEN Tail(all) ELSE all

(* Other tasks dirty pages or stop, and writeback cleans them.             *)
ChangeGrowth(g) ==
  /\ g # growth
  /\ growth' = g
  /\ UNCHANGED <<limiterVars, have_prev, policy_active, trigger, recover, poll, windows>>

-----------------------------------------------------------------------------
(* update_dirtyrate_policy.  The three values it looks at first are read   *)
(* one after the other without a lock; one step stands for them, because   *)
(* each of them alone sends it to the same branch.                         *)

Idle == ~enabled \/ config_wbps = 0 \/ fg_uid = NoUid

PollIdle ==
  /\ poll = "sleeping" /\ Idle
  /\ poll' = IF policy_active THEN "resetting" ELSE "sleeping"
  /\ have_prev' = FALSE
  /\ trigger' = 0 /\ recover' = 0
  /\ windows' = <<>>
  /\ UNCHANGED <<limiterVars, policy_active, growth>>

(* Mutant: the first sample is not remembered.                             *)
PollBaseline_Forgets ==
  /\ poll = "sleeping" /\ ~Idle /\ ~have_prev
  /\ UNCHANGED systemVars

PollBaseline ==
  /\ poll = "sleeping" /\ ~Idle /\ ~have_prev
  /\ have_prev' = TRUE
  /\ UNCHANGED <<limiterVars, policy_active, trigger, recover, poll, growth, windows>>

(* A window while the policy takes the limiter for active.  A poll in the  *)
(* millisecond of the last one judges nothing and changes nothing here.    *)
PollActive ==
  /\ poll = "sleeping" /\ ~Idle /\ have_prev /\ policy_active
  /\ Judged(growth)
  /\ IF Rising(growth)
       THEN recover' = 0 /\ UNCHANGED poll
       ELSE /\ recover' = recover + 1
            /\ poll' = IF recover + 1 >= Needed THEN "leaving" ELSE "sleeping"
  /\ UNCHANGED <<limiterVars, have_prev, policy_active, trigger, growth>>

(* Mutant: a window that is not high does not start the count again.       *)
PollInactive_KeepsCount ==
  /\ poll = "sleeping" /\ ~Idle /\ have_prev /\ ~policy_active
  /\ Judged(growth)
  /\ IF High(growth)
       THEN /\ trigger' = trigger + 1
            /\ poll' = IF trigger + 1 >= Needed THEN "entering" ELSE "sleeping"
       ELSE UNCHANGED <<trigger, poll>>
  /\ UNCHANGED <<limiterVars, have_prev, policy_active, recover, growth>>

(* A window while it takes the limiter for inactive.                       *)
PollInactive ==
  /\ poll = "sleeping" /\ ~Idle /\ have_prev /\ ~policy_active
  /\ Judged(growth)
  /\ IF High(growth)
       THEN /\ trigger' = trigger + 1
            /\ poll' = IF trigger + 1 >= Needed THEN "entering" ELSE "sleeping"
       ELSE trigger' = 0 /\ UNCHANGED poll
  /\ UNCHANGED <<limiterVars, have_prev, policy_active, recover, growth>>

(* Mutant: the sleepers are not woken.                                     *)
PollSwitches_NoWakeUp ==
  /\ poll \in {"entering", "leaving", "resetting"}
  /\ SetActive(poll = "entering")
  /\ UNCHANGED caller
  /\ poll' = CASE poll = "entering" -> "entered"
               [] poll = "leaving" -> "left"
               [] OTHER -> "reset"
  /\ UNCHANGED <<have_prev, policy_active, trigger, recover, growth, windows>>

(* smart_io_dirtyrate_set_active, its wake_up_all, and then the copy.      *)
PollSwitches ==
  /\ poll \in {"entering", "leaving", "resetting"}
  /\ PollSetsActive(poll = "entering")
  /\ poll' = CASE poll = "entering" -> "entered"
               [] poll = "leaving" -> "left"
               [] OTHER -> "reset"
  /\ UNCHANGED <<have_prev, policy_active, trigger, recover, growth, windows>>

(* Mutant: the copy is not kept.                                           *)
PollCopies_NotActive ==
  /\ poll \in {"entered", "left", "reset"} /\ caller["active"] = "idle"
  /\ policy_active' = FALSE
  /\ recover' = IF poll = "entered" THEN 0 ELSE recover
  /\ trigger' = IF poll = "left" THEN 0 ELSE trigger
  /\ poll' = "sleeping"
  /\ UNCHANGED <<limiterVars, have_prev, growth, windows>>

(* The copy follows once the wake-up is done, and the count of the other   *)
(* direction starts again.                                                 *)
PollCopies ==
  /\ poll \in {"entered", "left", "reset"} /\ caller["active"] = "idle"
  /\ policy_active' = (poll = "entered")
  /\ recover' = IF poll = "entered" THEN 0 ELSE recover
  /\ trigger' = IF poll = "left" THEN 0 ELSE trigger
  /\ poll' = "sleeping"
  /\ UNCHANGED <<limiterVars, have_prev, growth, windows>>

Poll ==
  \/ PollIdle \/ PollBaseline \/ PollActive \/ PollInactive
  \/ PollSwitches \/ PollCopies

PolicyNext ==
  \/ Poll
  \/ \E g \in Growths : ChangeGrowth(g)
  \/ /\ \/ Tick
        \/ \E w \in Writers : EnterHook(w) \/ RunHook(w) \/ Interrupt(w)
        \/ \E on \in BOOLEAN : SetEnabled(on)
        \/ \E rate \in Rates : SetWkbps(rate)
        \/ \E uid \in Uids : SetForeground(uid)
        \/ CountForeground
        \/ \E c \in Callers : WakeUpAll(c)
     /\ UNCHANGED policyVars

(* The polling thread sleeps for one window and runs again; a caller       *)
(* finishes its call.                                                      *)
PolicyFairness ==
  /\ WF_systemVars(Poll)
  /\ \A c \in Callers : WF_systemVars(WakeUpAll(c) /\ UNCHANGED policyVars)
  /\ WF_systemVars(CountForeground /\ UNCHANGED policyVars)

PolicySpec == PolicyInit /\ [][PolicyNext]_systemVars
FairPolicySpec == PolicySpec /\ PolicyFairness

-----------------------------------------------------------------------------
(* Properties.                                                             *)

PolicyTypeOK ==
  /\ have_prev \in BOOLEAN /\ policy_active \in BOOLEAN
  /\ trigger \in 0 .. Needed /\ recover \in 0 .. Needed
  /\ poll \in {"sleeping", "entering", "leaving", "resetting", "entered", "left", "reset"}
  /\ growth \in Growths
  /\ windows \in Seq(Heights) /\ Len(windows) <= Needed

(* The limiter is never active behind the policy's back: whatever procfs   *)
(* does in between, the thread that made it active knows, so it can end it.*)
PolicyKnowsActive == active => policy_active \/ poll = "entered"

(* The limiter becomes active only after three high windows in a row, none *)
(* of them from before an idle poll or an exit.  A high window is one that *)
(* the code takes for one: fast growth, or dirty pages that become fewer.  *)
ThreeHighWindows ==
  [][~active /\ active' => /\ Len(windows) = Needed
                           /\ \A i \in 1 .. Needed : windows[i] = "high"]_systemVars

(* When the dirty pages stop changing for good, the limiter ends for good; *)
(* when they only never rise again, it ends again and again.               *)
CalmEnds ==
  /\ <>[](growth = "none") => <>[]~active
  /\ <>[]~Rising(growth) => []<>~active

(* The limiter stays configured, and the policy's copy agrees whenever it  *)
(* polls.  The copy disagrees when userspace rewrites the switch before    *)
(* the policy has seen the last write: set_enabled makes the limiter       *)
(* inactive, and a policy that takes it for active never asks again.       *)
Watching == ~Idle /\ (poll = "sleeping" => policy_active = active)

(* A limiter that is watched becomes and stays active when the dirty pages *)
(* keep growing fast.                                                      *)
PressureActivates == <>[](Watching /\ growth = "fast") => <>[]active

(* While the dirty pages become fewer, the two comparisons contradict each *)
(* other: a limiter that is watched becomes active again and again.        *)
ShrinkingActivates == <>[](Watching /\ growth = "shrinking") => []<>active

(* However the thread's steps and the writes of procfs interleave, the     *)
(* policy knows of an active limiter, counts no further than it needs to,  *)
(* and a task outside /background waits only when the configuration moved  *)
(* after its unlocked check.                                               *)
PolicyConsistent ==
  /\ PolicyTypeOK
  /\ PolicyKnowsActive
  /\ OutsidersWaitOnChange

(* The limiter follows what the policy takes for pressure, both ways: it   *)
(* ends when the dirty pages stay calm, begins when they keep growing, and *)
(* comes and goes while they become fewer.                                 *)
LimiterFollowsPressure ==
  /\ CalmEnds
  /\ PressureActivates
  /\ ShrinkingActivates
=============================================================================
