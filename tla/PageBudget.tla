----------------------------- MODULE PageBudget -----------------------------
(***************************************************************************)
(* The page-cache demonstration (tp_pagecache_demo.c): page reclaim asks,  *)
(* for every clean page of a hot inode, whether to keep the page active,   *)
(* and the answer is limited per foreground uid and inode to a budget of   *)
(* bytes per window.  Several CPUs reclaim at once, and each reads the     *)
(* switch and the clock before it takes the lock of the budgets.           *)
(*                                                                         *)
(* Which inodes are hot is module HotInodes: here, reclaim starts where    *)
(* the table has just called the page's inode hot.                         *)
(***************************************************************************)
EXTENDS Integers, FiniteSets, FiniteSetsExt

CONSTANTS
  Shrinkers,     \* contexts that reclaim pages
  ReclaimUids,   \* foreground uids; 0 never gets a budget
  CachedInodes,  \* hashes of hot inodes
  FolioSizes,    \* folio sizes
  BudgetInodes,  \* PAGECACHE_DEMO_BUDGET_INODES
  Budget,        \* PAGECACHE_DEMO_BUDGET_BYTES
  Window,        \* PAGECACHE_DEMO_BUDGET_WINDOW_NS in ticks
  CounterWrap,   \* 2^w for the unsigned byte counts
  MaxBudgetLate,  \* longest time from reading the clock to holding the lock
  MaxBudgetClock  \* bound of the clock

ASSUME BudgetAssumption ==
  /\ IsFiniteSet(Shrinkers)
  /\ {BudgetInodes, Budget, Window} \subseteq Nat \ {0}
  /\ ReclaimUids \subseteq Nat
  /\ FolioSizes \subseteq Nat
  /\ CounterWrap \in Nat /\ CounterWrap > Budget
  /\ MaxBudgetLate \in Nat /\ 2 * MaxBudgetLate <= Window
  /\ MaxBudgetClock \in Nat

BudgetSlots == 1 .. BudgetInodes
NoBudgetInode == "none"
NoUid == 0

VARIABLES
  budget_clock,    \* ktime_get_boottime_ns; starts after 0, which is "unset"
  pagecache_on,    \* pagecache_demo_on
  clearing,        \* set_enabled(false) has still to clear the budgets
  shrink,          \* per shrinker: the request it takes to the lock
  budgets,         \* pagecache_demo_inode_budgets
  forgotten,       \* the watched budget was cleared or displaced (history)
  granted          \* bytes granted to the watched pair in the last ticks, the
                   \* present one first, until it is forgotten (history)

budgetVars == <<budget_clock, pagecache_on, clearing, shrink, budgets, forgotten,
                granted>>

Pairs == (ReclaimUids \ {NoUid}) \X CachedInodes
Ages == 0 .. Window - 1

Nothing == [a \in Ages |-> 0]

\* A uid and inode like any other: the history is of this one.
Watched == CHOOSE p \in Pairs : TRUE

FreeBudget == [uid |-> NoUid, inode |-> NoBudgetInode, start |-> 0, used |-> 0]
NoWork == [inode |-> NoBudgetInode]

BudgetInit ==
  /\ budget_clock = 1
  /\ pagecache_on = FALSE
  /\ clearing = FALSE
  /\ shrink = [s \in Shrinkers |-> NoWork]
  /\ budgets = [k \in BudgetSlots |-> FreeBudget]
  /\ forgotten = FALSE
  /\ granted = Nothing

-----------------------------------------------------------------------------
(* A new window starts on the first use, when the old one has passed, and  *)
(* when the clock that was read lies before it.                            *)
WindowOver(start, now) == start = 0 \/ now < start \/ now - start >= Window

Own(uid, inode) ==
  {k \in BudgetSlots : budgets[k].uid = uid /\ budgets[k].inode = inode}
FreeBudgets == {k \in BudgetSlots : budgets[k].uid = NoUid}
Oldest == {k \in BudgetSlots : \A l \in BudgetSlots : budgets[k].start <= budgets[l].start}

(* Mutant: a free slot is preferred to the one the pair has.               *)
SlotFor_FreeFirst(uid, inode) ==
  CASE FreeBudgets # {} -> Min(FreeBudgets)
    [] FreeBudgets = {} /\ Own(uid, inode) # {} -> Min(Own(uid, inode))
    [] OTHER -> Min(Oldest)

(* The slot of a uid and inode: its own, else the first free one, else the *)
(* first of those whose window began first.                                *)
SlotFor(uid, inode) ==
  CASE Own(uid, inode) # {} -> Min(Own(uid, inode))
    [] Own(uid, inode) = {} /\ FreeBudgets # {} -> Min(FreeBudgets)
    [] OTHER -> Min(Oldest)

Eligible(w) == w.uid # NoUid /\ w.bytes # 0 /\ w.bytes <= Budget

(* The entry as the request finds it, renewed when it belongs to another   *)
(* uid or inode or its window is over.                                     *)
Renewed(e, w) ==
  IF e.uid # w.uid \/ e.inode # w.inode \/ WindowOver(e.start, w.now)
    THEN [uid |-> w.uid, inode |-> w.inode, start |-> w.now, used |-> 0]
    ELSE e

(* The subtraction is of unsigned numbers.                                 *)
Allowed(e, bytes) == e.used <= (Budget + CounterWrap - bytes) % CounterWrap

(* The budget of the watched pair is given up for that of another.         *)
Displaces(w) ==
  LET k == SlotFor(w.uid, w.inode)
  IN  /\ <<budgets[k].uid, budgets[k].inode>> = Watched
      /\ <<w.uid, w.inode>> # Watched

-----------------------------------------------------------------------------
(* tp_pagecache_demo_shrink_cb up to the lock: the switch is on, the page  *)
(* is clean and of a hot inode, and the clock and foreground uid are read. *)
ShrinkFolio(s, uid, inode, bytes) ==
  /\ shrink[s] = NoWork
  /\ pagecache_on
  /\ shrink' = [shrink EXCEPT ![s] =
       [inode |-> inode, uid |-> uid, bytes |-> bytes, now |-> budget_clock]]
  /\ UNCHANGED <<budget_clock, pagecache_on, clearing, budgets, forgotten, granted>>

(* pagecache_demo_take_budget, and the grant that follows from it.         *)
TakeBudget(s) ==
  LET w == shrink[s]
      k == SlotFor(w.uid, w.inode)
      e == Renewed(budgets[k], w)
      allowed == Allowed(e, w.bytes)
  IN  /\ w # NoWork
      /\ shrink' = [shrink EXCEPT ![s] = NoWork]
      /\ IF Eligible(w)
           THEN /\ budgets' = [budgets EXCEPT ![k] =
                     IF allowed THEN [e EXCEPT !.used = @ + w.bytes] ELSE e]
                /\ forgotten' = (forgotten \/ Displaces(w))
                /\ granted' =
                     IF forgotten' THEN Nothing
                     ELSE IF allowed /\ <<w.uid, w.inode>> = Watched
                       THEN [granted EXCEPT ![0] = @ + w.bytes]
                     ELSE granted
           ELSE UNCHANGED <<budgets, forgotten, granted>>
      /\ UNCHANGED <<budget_clock, pagecache_on, clearing>>

(* smart_io_pagecache_demo_set_enabled: on is one store.                   *)
SwitchOn ==
  /\ ~pagecache_on /\ ~clearing
  /\ pagecache_on' = TRUE
  /\ UNCHANGED <<budget_clock, clearing, shrink, budgets, forgotten, granted>>

(* Off is a store, and then the budgets are cleared under their lock.      *)
SwitchOff ==
  /\ pagecache_on
  /\ pagecache_on' = FALSE
  /\ clearing' = TRUE
  /\ forgotten' = TRUE
  /\ granted' = Nothing
  /\ UNCHANGED <<budget_clock, shrink, budgets>>

ClearBudgets ==
  /\ clearing
  /\ clearing' = FALSE
  /\ budgets' = [k \in BudgetSlots |-> FreeBudget]
  /\ UNCHANGED <<budget_clock, pagecache_on, shrink, forgotten, granted>>

BudgetTick ==
  /\ budget_clock < MaxBudgetClock
  /\ \A s \in Shrinkers :
       shrink[s] # NoWork => budget_clock + 1 - shrink[s].now <= MaxBudgetLate
  /\ budget_clock' = budget_clock + 1
  /\ granted' = [a \in Ages |-> IF a = 0 THEN 0 ELSE granted[a - 1]]
  /\ UNCHANGED <<pagecache_on, clearing, shrink, budgets, forgotten>>

BudgetNext ==
  \/ \E s \in Shrinkers :
       \/ \E uid \in ReclaimUids, inode \in CachedInodes, bytes \in FolioSizes :
            ShrinkFolio(s, uid, inode, bytes)
       \/ TakeBudget(s)
  \/ SwitchOn
  \/ SwitchOff
  \/ ClearBudgets
  \/ BudgetTick

BudgetSpec == BudgetInit /\ [][BudgetNext]_budgetVars

-----------------------------------------------------------------------------
(* Properties.                                                             *)

(* Every entry stays within the budget and belongs to an eligible pair; a  *)
(* free one is empty.                                                      *)
BudgetTypeOK ==
  /\ \A k \in BudgetSlots :
       \/ budgets[k] = FreeBudget
       \/ /\ <<budgets[k].uid, budgets[k].inode>> \in Pairs
          /\ budgets[k].start \in 1 .. budget_clock
          /\ budgets[k].used \in 0 .. Budget

(* No uid and inode have two entries, each with a budget of its own.       *)
OneBudgetPerPair ==
  \A p \in Pairs : Cardinality(Own(p[1], p[2])) <= 1

\* What one window can let through while late shrinkers restart windows.
MostBudgets == 2 * Cardinality(Shrinkers) + 1

(* While its entry is neither displaced nor cleared by switching off, no   *)
(* uid and inode is granted more than MostBudgets budgets in any stretch   *)
(* of real time as long as a window, wherever it begins: the stretch meets *)
(* two windows, each of which every other shrinker that read the clock     *)
(* before it began may restart once, and a late grant from the one before. *)
GrantsBounded ==
  ~forgotten => MapThenSumSet(LAMBDA a : granted[a], Ages) <= MostBudgets * Budget

(* The budgets bound what reclaim lets through: an entry per pair, within  *)
(* its budget, and a bounded number of budgets in any window.              *)
BudgetsTrue ==
  /\ BudgetTypeOK
  /\ OneBudgetPerPair
  /\ GrantsBounded
=============================================================================
