----------------------------- MODULE UidWindows -----------------------------
(***************************************************************************)
(* Kilobytes per uid and window (io_semantics.c): handlers add to the      *)
(* bucket of the CPU they run on, allocating an entry with the bucket      *)
(* unlocked, and the polling thread moves all buckets into uid_io_prev,    *)
(* one CPU after the other, where uid_io_prev_bandwidth_kbps reads them.   *)
(*                                                                         *)
(* A bucket is the list of its entries, so that a second entry for a uid   *)
(* would show.  Reads and writes are not told apart.                       *)
(***************************************************************************)
EXTENDS Naturals, Sequences, SequencesExt, FiniteSetsExt

CONSTANTS
    UidCPUs, Uids,
    Handlers,   \* contexts that record a request: tasks and interrupts
    AddSizes,   \* kilobytes of a request
    MaxAdds,    \* bound: calls of uid_io_curr_add
    MaxSwaps    \* bound: windows

ASSUME UidWindowsAssumption ==
    /\ IsFiniteSet(UidCPUs)
    /\ AddSizes \subseteq Nat \ {0} /\ MaxAdds \in Nat /\ MaxSwaps \in Nat

VARIABLES
    curr,     \* uid_io_curr: a list of entries per CPU
    prev,     \* uid_io_prev: the list of entries of the last window
    adder,    \* per handler, the call between its two passes
    adds,     \* calls so far
    uid_pending,  \* CPUs the swap has still to visit
    swapping, \* the swap holds uid_io_prev_lock
    swaps,    \* windows so far
    added,    \* per uid, kilobytes added so far
    retired,  \* per uid, kilobytes of the windows that were freed
    marks     \* added when this swap and the one before began and ended

uidVars == <<curr, prev, adder, adds, uid_pending, swapping, swaps, added, retired, marks>>

Zero == [u \in Uids |-> 0]
UidIdle == [at |-> "idle"]

UidInit ==
    /\ curr = [c \in UidCPUs |-> << >>]
    /\ prev = << >>
    /\ adder = [h \in Handlers |-> UidIdle] /\ adds = 0
    /\ uid_pending = {} /\ swapping = FALSE /\ swaps = 0
    /\ added = Zero /\ retired = Zero
    /\ marks = [begun |-> Zero, ended |-> Zero, begun0 |-> Zero, ended0 |-> Zero]

Has(list, u) == \E i \in DOMAIN list : list[i].uid = u

AddTo(list, u, kb) ==
    [i \in DOMAIN list |->
        IF list[i].uid = u THEN [list[i] EXCEPT !.kb = @ + kb] ELSE list[i]]

Credit(u, kb) == added' = [added EXCEPT ![u] = @ + kb]

\* The first pass under the lock of the bucket: an entry is there and is added
\* to, or the lock is dropped to allocate one, which may fail.
CurrAdd(h, c, u, kb) ==
    /\ adder[h] = UidIdle /\ adds < MaxAdds
    /\ adds' = adds + 1
    /\ \/ /\ Has(curr[c], u)
          /\ curr' = [curr EXCEPT ![c] = AddTo(@, u, kb)]
          /\ Credit(u, kb) /\ UNCHANGED adder
       \/ /\ ~Has(curr[c], u)
          /\ \/ adder' = [adder EXCEPT ![h] =
                            [at |-> "retry", cpu |-> c, uid |-> u, kb |-> kb]]
             \/ UNCHANGED adder
          /\ UNCHANGED <<curr, added>>
    /\ UNCHANGED <<prev, uid_pending, swapping, swaps, retired, marks>>

\* Mutant: the second pass adds its entry without looking again.
CurrAddRetry_Blind(h) ==
    LET a == adder[h] IN
    /\ a # UidIdle
    /\ curr' = [curr EXCEPT ![a.cpu] = <<[uid |-> a.uid, kb |-> a.kb]>> \o @]
    /\ Credit(a.uid, a.kb)
    /\ adder' = [adder EXCEPT ![h] = UidIdle]
    /\ UNCHANGED <<prev, adds, uid_pending, swapping, swaps, retired, marks>>

\* The second pass looks again: an interrupt may have added the uid meanwhile,
\* in which case the new entry is freed, or the swap may have emptied the list.
CurrAddRetry(h) ==
    LET a == adder[h] IN
    /\ a # UidIdle
    /\ curr' = [curr EXCEPT ![a.cpu] =
                  IF Has(@, a.uid) THEN AddTo(@, a.uid, a.kb)
                                   ELSE <<[uid |-> a.uid, kb |-> a.kb]>> \o @]
    /\ Credit(a.uid, a.kb)
    /\ adder' = [adder EXCEPT ![h] = UidIdle]
    /\ UNCHANGED <<prev, adds, uid_pending, swapping, swaps, retired, marks>>

KbOf(list, u) == FoldLeft(LAMBDA n, e : IF e.uid = u THEN n + e.kb ELSE n, 0, list)

\* uid_io_swap_buckets takes the lock and frees the window before the last.
SwapBegin ==
    /\ ~swapping /\ swaps < MaxSwaps
    /\ swapping' = TRUE /\ uid_pending' = UidCPUs
    /\ retired' = [u \in Uids |-> retired[u] + KbOf(prev, u)]
    /\ prev' = << >>
    /\ marks' = [marks EXCEPT !.begun = added, !.begun0 = marks.begun,
                              !.ended0 = marks.ended]
    /\ UNCHANGED <<curr, adder, adds, swaps, added>>

\* An entry moves to uid_io_prev, or into the entry of its uid there.
Merged(list, e) ==
    IF Has(list, e.uid) THEN AddTo(list, e.uid, e.kb) ELSE <<e>> \o list

\* One CPU of the loop, under that bucket's lock.
SwapCpu(c) ==
    /\ swapping /\ c \in uid_pending
    /\ prev' = FoldLeft(Merged, prev, curr[c])
    /\ curr' = [curr EXCEPT ![c] = << >>]
    /\ uid_pending' = uid_pending \ {c}
    /\ UNCHANGED <<adder, adds, swapping, swaps, added, retired, marks>>

SwapEnd ==
    /\ swapping /\ uid_pending = {}
    /\ swapping' = FALSE /\ swaps' = swaps + 1
    /\ marks' = [marks EXCEPT !.ended = added]
    /\ UNCHANGED <<curr, prev, adder, adds, uid_pending, added, retired>>

UidNext ==
    \/ \E h \in Handlers :
          \/ \E c \in UidCPUs, u \in Uids, kb \in AddSizes : CurrAdd(h, c, u, kb)
          \/ CurrAddRetry(h)
    \/ SwapBegin \/ SwapEnd
    \/ \E c \in UidCPUs : SwapCpu(c)

UidSpec == UidInit /\ [][UidNext]_uidVars

-----------------------------------------------------------------------------
\* Every kilobyte that was added is in one bucket, in the last window, or in
\* one that was freed: the swap, which takes the buckets one after the other
\* while handlers go on adding, neither loses nor counts twice.
Conserved ==
    \A u \in Uids :
        added[u] = retired[u] + KbOf(prev, u)
                   + MapThenSumSet(LAMBDA c : KbOf(curr[c], u), UidCPUs)

\* No list has two entries for a uid, of which the reader would find only one,
\* although the entry is allocated with the bucket unlocked.
OneEntryPerUid ==
    \A list \in {prev} \cup {curr[c] : c \in UidCPUs} :
        \A i, j \in DOMAIN list : list[i].uid = list[j].uid => i = j

\* What uid_io_prev_bandwidth_kbps finds under the read lock is one window: at
\* least what was added between the last two swaps, and at most what was added
\* from the beginning of the one to the end of the other.
ReadIsOneWindow ==
    ~swapping =>
        \A u \in Uids :
            /\ KbOf(prev, u) + marks.ended0[u] >= marks.begun[u]
            /\ KbOf(prev, u) + marks.begun0[u] <= marks.ended[u]

\* The windows of bytes per uid stay true while handlers add and the swap
\* goes from CPU to CPU.
WindowsTrue ==
    /\ Conserved
    /\ OneEntryPerUid
    /\ ReadIsOneWindow
=============================================================================
