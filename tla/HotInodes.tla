----------------------------- MODULE HotInodes -----------------------------
(***************************************************************************)
(* The table of inodes that foreground reads of application code have made *)
(* hot (io_semantics.c).  Readers mark inodes, page reclaim asks for them. *)
(* Both read the clock before they take the lock, so that the operations   *)
(* reach the table with times out of order.                                *)
(***************************************************************************)
EXTENDS Integers, FiniteSets

CONSTANTS
  Callers,     \* contexts that mark and look up inodes
  Inodes,      \* hashes of inodes with an APK, ODEX or VDEX extension
  HotMax,      \* HOT_INODE_MAX
  TTL,         \* HOT_INODE_TTL_NS in ticks
  MaxHotLate,  \* longest time from reading the clock to holding the lock
  MaxHotClock  \* bound of the clock

ASSUME HotAssumption ==
  /\ IsFiniteSet(Inodes) /\ "none" \notin Inodes
  /\ HotMax \in Nat \ {0}
  /\ TTL \in Nat \ {0}
  /\ MaxHotLate \in Nat
  /\ MaxHotClock \in Nat

HotSlots == 1 .. HotMax
NoInode == "none"
Never == -(TTL + MaxHotLate)

VARIABLES
  hot_clock,   \* ktime_get_boottime_ns
  hot_inodes,  \* per slot: inode_hash and last_seen_ns
  call,        \* per caller: what it is about to do, with the time it read
  answer,      \* per caller, until its next call: the lookup's answer, and the
               \* time it asked about
  marked       \* per inode: the time of its last mark (history)

hotVars == <<hot_clock, hot_inodes, call, answer, marked>>

FreeSlot == [inode |-> NoInode, seen |-> 0]
NoCall == [op |-> "idle", inode |-> NoInode, now |-> 0]
NoAnswer == [inode |-> NoInode, now |-> 0]

HotInit ==
  /\ hot_clock = 0
  /\ hot_inodes = [k \in HotSlots |-> FreeSlot]
  /\ call = [c \in Callers |-> NoCall]
  /\ answer = [c \in Callers |-> NoAnswer]
  /\ marked = [i \in Inodes |-> Never]

(* hot_inode_entry_expired: free, or last seen a TTL ago.                  *)
Expired(e, now) ==
  \/ e.inode = NoInode
  \/ now >= e.seen /\ now - e.seen >= TTL

SlotsOf(i) == {k \in HotSlots : hot_inodes[k].inode = i}
ExpiredSlots(now) == {k \in HotSlots : Expired(hot_inodes[k], now)}

Lowest(S) == CHOOSE k \in S : \A l \in S : k <= l

(* The slot a new inode gets: the first expired one, else the first of     *)
(* those not seen for longest.                                             *)
Victim(now) ==
  IF ExpiredSlots(now) # {}
    THEN Lowest(ExpiredSlots(now))
    ELSE Lowest({k \in HotSlots :
                   \A l \in HotSlots : hot_inodes[k].seen <= hot_inodes[l].seen})

(* A caller reads the clock; it takes the lock in a later step.            *)
Begin(c, op, i) ==
  /\ call[c] = NoCall
  /\ call' = [call EXCEPT ![c] = [op |-> op, inode |-> i, now |-> hot_clock]]
  /\ answer' = [answer EXCEPT ![c] = NoAnswer]
  /\ UNCHANGED <<hot_clock, hot_inodes, marked>>

(* Mutant: an expired slot is taken before the rest has been searched.     *)
MarkSlot_FirstFit(i, now) ==
  IF SlotsOf(i) \cup ExpiredSlots(now) # {}
    THEN Lowest(SlotsOf(i) \cup ExpiredSlots(now))
    ELSE Victim(now)

(* Where a mark goes: the inode's own slot when it has one.                *)
MarkSlot(i, now) ==
  IF SlotsOf(i) # {} THEN Lowest(SlotsOf(i)) ELSE Victim(now)

(* smart_io_mark_hot_inode.                                                *)
MarkHot(c) ==
  LET i == call[c].inode
      now == call[c].now
  IN  /\ call[c].op = "mark"
      /\ hot_inodes' = [hot_inodes EXCEPT
                          ![MarkSlot(i, now)] = [inode |-> i, seen |-> now]]
      /\ marked' = [marked EXCEPT ![i] = now]
      /\ call' = [call EXCEPT ![c] = NoCall]
      /\ UNCHANGED <<hot_clock, answer>>

(* smart_io_hot_inode_ext: an expired entry is cleared by the lookup.      *)
LookUp(c) ==
  LET i == call[c].inode
      now == call[c].now
      here == SlotsOf(i)
      expired == here # {} /\ Expired(hot_inodes[Lowest(here)], now)
  IN  /\ call[c].op = "look"
      /\ hot_inodes' = IF expired
                         THEN [hot_inodes EXCEPT ![Lowest(here)] = FreeSlot]
                         ELSE hot_inodes
      /\ answer' = [answer EXCEPT ![c] =
           IF here # {} /\ ~expired THEN [inode |-> i, now |-> now]
                                    ELSE NoAnswer]
      /\ call' = [call EXCEPT ![c] = NoCall]
      /\ UNCHANGED <<hot_clock, marked>>

HotTick ==
  /\ hot_clock < MaxHotClock
  /\ \A c \in Callers :
       call[c] = NoCall \/ hot_clock + 1 - call[c].now <= MaxHotLate
  /\ hot_clock' = hot_clock + 1
  /\ UNCHANGED <<hot_inodes, call, answer, marked>>

HotNext ==
  \/ \E c \in Callers :
       \/ \E i \in Inodes, op \in {"mark", "look"} : Begin(c, op, i)
       \/ MarkHot(c)
       \/ LookUp(c)
  \/ HotTick

HotSpec == HotInit /\ [][HotNext]_hotVars

-----------------------------------------------------------------------------
(* Properties.                                                             *)

(* No inode has two slots: an update would reach only the first of them    *)
(* and the other would age under it.  Marks and lookups free and reuse     *)
(* slots in any order of their times.                                      *)
OneSlotPerInode == \A i \in Inodes : Cardinality(SlotsOf(i)) <= 1

(* Reclaim is told that an inode is hot only if the last mark of the inode *)
(* at the time of the answer lay less than a TTL before the time it asked  *)
(* about.                                                                  *)
AnswerBacked ==
  \A c \in Callers :
    answer'[c] # answer[c] /\ answer'[c].inode # NoInode =>
      answer'[c].now - marked[answer'[c].inode] < TTL

(* An inode keeps its slot for its TTL as long as the inodes marked        *)
(* lately fit in the table: nothing else displaces it, and no lookup       *)
(* clears it early.  A late mark brings a time older than what it pushes   *)
(* out, so inodes count for MaxHotLate beyond their TTL.                    *)
KeptWhileRoom ==
  \A i \in Inodes :
    /\ hot_clock - marked[i] < TTL
    /\ Cardinality({j \in Inodes : hot_clock - marked[j] < TTL + MaxHotLate}) <= HotMax
    => SlotsOf(i) # {}

(* The table answers for the inodes marked lately: each has one slot,      *)
(* keeps it while there is room, and no step gives an answer that rests on *)
(* an expired mark.                                                        *)
HotTableTrue ==
  [][OneSlotPerInode' /\ KeptWhileRoom' /\ AnswerBacked]_hotVars
=============================================================================
