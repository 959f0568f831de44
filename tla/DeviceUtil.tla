----------------------------- MODULE DeviceUtil -----------------------------
(***************************************************************************)
(* Device utilisation (io_semantics.c): busy time is accumulated between   *)
(* the first request in the device and the last one out, the polling       *)
(* thread starts a new window, and every recorded request takes a          *)
(* snapshot.  All of it is under util_lock, except that the snapshot reads *)
(* the clock before it takes the lock.                                     *)
(*                                                                         *)
(* Nanoseconds are ticks, and u64 arithmetic is taken modulo Width.        *)
(***************************************************************************)
EXTENDS Integers, FiniteSetsExt

CONSTANTS
    Readers,      \* contexts that take a snapshot
    Width,        \* 2 ^ 64
    MaxUtilClock,  \* bound of the clock
    MaxUtilInFlight,  \* bound: requests in the device
    MaxUtilRolls  \* bound: windows

ASSUME UtilAssumption ==
    /\ MaxUtilClock \in Nat /\ MaxUtilInFlight \in Nat /\ MaxUtilRolls \in Nat
    /\ Width \in Nat /\ Width > 100 * MaxUtilClock

VARIABLES
    util_clock,         \* ktime_get_boottime_ns
    util_in_flight, ts_busy_start, busy_ns, util_window_start,
    util_rolls,         \* windows so far
    reader,             \* per reader, its clock and what was true then
    was_busy,           \* ghost: ticks of this window with a request in flight
    util                \* the last snapshot, with the bounds it should respect

utilDevice == <<util_in_flight, ts_busy_start, busy_ns, util_window_start>>
utilVars == <<util_clock, util_in_flight, ts_busy_start, busy_ns, util_window_start, util_rolls,
          reader, was_busy, util>>

Away == [at |-> "away"]

UtilInit ==
    /\ util_clock = 1 /\ util_window_start = 1
    /\ util_in_flight = 0 /\ ts_busy_start = 0 /\ busy_ns = 0
    /\ util_rolls = 0 /\ was_busy = 0
    /\ reader = [r \in Readers |-> Away]
    /\ util = [pct |-> 0, least |-> 0, most |-> 0, overtaken |-> FALSE]

UtilTick ==
    /\ util_clock < MaxUtilClock
    /\ util_clock' = util_clock + 1
    /\ was_busy' = IF util_in_flight > 0 THEN was_busy + 1 ELSE was_busy
    /\ UNCHANGED <<utilDevice, util_rolls, reader, util>>

\* A busy period begins; a snapshot that read the clock before is overtaken.
Overtake ==
    reader' = [r \in Readers |->
                 IF reader[r] = Away THEN Away
                 ELSE [reader[r] EXCEPT !.overtaken = @ \/ reader[r].now < util_clock]]

UtilIssue ==
    /\ util_in_flight < MaxUtilInFlight
    /\ util_in_flight' = util_in_flight + 1
    /\ IF util_in_flight = 0
       THEN ts_busy_start' = util_clock /\ Overtake
       ELSE UNCHANGED <<ts_busy_start, reader>>
    /\ UNCHANGED <<util_clock, busy_ns, util_window_start, util_rolls, was_busy, util>>

UtilComplete ==
    /\ util_in_flight > 0
    /\ util_in_flight' = util_in_flight - 1
    /\ IF util_in_flight = 1
       THEN /\ busy_ns' = IF ts_busy_start # 0 /\ util_clock > ts_busy_start
                          THEN busy_ns + (util_clock - ts_busy_start) ELSE busy_ns
            /\ ts_busy_start' = 0
       ELSE UNCHANGED <<busy_ns, ts_busy_start>>
    /\ UNCHANGED <<util_clock, util_window_start, util_rolls, reader, was_busy, util>>

\* The end of roll_completed_bucket: an open busy period begins anew.
RollWindow ==
    /\ util_rolls < MaxUtilRolls /\ util_rolls' = util_rolls + 1
    /\ busy_ns' = 0 /\ util_window_start' = util_clock
    /\ ts_busy_start' = IF util_in_flight > 0 THEN util_clock ELSE ts_busy_start
    /\ was_busy' = 0 /\ Overtake
    /\ UNCHANGED <<util_clock, util_in_flight, util>>

SnapshotClock(r) ==
    /\ reader[r] = Away
    /\ reader' = [reader EXCEPT ![r] =
                    [at |-> "lock", now |-> util_clock, busy |-> was_busy, overtaken |-> FALSE]]
    /\ UNCHANGED <<util_clock, utilDevice, util_rolls, was_busy, util>>

\* Mutant: an open busy period is not counted.
SnapshotPct_ClosedOnly(now) ==
    LET elapsed == (now - util_window_start) % Width IN
    IF elapsed = 0 THEN 0 ELSE Min({100, ((busy_ns * 100) % Width) \div elapsed})

\* What snapshot_device_util computes from its reading of the clock.
SnapshotPct(now) ==
    LET elapsed == (now - util_window_start) % Width
        open == IF util_in_flight > 0 /\ ts_busy_start # 0 THEN now - ts_busy_start ELSE 0
        busy == (busy_ns + open) % Width
    IN  IF elapsed = 0 THEN 0 ELSE Min({100, ((busy * 100) % Width) \div elapsed})

SnapshotLocked(r) ==
    /\ reader[r] # Away
    /\ LET now == reader[r].now
           elapsed == now - util_window_start
           share(ticks) == IF elapsed <= 0 THEN 0 ELSE Min({100, (ticks * 100) \div elapsed})
       IN  util' = [pct |-> SnapshotPct(now), least |-> share(reader[r].busy),
                    most |-> share(was_busy), overtaken |-> reader[r].overtaken]
    /\ reader' = [reader EXCEPT ![r] = Away]
    /\ UNCHANGED <<util_clock, utilDevice, util_rolls, was_busy>>

UtilNext ==
    \/ UtilTick \/ UtilIssue \/ UtilComplete \/ RollWindow
    \/ \E r \in Readers : SnapshotClock(r) \/ SnapshotLocked(r)

UtilSpec == UtilInit /\ [][UtilNext]_utilVars

-----------------------------------------------------------------------------
\* The closed busy time and the open busy period add up to the ticks of this
\* window in which a request was in the device, across every roll; they never
\* exceed the window, although the percentage is clamped as if they might.
BusyTimeTrue ==
    /\ busy_ns + (IF util_in_flight > 0 THEN util_clock - ts_busy_start ELSE 0) = was_busy
    /\ was_busy <= util_clock - util_window_start

\* A snapshot that neither a roll nor the beginning of a busy period overtook
\* between its clock and its lock lies between the utilisation at the one and
\* at the other.
SnapshotBetween ==
    ~util.overtaken => util.least <= util.pct /\ util.pct <= util.most

\* The utilisation of the device is true at every roll and in every snapshot
\* that nothing overtook.
UtilTrue ==
    /\ BusyTimeTrue
    /\ SnapshotBetween
=============================================================================
