----------------------------- MODULE WindowStats -----------------------------
(***************************************************************************)
(* Latency statistics per window (io_semantics.c): a completion adds its   *)
(* latency to the histogram of its CPU, and the polling thread rolls the   *)
(* histograms of all CPUs, one after the other, into one, from which it    *)
(* publishes the percentiles, the average and their ratio.                 *)
(*                                                                         *)
(* hist_percentile finds a percentile in a histogram of powers of two; the *)
(* properties compare it with the latencies themselves, which a ghost      *)
(* keeps.  Kilobytes go along with the counts and are left out, as are the *)
(* page counters, which nothing feeds: the filemap probes are not          *)
(* registered.                                                             *)
(***************************************************************************)
EXTENDS Naturals, Sequences, SequencesExt, FiniteSetsExt

CONSTANTS
    CPUs,
    Latencies,    \* microseconds of a request
    HistBuckets,  \* HIST_BUCKETS
    MaxOps,       \* bound: completions
    MaxRolls      \* bound: windows

ASSUME WindowAssumption ==
    /\ Latencies \subseteq Nat /\ HistBuckets \in Nat \ {0}
    /\ MaxOps \in Nat /\ MaxRolls \in Nat

Ops == {"read", "write"}
Buckets == 0 .. HistBuckets - 1

VARIABLES
    cur_bucket,  \* per CPU and op, the histogram of the running window
    rolled,      \* the histograms that the roll has summed up so far
    stats_pending,  \* CPUs that the roll has still to visit
    rolling,     \* roll_completed_bucket is under way
    last_bucket, \* what was published last
    raw,         \* rawdata_trace_enabled
    ops, rolls,  \* completions and windows so far
    fresh,       \* ghost: per CPU and op, latencies of the running window
    taken,       \* ghost: per op, latencies of the window being rolled
    shown        \* ghost: per op, latencies of the last window with requests

statsVars == <<cur_bucket, rolled, stats_pending, rolling, last_bucket, raw, ops, rolls,
          fresh, taken, shown>>

Empty == [count |-> [b \in Buckets |-> 0], sum_us |-> 0, total |-> 0]
NoFigures == [p50 |-> 0, p99 |-> 0, avg |-> 0, ratio |-> 0]

StatsInit ==
    /\ cur_bucket = [c \in CPUs |-> [o \in Ops |-> Empty]]
    /\ rolled = [o \in Ops |-> Empty]
    /\ stats_pending = {} /\ rolling = FALSE
    /\ last_bucket = [o \in Ops |-> NoFigures]
    /\ raw = FALSE /\ ops = 0 /\ rolls = 0
    /\ fresh = [c \in CPUs |-> [o \in Ops |-> << >>]]
    /\ taken = [o \in Ops |-> << >>]
    /\ shown = [o \in Ops |-> << >>]

-----------------------------------------------------------------------------
\* The bucket of a latency: the exponent of its power of two, cut off.
lat_bucket_idx(l) ==
    Max({0} \cup {b \in Buckets : b > 0 /\ 2 ^ b <= l})

lat_bucket_value(b) == 2 ^ b

hist_add(hist, l) ==
    [count |-> [hist.count EXCEPT ![lat_bucket_idx(l)] = @ + 1],
     sum_us |-> hist.sum_us + l,
     total |-> hist.total + 1]

Target(total, pct) == (total * pct + 99) \div 100

\* The first bucket up to which the target is reached.
hist_percentile(hist, pct) ==
    IF hist.total = 0 THEN 0
    ELSE LET seen(b) == MapThenSumSet(LAMBDA i : hist.count[i], 0 .. b)
             reached == {b \in Buckets : seen(b) >= Target(hist.total, pct)}
         IN  lat_bucket_value(Min(reached \cup {HistBuckets - 1}))

\* A CPU's histogram added to what was rolled before it.
HistSum(a, b) ==
    [count |-> [i \in Buckets |-> a.count[i] + b.count[i]],
     sum_us |-> a.sum_us + b.sum_us,
     total |-> a.total + b.total]

Figures(hist) ==
    IF hist.total = 0 THEN NoFigures
    ELSE LET p50 == hist_percentile(hist, 50)
             p99 == hist_percentile(hist, 99)
         IN  [p50 |-> p50, p99 |-> p99, avg |-> hist.sum_us \div hist.total,
              ratio |-> IF p99 = 0 THEN 0 ELSE (p50 * 100) \div p99]

-----------------------------------------------------------------------------
\* cur_bucket_add, under the lock of the CPU's bucket.
CurBucketAdd(c, o, l) ==
    /\ ~raw /\ ops < MaxOps
    /\ ops' = ops + 1
    /\ cur_bucket' = [cur_bucket EXCEPT ![c][o] = hist_add(@, l)]
    /\ fresh' = [fresh EXCEPT ![c][o] = Append(@, l)]
    /\ UNCHANGED <<rolled, stats_pending, rolling, last_bucket, raw, rolls, taken, shown>>

\* In raw mode neither completions nor windows are counted; what a window had
\* before goes into the first one after it.
SetRaw(on) ==
    /\ raw # on /\ raw' = on
    /\ UNCHANGED <<cur_bucket, rolled, stats_pending, rolling, last_bucket, ops, rolls,
                   fresh, taken, shown>>

\* smart_io_periodic_tick looks at the mode and begins to roll.
RollBegin ==
    /\ ~rolling /\ ~raw /\ rolls < MaxRolls
    /\ rolling' = TRUE /\ stats_pending' = CPUs
    /\ rolled' = [o \in Ops |-> Empty]
    /\ taken' = [o \in Ops |-> << >>]
    /\ UNCHANGED <<cur_bucket, last_bucket, raw, ops, rolls, fresh, shown>>

\* Mutant: the sum is not reset with the counts.
Reset_KeepSum(hist) == [Empty EXCEPT !.sum_us = hist.sum_us]

\* memset of a histogram that was rolled.
Reset(hist) == Empty

\* One CPU of the loop, under its lock: added and reset.
RollCpu(c) ==
    /\ rolling /\ c \in stats_pending
    /\ stats_pending' = stats_pending \ {c}
    /\ rolled' = [o \in Ops |-> HistSum(rolled[o], cur_bucket[c][o])]
    /\ cur_bucket' = [cur_bucket EXCEPT ![c] = [o \in Ops |-> Reset(@[o])]]
    /\ taken' = [o \in Ops |-> taken[o] \o fresh[c][o]]
    /\ fresh' = [fresh EXCEPT ![c] = [o \in Ops |-> << >>]]
    /\ UNCHANGED <<rolling, last_bucket, raw, ops, rolls, shown>>

\* A window without requests leaves the figures of the one before.
Published ==
    IF \E o \in Ops : rolled[o].total > 0
    THEN [o \in Ops |-> Figures(rolled[o])]
    ELSE last_bucket

RollEnd ==
    /\ rolling /\ stats_pending = {}
    /\ rolling' = FALSE /\ rolls' = rolls + 1
    /\ last_bucket' = Published
    /\ shown' = IF \E o \in Ops : taken[o] # << >> THEN taken ELSE shown
    /\ UNCHANGED <<cur_bucket, rolled, stats_pending, raw, ops, fresh, taken>>

StatsNext ==
    \/ \E c \in CPUs, o \in Ops, l \in Latencies : CurBucketAdd(c, o, l)
    \/ \E on \in BOOLEAN : SetRaw(on)
    \/ RollBegin \/ RollEnd
    \/ \E c \in CPUs : RollCpu(c)

StatsSpec == StatsInit /\ [][StatsNext]_statsVars

-----------------------------------------------------------------------------
\* The pct-th percentile by definition: of n latencies, the one in the place
\* pct * n / 100, rounded up, when they are sorted.
Percentile(s, pct) ==
    CHOOSE l \in ToSet(s) :
        LET upTo == Cardinality({i \in DOMAIN s : s[i] <= l})
            below == Cardinality({i \in DOMAIN s : s[i] < l})
        IN  100 * upTo >= pct * Len(s) /\ 100 * below < pct * Len(s)

\* The published percentiles are the bucket values of the true percentiles of
\* the last window that had requests, at every size of the window.
PercentilesTrue ==
    \A o \in Ops : LET s == shown[o] f == last_bucket[o] IN
        IF s = << >> THEN f = NoFigures
        ELSE /\ f.p50 = lat_bucket_value(lat_bucket_idx(Percentile(s, 50)))
             /\ f.p99 = lat_bucket_value(lat_bucket_idx(Percentile(s, 99)))
             /\ f.ratio <= 100

\* hist_percentile agrees with the definition at every percentage that a small
\* window can tell apart, on whatever has been rolled so far.
AnyPercentileTrue ==
    \A o \in Ops : taken[o] # << >> =>
        \A pct \in {1, 20, 25, 34, 50, 51, 67, 75, 99, 100} :
            hist_percentile(rolled[o], pct) =
                lat_bucket_value(lat_bucket_idx(Percentile(taken[o], pct)))

\* The published average lies between the least and the greatest latency of
\* its window, so sum and count belong to the same requests.
AverageWithin ==
    \A o \in Ops : shown[o] # << >> =>
        /\ Min(ToSet(shown[o])) <= last_bucket[o].avg
        /\ last_bucket[o].avg <= Max(ToSet(shown[o]))

\* The figures procfs shows are those of the latencies that one window saw.
FiguresTrue ==
    /\ PercentilesTrue
    /\ AnyPercentileTrue
    /\ AverageWithin
=============================================================================
