----------------------------- MODULE HistoryTiers -----------------------------
(***************************************************************************)
(* What happens to a recorded value (insight/history/store.go): it is      *)
(* stored in the finest tier, rolled up from tier to tier, dropped from    *)
(* each after its retention, and charted; the totals may be rebuilt from   *)
(* the torrents.  HistoryStore models when a round is recorded and when a  *)
(* torrent is collected.                                                   *)
(*                                                                         *)
(* A pass of maintain is one step.  Between its statements the code may    *)
(* record another round, which adds rows no older than the pass and is     *)
(* rolled up by the next one.  Up and down counters travel together and    *)
(* are one number.                                                         *)
(***************************************************************************)
EXTENDS HistorySchema, Sequences, Sums

CONSTANTS
    Torrents,
    Total,          \* the series "" of the totals
    Tiers,          \* tiers, finest first: [bucket, retain]
    Window,         \* per tier: how far back its source is rolled up again
    GaugeWindow,    \* the same for gauges
    Ranges,         \* the ranges a chart may ask for
    MostPerStep,    \* maxRateBytesPerSec
    Unit,           \* what a torrent transfers between two rounds, if it does
    PartDone,       \* the counter of a torrent that is first seen part-done
    MaxClock,       \* bound: the last instant explored
    AtFirst,        \* torrents that rtorrent has from the beginning
    Movers,         \* bound: torrents that transfer
    MaxMoved,       \* bound: what a torrent transfers altogether
    JoinTimes,      \* bound: when torrents are added
    StopTimes,      \* bound: when the process may die
    MaxSilence      \* bound: time without a pass, the process being down included

\* The tables fit together: buckets nest, a rollup reaches back over a silence and a
\* bucket of its source, and what an average is taken of is still there.
Fit(tiers, window, gaugeWindow, longest) ==
    /\ tiers \in Seq([bucket : Nat \ {0}, retain : Nat]) /\ Len(tiers) >= 1
    /\ window \in [DOMAIN tiers -> Nat] /\ gaugeWindow \in [DOMAIN tiers -> Nat]
    /\ longest \in Nat
    /\ tiers[1].bucket = 1
    /\ \A i \in DOMAIN tiers : tiers[i].retain >= tiers[i].bucket
    /\ \A i \in 2..Len(tiers) :
           /\ tiers[i].bucket % tiers[i - 1].bucket = 0
           /\ gaugeWindow[i] + tiers[i].bucket <= tiers[i - 1].retain
           /\ window[i] >= longest + tiers[i - 1].bucket - 1
           /\ gaugeWindow[i] >= longest

ASSUME TiersFit == Fit(Tiers, Window, GaugeWindow, MaxSilence)

\* The tables of the code, in seconds.
StoreTiers == <<[bucket |-> 1, retain |-> 900], [bucket |-> 60, retain |-> 86400],
                [bucket |-> 3600, retain |-> 604800], [bucket |-> 86400, retain |-> 31536000]>>
StoreWindow == <<0, 1800, 10800, 180000>>
StoreGaugeWindow == <<0, 600, 10800, 180000>>

ASSUME TorrentsAreSane ==
    /\ IsFiniteSet(Torrents) /\ Total \notin Torrents /\ AtFirst \subseteq Torrents
    /\ Unit \in Nat /\ PartDone \in Nat /\ MostPerStep \in Nat /\ Ranges \subseteq Nat

Series == Torrents \cup {Total}
Finest == 1
Coarsest == Len(Tiers)

VARIABLES
    clock,
    counter,    \* per torrent rtorrent has: its transfer total
    samples,    \* per tier and series: the rows, values by ts
    gauges,     \* per tier: the rows of a gauge
    firstSeen,  \* per torrent: seen.first_seen, 0 for none
    last,       \* Store.last, per series
    recorded,   \* ghost: per series, every row ever recorded
    measured,   \* ghost: every gauge row ever recorded
    moved,      \* ghost: per torrent, what it transferred between rounds
    silence,    \* time since the last pass
    done        \* what has just been done: "pass", "rebuild" or "nothing"

tierVars == <<clock, counter, samples, gauges, firstSeen, last, recorded, measured, moved,
              silence, done>>
allVars == <<schemaVars, tierVars>>

\* Rows are a function of timestamps: none, one, and some written over others.
NoRows == [ts \in {} |-> 0]
Row(ts, value) == [x \in {ts} |-> value]
Over(new, rows) ==
    [ts \in DOMAIN new \cup DOMAIN rows |-> IF ts \in DOMAIN new THEN new[ts] ELSE rows[ts]]

Newest(rows) == rows[Max(DOMAIN rows)]
Bucket(ts, size) == (ts \div size) * size

-----------------------------------------------------------------------------
(* Rolling up and dropping. *)

\* Mutant of LastPerBucket: the first value of a bucket is kept.
FirstPerBucket(rows, size, from) ==
    LET recent == {ts \in DOMAIN rows : ts >= from}
    IN [b \in {Bucket(ts, size) : ts \in recent} |->
            rows[Min({ts \in recent : Bucket(ts, size) = b})]]

\* rollupSamplesSQL: the last value of each bucket that has a recent row.
LastPerBucket(rows, size, from) ==
    LET recent == {ts \in DOMAIN rows : ts >= from}
    IN [b \in {Bucket(ts, size) : ts \in recent} |->
            rows[Max({ts \in recent : Bucket(ts, size) = b})]]

\* Mutant of AveragePerBucket: the cutoff goes through a bucket.
AverageUnaligned(rows, size, from) ==
    LET recent == {ts \in DOMAIN rows : ts >= from}
        in(b) == {ts \in recent : Bucket(ts, size) = b}
    IN [b \in {Bucket(ts, size) : ts \in recent} |->
            SumOf([ts \in in(b) |-> rows[ts]]) \div Cardinality(in(b))]

\* maintain's gauge rollup: a bucket's average, of all its rows or not at all.
AveragePerBucket(rows, size, from) ==
    LET recent == {ts \in DOMAIN rows : ts >= Bucket(from, size)}
        in(b) == {ts \in recent : Bucket(ts, size) = b}
    IN [b \in {Bucket(ts, size) : ts \in recent} |->
            SumOf([ts \in in(b) |-> rows[ts]]) \div Cardinality(in(b))]

\* The chain of rollups: each tier is rolled up from the finer one as that one
\* has just become.
Roll(kind, rows, size, from) ==
    IF kind = "counter" THEN LastPerBucket(rows, size, from) ELSE AveragePerBucket(rows, size, from)
RolledUp(kind, tiers, window) ==
    LET rolled[i \in DOMAIN Tiers] ==
            IF i = Finest THEN tiers[i]
            ELSE Over(Roll(kind, rolled[i - 1], Tiers[i].bucket, clock - window[i]), tiers[i])
    IN rolled

Retained(tiers) ==
    [i \in DOMAIN Tiers |->
        LET rows == tiers[i]
        IN [ts \in {t \in DOMAIN rows : t >= clock - Tiers[i].retain} |-> rows[ts]]]

\* The tiers of one series, and samples of the tiers of each.
Of(s) == [i \in DOMAIN Tiers |-> samples[i][s]]
BySeries(f) == [i \in DOMAIN Tiers |-> [s \in Series |-> f[s][i]]]
CaughtUp == [s \in Series |-> RolledUp("counter", Of(s), Window)]

\* maintain: everything is rolled up, then dropped.  Passes are a minute apart.
Pass ==
    /\ silence > 0 /\ done # "rebuild"
    /\ samples' = BySeries([s \in Series |-> Retained(CaughtUp[s])])
    /\ gauges' = Retained(RolledUp("gauge", gauges, GaugeWindow))
    /\ silence' = 0 /\ done' = "pass"
    /\ UNCHANGED <<clock, counter, firstSeen, last, recorded, measured, moved>>

-----------------------------------------------------------------------------
(* Rounds: Sample and SampleGauges. *)

Present == DOMAIN counter
NoRoundYet == clock \notin DOMAIN measured

\* Transferring torrents have moved on by the time of the round; the level of
\* the gauge goes with them.
Round(transferring) ==
    LET now == [t \in Present |-> counter[t] + IF t \in transferring THEN Unit ELSE 0]
        value == Over(now, Row(Total, SumOf(now)))
        written == {s \in DOMAIN value : last[s] # value[s]}
        level == 3 * Cardinality(transferring)
    IN /\ NoRoundYet /\ done = "nothing"
       /\ counter' = now
       /\ samples' = [samples EXCEPT ![Finest] = [s \in Series |->
              IF s \in written THEN Over(Row(clock, value[s]), @[s]) ELSE @[s]]]
       /\ last' = [s \in Series |-> IF s \in written THEN value[s] ELSE last[s]]
       /\ recorded' = [s \in Series |->
              IF s \in written THEN Over(Row(clock, value[s]), recorded[s]) ELSE recorded[s]]
       /\ firstSeen' = [t \in Torrents |->
              IF t \in Present /\ firstSeen[t] = 0 THEN clock ELSE firstSeen[t]]
       /\ moved' = [t \in Torrents |->
              IF t \in transferring /\ firstSeen[t] > 0 THEN moved[t] + Unit ELSE moved[t]]
       /\ gauges' = [gauges EXCEPT ![Finest] = Over(Row(clock, level), @)]
       /\ measured' = Over(Row(clock, level), measured)
       /\ done' = "nothing"
       /\ UNCHANGED <<clock, silence>>

-----------------------------------------------------------------------------
(* The world, and restarts. *)

Unwritten == [s \in Series |-> -1]

\* An instant without a round is one the process was down for.
Tick ==
    /\ clock < MaxClock /\ silence < MaxSilence /\ done # "rebuild"
    /\ NoRoundYet => last = Unwritten
    /\ clock' = clock + 1 /\ silence' = silence + 1 /\ done' = "nothing"
    /\ UNCHANGED <<counter, samples, gauges, firstSeen, last, recorded, measured, moved>>

AddTorrent(t) ==
    /\ t \notin Present /\ NoRoundYet /\ done = "nothing" /\ clock \in JoinTimes
    /\ counter' = Over(Row(t, PartDone), counter)
    /\ UNCHANGED <<clock, samples, gauges, firstSeen, last, recorded, measured, moved, silence,
                   done>>

\* Its transfer totals start again: the torrent was removed and loaded afresh.
ResetTorrent(t) ==
    /\ t \in Present /\ NoRoundYet /\ done = "nothing"
    /\ moved[t] > 0 /\ counter[t] = PartDone + moved[t]    \* once
    /\ counter' = [counter EXCEPT ![t] = 0]
    /\ UNCHANGED <<clock, samples, gauges, firstSeen, last, recorded, measured, moved, silence,
                   done>>

-----------------------------------------------------------------------------
(* RebuildGlobalFromTorrents. *)

\* Mutant of RunningSum: each ts sums the rows it has, nothing is carried.
RunningSumNotCarried(tier) ==
    LET stamps == UNION {DOMAIN tier[t] : t \in Torrents}
    IN [ts \in stamps |->
           SumOf([t \in {u \in Torrents : ts \in DOMAIN tier[u]} |-> tier[t][ts]])]

\* A running sum over the torrents' rows of a tier in order of ts, one total per ts.
RunningSum(tier) ==
    LET stamps == UNION {DOMAIN tier[t] : t \in Torrents}
        add(state, ts) ==
            LET at == {t \in Torrents : ts \in DOMAIN tier[t]}
                sum == state.sum + SumOf([t \in at |-> tier[t][ts] - state.of[t]])
            IN [sum |-> sum,
                of |-> [t \in Torrents |-> IF t \in at THEN tier[t][ts] ELSE state.of[t]],
                rows |-> Over(Row(ts, sum), state.rows)]
        after[ts \in {-1} \cup stamps] ==
            IF ts = -1 THEN [sum |-> 0, of |-> [t \in Torrents |-> 0], rows |-> NoRows]
            ELSE add(after[Max({-1} \cup {u \in stamps : u < ts})], ts)
    IN after[Max({-1} \cup stamps)].rows

\* One transaction: the coarse tiers catch up, then each tier's totals are
\* replaced by the sums of its own rows.  The process ends with it.
Rebuild ==
    /\ done # "rebuild"
    /\ samples' = [i \in DOMAIN Tiers |-> [s \in Series |->
           IF s = Total THEN RunningSum([t \in Torrents |-> CaughtUp[t][i]])
                        ELSE CaughtUp[s][i]]]
    /\ last' = Unwritten
    /\ done' = "rebuild"
    /\ UNCHANGED <<clock, counter, gauges, firstSeen, recorded, measured, moved, silence>>

-----------------------------------------------------------------------------
(* Charts: Query, fetchSamples and resampleGrid. *)

\* FirstTS: the truth if it is known, else the earliest row of any tier.
FirstTS(s) ==
    LET stamps == UNION {DOMAIN samples[i][s] : i \in DOMAIN Tiers}
    IN IF s \in Torrents /\ firstSeen[s] > 0 THEN firstSeen[s]
       ELSE IF stamps = {} THEN 0 ELSE Min(stamps)

PickTier(range) == Min({Coarsest} \cup {i \in DOMAIN Tiers : range <= Tiers[i].retain})

\* The rows from the last one at or before a step ahead of the start.
Fetched(rows, start, step) ==
    LET before == {0} \cup {ts \in DOMAIN rows : ts <= start - step}
    IN [ts \in {t \in DOMAIN rows : t >= Max(before)} |-> rows[ts]]

\* Mutant of CumulativeAt: before the first row there is nothing.
CumulativeFromZero(rows, x) ==
    LET upTo == {ts \in DOMAIN rows : ts <= x}
    IN IF upTo = {} THEN 0 ELSE rows[Max(upTo)]

\* cumAt: the last value at or before x, the first one before them all.
CumulativeAt(rows, x) ==
    LET upTo == {ts \in DOMAIN rows : ts <= x}
    IN IF DOMAIN rows = {} THEN 0
       ELSE IF upTo = {} THEN rows[Min(DOMAIN rows)] ELSE rows[Max(upTo)]

\* A slot's rate; a reset or a new baseline is no traffic.
Rate(delta, step) == IF delta < 0 \/ delta > step * MostPerStep THEN 0 ELSE delta \div step

ResampleGrid(rows, start, step) ==
    [ts \in {g \in start..clock : (g - start) % step = 0} |->
        Rate(CumulativeAt(rows, ts) - CumulativeAt(rows, ts - step), step)]

\* The grid is the range's; the rows are the coarsest tier's that has two.
Query(range, s) ==
    LET step == Tiers[PickTier(range)].bucket
        start == IF s \in Torrents THEN Max({clock - range, FirstTS(s)}) ELSE clock - range
        fetched(i) == Fetched(samples[i][s], start, step)
        filled == {i \in Finest..PickTier(range) : Cardinality(DOMAIN fetched(i)) >= 2}
    IN [step |-> step,
        points |-> ResampleGrid(fetched(Max({Finest} \cup filled)), start, step)]

-----------------------------------------------------------------------------

TiersInit ==
    /\ SchemaInit
    /\ clock = 1
    /\ counter = [t \in AtFirst |-> PartDone]
    /\ samples = [i \in DOMAIN Tiers |-> [s \in Series |-> NoRows]]
    /\ gauges = [i \in DOMAIN Tiers |-> NoRows]
    /\ firstSeen = [t \in Torrents |-> 0]
    /\ last = Unwritten
    /\ recorded = [s \in Series |-> NoRows] /\ measured = NoRows
    /\ moved = [t \in Torrents |-> 0]
    /\ silence = 0 /\ done = "nothing"

Start == (Open \/ Migrate \/ Probe) /\ UNCHANGED tierVars

\* The process dies; a file in use is current and opens in one step.
Stop ==
    /\ IF opening = "ready" /\ file.found = "none"
       THEN /\ clock \in StopTimes /\ NoRoundYet /\ done = "nothing"
            /\ last # Unwritten /\ UNCHANGED schemaVars
       ELSE Reopen
    /\ last' = Unwritten /\ done' = "nothing"
    /\ UNCHANGED <<clock, counter, samples, gauges, firstSeen, recorded, measured, moved,
                   silence>>

\* Rows of a former build are rows like any other: time passes for the files
\* that were empty at first.
World ==
    /\ opening = "ready" /\ file.found = "none" /\ UNCHANGED schemaVars
    /\ \/ Tick
       \/ \E t \in Torrents : AddTorrent(t) \/ ResetTorrent(t)

Store ==
    /\ opening = "ready" /\ file.found = "none" /\ UNCHANGED schemaVars
    /\ \/ \E transferring \in SUBSET {t \in Present \cap Movers : moved[t] < MaxMoved} :
              Round(transferring)
       \/ Pass
       \/ Rebuild

TiersNext == Start \/ Stop \/ World \/ Store

TiersSpec == TiersInit /\ [][TiersNext]_allVars

-----------------------------------------------------------------------------
(* Properties. *)

\* After a pass, a coarse tier holds for each bucket of its retention the last
\* value that was ever recorded in it, also if it came in after the previous
\* pass and a silence, and no other rows: nothing is dropped before it was
\* rolled up, nothing is rolled up from half a chain (maintain, rollups).
TiersHoldLastValues ==
    done = "pass" =>
        \A i \in 2..Coarsest, t \in Torrents :
            LET bucket(ts) == Bucket(ts, Tiers[i].bucket)
                kept(b) == b >= clock - Tiers[i].retain
                ever == {ts \in DOMAIN recorded[t] : kept(bucket(ts))}
                held == samples[i][t]
            IN /\ DOMAIN held = {bucket(ts) : ts \in ever}
               /\ \A b \in DOMAIN held :
                      held[b] = recorded[t][Max({ts \in ever : bucket(ts) = b})]

\* What the averages would be if nothing was ever dropped.
WholeAverages(rows) ==
    LET whole[i \in DOMAIN Tiers] ==
            IF i = Finest THEN rows ELSE AveragePerBucket(whole[i - 1], Tiers[i].bucket, 0)
    IN whole

\* After a pass, the gauge row of a bucket that is over is the average of all the
\* rows it ever had, however passes and retention fell (gaugeRollups, the
\* floored cutoff).
GaugesAverageWholeBuckets ==
    done = "pass" =>
        \A i \in 2..Coarsest : \A b \in DOMAIN WholeAverages(measured)[i] :
            (b + Tiers[i].bucket <= clock /\ b >= clock - Tiers[i].retain) =>
                /\ b \in DOMAIN gauges[i]
                /\ gauges[i][b] = WholeAverages(measured)[i][b]

\* A torrent's chart never shows more than the torrent has transferred since it
\* was first seen, whatever its counter was then, however it was reset since,
\* whichever tier is read and whatever retention has left of it (Query,
\* resampleGrid).
NoPhantomTraffic ==
    \A t \in Torrents, range \in Ranges :
        LET chart == Query(range, t)
        IN chart.step * SumOf(chart.points) <= moved[t]

\* A rebuild leaves in every tier the totals a reader would add up: at each ts
\* of a torrent's row the sum over the torrents of their last values until then;
\* and what was recorded last is in it, also if no pass had rolled it up yet
\* (RebuildGlobalFromTorrents).
RebuildIsTheSum ==
    done = "rebuild" =>
        \A i \in DOMAIN Tiers :
            LET tier == samples[i]
                until(t, ts) == {u \in DOMAIN tier[t] : u <= ts}
                stamps == UNION {DOMAIN tier[t] : t \in Torrents}
            IN /\ DOMAIN tier[Total] = stamps
               /\ \A ts \in stamps : tier[Total][ts] =
                     SumOf([t \in {u \in Torrents : until(u, ts) # {}} |->
                                tier[t][Max(until(t, ts))]])
               /\ \A t \in Torrents : DOMAIN recorded[t] # {} =>
                     LET b == Bucket(Max(DOMAIN recorded[t]), Tiers[i].bucket)
                     IN b > clock - Tiers[i].retain =>
                            (b \in DOMAIN tier[t] /\ tier[t][b] = Newest(recorded[t]))
=============================================================================
