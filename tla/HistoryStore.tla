----------------------------- MODULE HistoryStore -----------------------------
(***************************************************************************)
(* The write side of the history database (insight/history/store.go):      *)
(* Sample, called with every poll, and the collection of removed torrents  *)
(* in maintain, on its own goroutine.                                      *)
(*                                                                         *)
(* The pool holds one connection.  Sample keeps it for its transaction, so *)
(* the transaction is one step; maintain takes it for one statement at a   *)
(* time, and so does Sample get between any two of them.  The dedup cache  *)
(* is updated after the commit, when the connection is free again.         *)
(*                                                                         *)
(* Of a series the model keeps the newest value that is stored in any      *)
(* tier: rollups carry it from tier to tier before retention drops it, so  *)
(* it is there until the collection deletes it.  Up and down counters      *)
(* travel together and are one number.  Time is in coarse units; Refresh   *)
(* and Grace keep the order of the code's 60 and 300 seconds.  A round and *)
(* a pass are short against a unit, so the clock moves between them only.  *)
(***************************************************************************)
EXTENDS Integers, Sums

CONSTANTS
    Hashes,         \* torrents
    Global,         \* the series "" of the totals
    Refresh,        \* least time between two refreshes of last_seen
    Grace,          \* seenGrace: how long a removed torrent keeps its history
    Start,          \* the clock at the beginning
    MaxClock,       \* bound: the last instant explored
    MaxCount,       \* bound: the largest counter explored
    MaxStepsBack,   \* bound: backward steps of the wall clock
    MaxRemovals,    \* bound: removals of a torrent
    Faults          \* whether single statements may fail

ASSUME HashesAreSane == IsFiniteSet(Hashes) /\ Global \notin Hashes /\ MaxCount \in Nat
ASSUME TimesAreSane ==
    /\ Refresh \in Nat \ {0} /\ Grace \in Nat /\ Refresh <= Grace
    /\ Start \in Nat /\ Refresh <= Start /\ MaxClock \in Nat /\ Start <= MaxClock

None == -1                      \* no row, no entry, no value
Series == Hashes \cup {Global}

VARIABLES
    \* rtorrent and the wall clock
    present,        \* the torrents it has
    counter,        \* their transfer totals
    clock,
    stepsBack,
    removals,
    \* the database
    rows,           \* per series: newest stored value
    seen,           \* per torrent: seen.last_seen
    lastPoll,       \* meta 'last_poll'
    \* the process
    last,           \* Store.last, the dedup cache
    lastSeen,       \* Store.lastSeen, the refresh throttle (0 at start)
    sampling,       \* Sample: "idle", or "cache" between Commit and the cache
    pending,        \* Sample: the writes of this round
    round,          \* Sample: its ts when it refreshed last_seen, else None
    gc,             \* maintain: next statement
    cut,            \* maintain: last_seen below this is stale
    stale,          \* maintain: the hashes it selected
    \* ghosts
    inRound,        \* torrents in the last committed refresh, or first seen since
    sighted,        \* torrents in the last committed Sample
    untold          \* torrents deleted without the dedup cache being told

world == <<present, counter, clock, stepsBack, removals>>
db == <<rows, seen, lastPoll>>
sample == <<sampling, pending, round>>
maintain == <<gc, cut, stale>>
cache == <<last, lastSeen>>
ghosts == <<inRound, sighted, untold>>
vars == <<world, db, cache, sample, maintain, ghosts>>

Nothing == [s \in Series |-> None]

\* The sum of the counters of some torrents.
Total(counts, torrents) == SumOf([h \in torrents |-> counts[h]])

TypeOK ==
    /\ present \subseteq Hashes
    /\ counter \in [Hashes -> 0..MaxCount]
    /\ clock \in Start..MaxClock /\ stepsBack \in Nat
    /\ rows \in [Series -> Nat \cup {None}]
    /\ seen \in [Hashes -> 0..MaxClock \cup {None}]
    /\ lastPoll \in 0..MaxClock
    /\ last \in [Series -> Nat \cup {None}]
    /\ lastSeen \in 0..MaxClock
    /\ sampling \in {"idle", "cache"}
    /\ pending \in [Series -> Nat \cup {None}]
    /\ round \in 0..MaxClock \cup {None}
    /\ gc \in {"idle", "select", "samples", "seen", "drop"}
    /\ cut \in {0} \cup (1 - Grace)..MaxClock    \* an anchor is positive
    /\ stale \subseteq Hashes
    /\ inRound \subseteq Hashes /\ sighted \subseteq Hashes /\ untold \subseteq Hashes

Init ==
    /\ present \in SUBSET Hashes
    /\ counter = [h \in Hashes |-> 0]
    /\ clock = Start /\ stepsBack = 0 /\ removals = 0
    /\ rows = Nothing
    /\ seen = [h \in Hashes |-> None]
    /\ lastPoll = 0
    /\ last = Nothing /\ lastSeen = 0
    /\ sampling = "idle" /\ pending = Nothing /\ round = None
    /\ gc = "idle" /\ cut = 0 /\ stale = {}
    /\ inRound = {} /\ sighted = {} /\ untold = {}

-----------------------------------------------------------------------------
(* rtorrent and the clock. *)

Between == sampling = "idle" /\ gc = "idle"

Tick ==
    /\ Between
    /\ clock < MaxClock
    /\ clock' = clock + 1
    /\ UNCHANGED <<present, counter, stepsBack, removals, db, cache, sample, maintain, ghosts>>

StepBack(t) ==
    /\ Between
    /\ stepsBack < MaxStepsBack
    /\ t < clock
    /\ clock' = t
    /\ stepsBack' = stepsBack + 1
    /\ UNCHANGED <<present, counter, removals, db, cache, sample, maintain, ghosts>>

Transfer(h) ==
    /\ h \in present
    /\ counter[h] < MaxCount
    /\ counter' = [counter EXCEPT ![h] = @ + 1]
    /\ UNCHANGED <<present, clock, stepsBack, removals, db, cache, sample, maintain, ghosts>>

\* A torrent is added; one that comes back resumes its totals or begins anew.
Add(h, total) ==
    /\ h \notin present
    /\ total \in {0, counter[h]}
    /\ present' = present \cup {h}
    /\ counter' = [counter EXCEPT ![h] = total]
    /\ UNCHANGED <<clock, stepsBack, removals, db, cache, sample, maintain, ghosts>>

RemoveTorrent(h) ==
    /\ h \in present
    /\ removals < MaxRemovals
    /\ removals' = removals + 1
    /\ present' = present \ {h}
    /\ UNCHANGED <<counter, clock, stepsBack, db, cache, sample, maintain, ghosts>>

-----------------------------------------------------------------------------
(* Sample. *)

\* The values of a round: each present torrent, and their sum.
Value(s) == IF s = Global THEN Total(counter, present) ELSE counter[s]

\* The transaction: the rows of the series whose value the dedup cache does not
\* have, a seen row for a torrent that has none, and at most once per Refresh
\* the present torrents' last_seen with meta last_poll.  Each statement fails on
\* its own: unwritten are the series whose row, unsighted the torrents whose
\* first seen row, stuck those whose last_seen is not written.  An update that
\* fails keeps the round from counting as a refresh and last_poll from being
\* written; one that finds no row succeeds.  Failures that change nothing are left
\* out, of Begin and Commit, of rows that are there, of statements not reached.
SampleTx(unwritten, unsighted, stuck, metaFails) ==
    LET due == clock - lastSeen >= Refresh
        news == {s \in present \cup {Global} : last[s] # Value(s)}
        written == news \ unwritten
        unseen == {h \in present : seen[h] = None}
        sown == unseen \ unsighted
        touched == sown \cup {h \in (present \ unseen) \ stuck : due}
        refreshed == due /\ stuck = {} /\ ~metaFails
    IN  /\ sampling = "idle"
        /\ unwritten \subseteq news /\ unsighted \subseteq unseen
        /\ stuck # {} => due /\ stuck \subseteq present
        /\ metaFails => due /\ stuck = {}
        /\ rows' = [s \in Series |-> IF s \in written THEN Value(s) ELSE rows[s]]
        /\ seen' = [h \in Hashes |-> IF h \in touched THEN clock ELSE seen[h]]
        /\ lastPoll' = IF refreshed THEN clock ELSE lastPoll
        /\ pending' = [s \in Series |-> IF s \in written THEN Value(s) ELSE None]
        /\ round' = IF refreshed THEN clock ELSE None
        /\ sampling' = "cache"
        /\ inRound' = IF refreshed THEN present ELSE inRound \cup sown
        /\ sighted' = present
        /\ UNCHANGED <<world, cache, maintain, untold>>

\* Mutant of SampleCache: every round counts for the throttle.
SampleCacheAnyRound ==
    /\ sampling = "cache"
    /\ last' = [s \in Series |-> IF pending[s] = None THEN last[s] ELSE pending[s]]
    /\ lastSeen' = clock
    /\ sampling' = "idle" /\ pending' = Nothing /\ round' = None
    /\ untold' = {h \in untold : last'[h] \notin {rows[h], None}}
    /\ UNCHANGED <<world, db, maintain, inRound, sighted>>

\* After Commit: the cache, and the throttle, take over what is durable.
SampleCache ==
    /\ sampling = "cache"
    /\ last' = [s \in Series |-> IF pending[s] = None THEN last[s] ELSE pending[s]]
    /\ lastSeen' = IF round = None THEN lastSeen ELSE round
    /\ sampling' = "idle" /\ pending' = Nothing /\ round' = None
    /\ untold' = {h \in untold : last'[h] \notin {rows[h], None}}
    /\ UNCHANGED <<world, db, maintain, inRound, sighted>>

-----------------------------------------------------------------------------
(* maintain: the collection of removed torrents. *)

IsStale(h) == seen[h] # None /\ seen[h] < cut

\* A statement may fail; its error is ignored and the pass goes on.
May(outcome) == outcome = "ok" \/ Faults

\* Mutant of ReadAnchor: the wall clock as the anchor.
ReadWallClock ==
    /\ gc = "idle"
    /\ lastPoll > 0
    /\ cut' = clock - Grace
    /\ gc' = "select"
    /\ UNCHANGED <<world, db, cache, sample, stale, ghosts>>

\* The anchor is the last committed refresh, clamped to the clock; without one
\* nothing is collected.
ReadAnchor ==
    /\ gc = "idle"
    /\ lastPoll > 0
    /\ cut' = (IF lastPoll > clock THEN clock ELSE lastPoll) - Grace
    /\ gc' = "select"
    /\ UNCHANGED <<world, db, cache, sample, stale, ghosts>>

SelectStale(outcome) ==
    /\ gc = "select" /\ May(outcome)
    /\ stale' = IF outcome = "ok" THEN {h \in Hashes : IsStale(h)} ELSE {}
    /\ gc' = "samples"
    /\ UNCHANGED <<world, db, cache, sample, cut, ghosts>>

\* The condition is evaluated again by the statement.
DeleteSamples(outcome) ==
    /\ gc = "samples" /\ May(outcome)
    /\ LET gone == IF outcome = "ok" THEN {h \in Hashes : IsStale(h)} ELSE {}
       IN  /\ rows' = [s \in Series |-> IF s \in gone THEN None ELSE rows[s]]
           /\ untold' = untold \cup {h \in gone : pending[h] # None \/ h \notin stale}
    /\ gc' = "seen"
    /\ UNCHANGED <<world, seen, lastPoll, cache, sample, cut, stale, inRound, sighted>>

DeleteSeen(outcome) ==
    /\ gc = "seen" /\ May(outcome)
    /\ LET gone == IF outcome = "ok" THEN {h \in Hashes : IsStale(h)} ELSE {}
       IN  /\ seen' = [h \in Hashes |-> IF h \in gone THEN None ELSE seen[h]]
           /\ inRound' = inRound \ gone
    /\ gc' = "drop"
    /\ UNCHANGED <<world, rows, lastPoll, cache, sample, cut, stale, sighted, untold>>

\* Mutant of DropCache: the dedup cache is not told.
KeepCache ==
    /\ gc = "drop"
    /\ gc' = "idle" /\ cut' = 0 /\ stale' = {}
    /\ UNCHANGED <<world, db, cache, sample, ghosts>>

\* Under lastMu: the selected hashes leave the dedup cache.
DropCache ==
    /\ gc = "drop"
    /\ last' = [s \in Series |-> IF s \in stale THEN None ELSE last[s]]
    /\ gc' = "idle" /\ cut' = 0 /\ stale' = {}
    /\ UNCHANGED <<world, db, lastSeen, sample, ghosts>>

-----------------------------------------------------------------------------
\* The process dies and starts again: the database stays, memory does not.
Restart ==
    /\ last' = Nothing /\ lastSeen' = 0
    /\ sampling' = "idle" /\ pending' = Nothing /\ round' = None
    /\ gc' = "idle" /\ cut' = 0 /\ stale' = {}
    /\ untold' = {}
    /\ UNCHANGED <<world, db, inRound, sighted>>

Outcomes == {"ok", "fails"}

Next ==
    \/ Tick
    \/ \E t \in Start..MaxClock : StepBack(t)
    \/ \E h \in Hashes : Transfer(h) \/ RemoveTorrent(h) \/ \E total \in 0..MaxCount : Add(h, total)
    \/ SampleTx({}, {}, {}, FALSE)
    \/ \E unwritten \in SUBSET Series, unsighted, stuck \in SUBSET Hashes, metaFails \in BOOLEAN :
           Faults /\ SampleTx(unwritten, unsighted, stuck, metaFails)
    \/ SampleCache
    \/ ReadAnchor
    \/ \E o \in Outcomes : SelectStale(o) \/ DeleteSamples(o) \/ DeleteSeen(o)
    \/ DropCache
    \/ Restart

Spec == Init /\ [][Next]_vars

-----------------------------------------------------------------------------
(* Properties. *)

\* The dedup cache claims only what the database has: a value it holds is the
\* stored one, but while a round is on its way into the cache, while a pass has
\* deleted rows and not yet dropped its hashes, and for a deletion the cache was
\* never told of.  A false claim suppresses the row the next poll should write.
CacheMirrorsRows ==
    \A s \in Series :
        last[s] \in {None, rows[s]} \/ pending[s] # None
            \/ s \in untold \/ (gc \in {"seen", "drop"} /\ s \in stale)

\* The refresh throttle counts only rounds that are durable: a failed round is
\* tried again with the next poll instead of a minute later.
ThrottleMirrorsRefresh == round = None => lastSeen \in {0, lastPoll}

\* What the process keeps in memory never runs ahead of the database, whichever
\* statement fails and however a round, a pass and a restart overlap.
MemoryMirrorsStore == CacheMirrorsRows /\ ThrottleMirrorsRefresh

\* While the clock runs forward, a torrent that was in the last refresh that
\* committed, or was first seen after it, keeps its history, whatever fails,
\* restarts or overlaps; and the totals are never collected.
RefreshedHistoryKept ==
    [][\A s \in Series :
          (rows[s] # None /\ rows'[s] = None) => s \in Hashes \ inRound \/ stepsBack > 0]_vars

Deleted(h) == rows[h] # None /\ rows'[h] = None

\* store.go on the collection: "Every present torrent's last_seen equals the
\* same last_poll (the refresh updates them in one round), so live history
\* can't be wiped by an outage, a write-failure era (ENOSPC), or the 60s
\* refresh-throttle lag".
LiveHistoryKept == [][\A h \in Hashes : Deleted(h) => h \notin present \cap sighted]_vars

=============================================================================
