# rtorrent-webui in TLA+

A verification project for rtorrent-webui: TLA+ modules that model its core, TLC
runs that check them on small instances, and TLAPS proofs of the theorems that
hold for every instance. `PROJECT.json` maps every definition to the lines it
models and lists the hazards the properties are for.

    tlc -config LiveFeed.cfg MCLiveFeed.tla      # model-check one run
    tlapm PollCadenceProofs.tla                  # check the proofs of a module

## 1. The system

rtorrent-webui is one Go process between an rtorrent daemon (JSON-RPC over SCGI)
and any number of browser tabs (a Svelte application). One goroutine polls the
daemon and publishes what it finds to a hub; each tab's event stream drains a
buffered channel of the hub; the tab reconciles a table of torrents. Everything
else is request and response, and a SQLite database of transfer history that the
poll loop feeds.

    rtorrent <-SCGI- scgi.Client <- rpc.Client <- poll.Poller -> sse.Hub -> handleEvents -> tab
                                        ^            |  sink
                              api handlers           +--> history.Store (SQLite), system gauges

| Component | State | Operations | What is hard | What makes it correct |
|---|---|---|---|---|
| Poll loop and cadence (`poll/poller.go`, `sse/hub.go`) | registered streams, `active`, `wake`, `done`, the armed timer | Subscribe, Unsubscribe, SetActive, Start, Stop, run | callbacks under the hub's lock against the loop's select; a nudge that may be dropped | cadence follows demand; no lost wake-up; a joining tab gets a fresh poll |
| Live feed (`poller.tick`, `sse/hub.go`, `api/server.go handleEvents`, `lib/sse-driver.ts`) | `prev`, `seq`, health, cached snapshot and status, a channel of 16 per stream, the tab's table | tick, Broadcast, Subscribe, the handler's select, open, close, dispatch | joining in the middle of a tick; a full channel; a killed stream that goes on draining | the table is always a published list; nothing is missing behind it; a thrown-out tab catches up |
| Delta encoding (`model/torrent.go`, `stores/torrents.svelte.ts`) | none | DiffFrom, upserts, removals, apply | diffs applied twice or to the wrong base | a delta between two lists turns the first into the second |
| Browser stream driver (`lib/sse-driver.ts`, `lib/stale.ts`, `stores/lifecycle.svelte.ts`) | EventSource, generation, three timers, backoff, visibility, staleness gauge, health | signals show / hide / terminate, listeners, timers, start, stop | timers and events of a connection that was replaced; resume floods; silence | its nine documented invariants; a visible tab gets back to live |
| Tracker host cache (`rpc/torrents.go enrichTrackers`, `rpc/detail.go SetTrackerEnabled`) | host or in-flight marker per torrent | enrich (two critical sections around an RPC), invalidate | an answer older than the invalidation; pruning by another poll | never a stale host for good; never an orphaned marker |
| History: sampling and collection (`insight/history/store.go`) | tables `samples`, `seen`, `meta`; dedup cache, refresh throttle | Sample, the collection in maintain, restart | two goroutines on one connection; failing statements; restarts; clock steps | memory claims only what is stored; refreshed history is never collected |
| History: tiers and queries (same file) | `samples` and `metrics` per tier | Record, rollup, retention, Query, QueryPayload, RebuildGlobal | windows of re-rolling against retention; alignment; resets, joins and gaps in a chart | tiers hold last values; averages are of whole buckets; charts invent no traffic; a rebuild is the sum |
| History: migrations (same file) | schema version, the tables found | New, migrate, legacySamples | files of any build, foreign tables, a crash between two steps | a file has what its version says; an upgrade loses the legacy rate table and the totals' recent rows, and nothing else |
| SCGI client (`scgi/client.go`, `frame.go`) | semaphore, dial budget, deadlines, the watcher | Do, dial, parseResponse | cancellation at each point; a daemon that restarts or hangs | slots are returned; errors name their cause; every call ends; a reply shorter than it declares is refused |
| JSON-RPC client (`rpc/client.go`, `torrents.go`, `detail.go`) | none | Batch, Poll, the detail lists | replies out of order, missing, failed one by one | a reply goes to its request; a failed item is never a zero; indices address what they came from |
| Removing torrents and data (`api/actions.go`, `pathsafe.go`, `server.go osDeleter`) | per request; the removals at work | erase, validate, unlink, watchdog | order of erase and unlink; links; a removal that outlives its request | nothing outside the roots is deleted; the answer tells what was done |
| Directory browser (`api/fs.go`) | none | list | containment, entry caps, slow directories | as above, read-only |
| Guards and pass-through (`api/guard.go`, `middleware.go`, `rpc_*.go`, `config/*.go`) | allow and deny sets | decide on a request | precedence of the lists, order of the guards | what is refused has no effect; deny wins |
| Detail panel (`stores/detail.svelte.ts`, `RowDetail.svelte`, `lib/poll.svelte.ts`) | open hash, tab, data, busy, refresh number | open, setTab, load, refresh, mutate | answers for a torrent or tab that is no longer open; overtaking | refreshes keep their place and order; an open panel catches up |
| Remove dialog, polling widgets, presentation, gauges, configuration, synthetic sources, tools | | | | see section 7 |

How they interact: the loop calls the hub synchronously (`SetSnapshot`,
`SetStatus`, `Broadcast`) and the history store through its sink; the hub calls the
loop back (`OnActivity`) under its own lock; handlers share the hub's state, the
tracker cache and the SCGI semaphore; the history store's two goroutines share one
database connection and the dedup cache; browser and server share nothing but the
stream and requests.

## 2. Modules

| Module | What it models | Proofs |
|---|---|---|
| `PollCadence` | Hub callbacks, SetActive, the nudge and the loop's select. Locks are modelled: a callback is a multi-step operation that holds the hub's lock. | `PollCadenceProofs` |
| `TorrentDiff` | The delta between two lists, and the browser's reconciliation, as operators over functions from hashes to rows. | `LiveFeedProofs` |
| `LiveFeed` | One poll's way to one tab: poller x hub x handlers x connections x tab. Extends `TorrentDiff`. | `LiveFeedProofs` |
| `LiveFeedProps` | The properties of `LiveFeed`, and `INSTANCE Mirror` with the refinement mapping. | `LiveFeedProofs` |
| `Mirror` | The abstract promise of the feed: a tab's table follows the published log entry by entry. | |
| `TrackerCache` | Polls in flight, toggles, torrents that come and go, and the cache between them. | `RpcProofs` |
| `SseDriver` | The browser's end of the stream: page signals, EventSource events, three timers, backoff, staleness gauge, health. | `BrowserProofs` |
| `HistoryStore` | Sample against the collection of removed torrents, with restarts, failing statements and clock steps. | `HistoryStoreProofs` |
| `HistorySchema` | Opening a database of any build: version walk, legacy tables, crash between migrations, a table that is somebody else's, refusal of a newer file. | `HistoryTiersProofs` |
| `HistoryTiers` | What becomes of a recorded value: tiers, rollups, retention, charts, rebuild. Extends `HistorySchema`. | `HistoryTiersProofs` |
| `ScgiClient` | One request to the daemon per caller: slot, dial, backoff, exchange, watcher, framing. | `RpcProofs` |
| `RpcReply` | What is made of a reply: batches, the torrent list and its status, the lists of the panel. Operators only. | `RpcProofs` |
| `RpcClient` | `ScgiClient` and `RpcReply` composed, with a daemon that answers any way it may. | `RpcProofs` |
| `PathSafe` | The delete gate and the browse gate over a file system with symbolic links. Operators only. | `ApiRequestsProofs` |
| `Guards` | Origin, host, credentials, router, method lists and switches. Operators only. | `ApiRequestsProofs` |
| `ApiRequests` | All JSON requests: guards, commands one after the other, answers, removal with its watchdog, listing with its deadline. Extends `PathSafe` and `Guards`. | `ApiRequestsProofs` |
| `DetailPanel` | The panel's loads, refreshes, mutations, and answers in any order. | `BrowserProofs` |
| `Sums` | The sum of a function's values, which `HistoryStore` and `HistoryTiers` total torrents with. | `Induction` |
| `Induction` | Lemmas only: induction over natural numbers and finite sets, functions defined along an interval, sums. | itself |
| `MC*` | Constants for TLC. | |

Operators named `...Always`, `...Silently`, `...Unlocked` and so on, marked "Mutant
of", are plausible bugs; each property is broken by at least one of them (the list
is in `PROJECT.json`), which shows that it says something about the code.

### Correspondence

*PollCadence.* `subs` is `Hub.subs`; `callback[c]` is the position of c's
Subscribe or Unsubscribe while it holds `h.mu` (so `HubFree` is "the lock is
free"); `active`, `wake`, `done` are the poller's fields; `loop` is the program
counter of `run`/`tick`; `armed` is the duration `time.After` got. SetActive's
section under `p.mu` and its send on `wake` are two steps. Time is not modelled,
only which timer is armed. `owed` is a ghost: streams that are entitled to a poll.

*LiveFeed.* `published` is the log of lists the poller has published, so `seq` is
its length and `prev` its last entry. A tick is SetStatus / CastStatus (only on a
health transition), SetSnapshot, CastTick: four critical sections of the hub between which
streams join and leave. `chan`, `killed`, `latestSnap`, `latestStatus` are the
hub's; `wire` is what a handler has written and the tab not dispatched. `Close`
stands for every reason the driver has to close (hidden, frozen, stale, broken).
Broadcast visits the streams in one step although the code lets handlers run
between two visits: what it does to a stream depends on that stream alone.

*TrackerCache.* A flight is a call of `Poll`; `Park` and `Commit` are the two
sections under `trackerMu`, `Fetch` the round trip between them. A toggle is two
steps, the daemon's and the client's; `ToggleFails` is a lost reply.

*SseDriver.* Variables carry the names of the code's (`es` is the EventSource's
readyState, `conn` the ConnState, `timers` the set of timers that are pending).
Every listener, signal and timer callback is one JavaScript task and one action.
Timers are untimed: once armed they may fire at any time, which covers throttled and
sleeping tabs. What the driver compares with thresholds is measured: ages of
messages, connection and last message, in ticks that saturate beyond the last
comparison (`AgeCap`). A closed EventSource dispatches nothing, so `closeES` empties
`inbox`; the generation counter, which insures just that, has no variable. The
browser may repeat a visibility signal once per change (`echo`), as it does on
resume and on leaving a page.

*HistoryStore.* `rows` is the newest stored value of a series, `seen` and
`lastPoll` the tables of the same name, `last` and `lastSeen` the memory. Sample is
`SampleTx` (up to and including the commit) and `SampleCache` (the deferred update
after it), and each of its statements may fail by itself; the collection is four steps with an ignored error each.

*HistorySchema, HistoryTiers.* `file` is what a database holds, as far as migrations
look at it: which columns `samples` has, and whether the recent rows of the totals and the other rows that
were found are still there; `samples[i][s]` and `gauges[i]` are the rows of a tier, values by
timestamp. An instant at which no round is recorded is one the process was down for.
A pass of maintain is one step: rows that arrive between its statements are no older
than the pass and are left to the next one. `recorded`, `measured` and `moved` are
ghosts: all that was ever stored, and what was really transferred. Charts are
operators (`Query`, `ResampleGrid`, `Rate`) that the invariants evaluate in
every state rather than actions, since a query changes nothing.

*ScgiClient, RpcReply, RpcClient.* A reply is a frame: whether its headers ended,
whether they declare a well-formed length, and how much of the body came. `call[c].at` is where `Do` stands: waiting for a slot,
dialing, pausing, exchanging. `watcher` is the goroutine that yanks the connection's
deadline when the context ends. Timers count down in ticks and may be noticed late.
`RpcReply` reads a reply as the code does, fields by position and items by id;
`answer` in `RpcClient` keeps the call that has just returned, what was asked and
what was got, against the truth the daemon told. A body that was cut does not decode (`Decodes`).

*PathSafe, Guards, ApiRequests.* A path is a sequence of names; `Target` and
`Visited` say where a path leads and what is passed on the way, so a link is a path
whose target is another one. The file system `tree` only shrinks. A request is a slot: the guards and
gates decide in `Handle`, each command is a step of the daemon (`wire`, `executed`,
`reply`), a removal unlinks path by path in a goroutine of its own (`removers`)
that goes on when its request has been answered. `GiveUp` is the end of the
request's context, `Watchdog` that of the removal's.

*DetailPanel.* A request that is out is a `flight`; the server reads when it is
served, the browser applies when it arrives. `refreshSeq` is compared only with the
latest, so a flight keeps whether it is the latest. What a tab holds is a torrent
and a version of its state.

## 3. Runs

| Run | Instance | What it shows |
|---|---|---|
| `poll_cadence` | 3 streams | `CadenceMatchesDemand`, `NoLostNudge`, `FreshPollForEveryStream`, `StopEndsLoop`. Three streams are the first number where one is inside a callback, one waits for the lock and one is connected. |
| `live_feed` | 1 connection at a time, 4 lists of 2 torrents x 2 fields, 3 polls, channel of 4 | `MirrorFaithful`, `NothingMissing`, `HealthKnown`, and `FeedIsMirror`: the feed implements `Mirror`. The lists differ by an arrival, a departure and changes of either field; the channel overflows. |
| `live_feed_live` | 2 connections, channel of 1, 2 polls | `NeverBackwards` with an abandoned connection still served; `Converges`. |
| `tracker_cache` | 1 torrent, 2 hosts, 2 polls, 2 toggles | `CacheFresh`, `MarkersOwned`, `EveryTorrentResolved`. Torrents do not interact; more of them are covered by the proof. |
| `history_store` | 1 torrent and the totals, Refresh 2, Grace 2, clock from 2 to 5, one clock step, one removal, any statement may fail | `MemoryMirrorsStore` (`CacheMirrorsRows` and `ThrottleMirrorsRefresh`), `RefreshedHistoryKept`. The grace (300 s for refreshes of 60 s in the code) is as short as a refresh, so that as much as possible is collected; the clock range lets a torrent be sampled, removed, outlive its grace and be sampled again. The proofs cover every Refresh and Grace. |
| `history_readd` | violation: the same with Grace 3, clock to 8, no clock step, no fault | see findings |
| `sse_driver` | tolerance 1, first-message rule 2, cached frames up to 1 old, 2 queued events, backoff 1 to 3 | `TimersMatchState`, `NobodyIsForgotten`, `HealthIsOfThisStream`, `BackoffMatchesFailures`, `BacklogIsBounded`, `VisibleReconnects`, `HiddenLetsGo`. A tick is 15 s, so the thresholds keep the code's proportions; two events are the first queue with a backlog behind a stale message; the ceiling of 3 is, like the code's 30 s, not a power of two times the minimum. |
| `rpc_client` | 2 callers, 1 slot, connect budget 3, read timeout 2, pauses of 1 and 2, deadlines 1 and none, lists of up to 3 rows | `SlotsAccounted`, `ReasonIsHonest`, `CutRepliesRefused`, `PollAllOrNothing`, `ListsAddressTheirItems`, `CancelFreesSlot`, `EveryCallEnds`. One slot makes the second caller wait; the budget runs out in a pause as well as in a dial; three rows let a hidden one lie between two that are kept. Replies come with and without a declared length, cut or whole. |
| `history_tiers` | 3 tiers with buckets 1, 2, 4 and retentions 4, 6, 8; 2 torrents, one there first and moving, one added part-done at 3; the process may die at 2, 4, 5; at most 2 instants without a pass; ranges 4, 6, 8; clock to 7 | `UpgradeIsSafe` over files of every build, `TiersHoldLastValues`, `GaugesAverageWholeBuckets`, `NoPhantomTraffic`, `RebuildIsTheSum`. By 7 the finest tier has dropped rows that the others keep, a bucket of every tier has been completed and one is partial; the coarsest tier drops nothing yet, which is left to the proofs. |
| `api_requests` | 2 requests of any route, 4 configurations (plain, strict, all off, mock), a tree with 6 directories, 2 files and 6 links, caps 2 and 5 | `StaysInsideTheRoots`, `AnswersAreTrue`, `GuardsHold`, `EveryRequestIsAnswered`. Links lead inside, outside, to the root and to themselves; one root is a link, one does not exist, one is `/` and one lies within another; the rival request erases data within, or the same, or adds. |
| `detail_panel` | 2 torrents, 2 tabs, 3 requests out, 3 acts of the user, 1 change per torrent | `RefreshesKeepTheirPlace`, `PanelCatchesUp`. Three requests are a load, a refresh that supersedes a refresh, and a mutation. With three acts a mutation that ends after the panel was closed or its tab left is out of reach, and the panel alone changes the torrents. |
| `detail_panel_stale` | violation: the same | see findings |

Bounds are constants of the modules (`MaxPolls`, `MaxCached`, `InboxCap`, `MaxFails`, `MaxClock`,
`MaxCount`, `MaxStepsBack`, `MaxRemovals`, `MaxMoved`, `JoinTimes`, `StopTimes`, `MaxSilence`,
`MaxVersion`, `MaxActs`, `Worlds`, `BufCap`, `WireCap`); each is a guard of the action
that would exceed it and commented where it is declared. The runs of
`history_tiers`, `api_requests` and `detail_panel` do not check deadlock: time is up
at `MaxClock`, every request may have been answered, the user may have closed the panel for good.

### Fairness

Goroutines that can run do run, and select statements choose uniformly among
ready cases. So: weak fairness on the steps of a goroutine once it has work;
strong fairness where a case competes with others in a select (`SeeDone`,
`SeeKilled`) or a mutex is contended (`PublishPoll`: a Go mutex hands itself over
to a waiter that starves); a bounded context ends every poll. In the browser what is
queued is dispatched and a pending timer fires; `VisibleReconnects` alone assumes
that connecting succeeds now and then. Nothing is assumed of page signals, of tabs, of
the daemon, of toggles, of the idle timer, or of polls succeeding;
`EveryTorrentResolved` alone assumes that a daemon which is asked for ever answers in
full now and then.

* `RpcClient`: the steps of `Do` and of its watcher, and a context's timer, are
  weakly fair; `EveryCallEnds` also assumes that time passes. Nothing is assumed of
  the daemon, which may hang or stay away for ever.
* `ApiRequests`: a handler's next step is weakly fair, the end of its context among them. The
  daemon, and a removal at work, may take for ever.
* `DetailPanel`: the interval, the server and arrivals are weakly fair. `PanelCatchesUp` also
  needs that now and then a refresh is answered before the next one leaves (strong fairness):
  the code discards a refresh that was superseded, so a server that always takes
  longer than three seconds starves the panel. `latestOnly` has the same property.

## 4. Findings

Two runs show the code at odds with what a comment says of it:

* *History of a torrent that comes back* (`history_readd`). Between its first sample
  and the next throttled refresh its `last_seen` is that of its former life, and a
  pass of the collection in between deletes its history.
* *A late load* (`detail_panel_stale`). A comment says that detail.open()'s load is
  guarded; `load` looks neither at `refreshSeq` nor at `activeHash`, so the answer for
  a torrent that was open before replaces the pieces of the one that is.

The rest are behaviours of the code that the models contain and the properties name
as exceptions, or that their assumptions exclude:

* Live feed. When a channel is full Broadcast drops the message and kills the stream,
  but the handler's select may go on draining the channel, so a later delta follows
  the dropped one on the same connection, which `lib/sse-driver.ts` calls impossible. The tab shows wrong
  rows until the handler sees `Closed()` (`Converges`). `HealthKnown` needs a channel
  of two at least (the code has 16): with one the replayed status would be dropped.
* Tracker cache. A toggle whose reply is lost changes the daemon and not the cache;
  `CacheFresh` names it.
* Stream driver. Throwing away a backlog replaces the stream without announcing
  `connecting`, so for a while `live` is shown over a connecting stream. Hiding
  clears the silence watchdog, but a datum that arrives during the grace arms it
  again, so it may be pending while the tab is hidden.
* History store. After a backward step of the clock the refresh throttle waits for
  the clock to catch up and the collection does not, hence `stepsBack` in
  `RefreshedHistoryKept`. The collection is not one transaction: a pass between a round's commit and
  its cache update leaves the cache claiming deleted rows until the value changes (the ghost `untold`,
  which `MemoryMirrorsStore` excepts), and a round between the two deletions can leave samples without a seen row.
* History tiers. Downtime longer than a rollup window loses rows that were not rolled
  up (store.go 70-77 says windows only bound work); so would a failing rollup, whose error
  is ignored while retention still deletes. A gauge's last average freezes when downtime cuts
  its bucket. A part-done torrent's jump in the totals is clamped only when it is more than 16 GiB
  per second of the grid's step, though 383-384 says add jumps clamp at query time. Rebuild omits
  idle torrents whose rows have left a tier. `NoPhantomTraffic` and `RebuildIsTheSum` are stated
  with these exceptions.
* Migrations. The fourth deletes the raw and minute rows of the totals from every older file
  (store.go 178-191), which its comment calls harmless. A file with somebody else's `samples` table is
  refused by the second or the fourth migration only, when those before it have already added tables and
  raised its version; the table itself loses no row. A table with `res`, `hash` and `ts` but other
  counters is taken for the store's own: the write probe writes to `meta` alone.
* SCGI framing. A reply whose Content-Length is missing or malformed may be cut in its body and
  passes `parseResponse` (frame.go 53, as frame_test.go 48 has it). `Call` and `Batch` then fail to decode it, but
  `Forward` hands it to the client of the proxy as a success. `CutRepliesRefused` names it.
* Removal. A root that lies within another one may be deleted as a whole, contrary to
  pathsafe.go 32-34: neither the configuration nor the gate keeps roots apart. `StaysInsideTheRoots`
  therefore says that what is removed lies strictly within some root. The removal looks at the path once
  more only through its gate; the file system is otherwise assumed not to change under it, as
  pathsafe.go 18-21 says. Torrents that share a base path lose each other's
  data. A base path that is itself a link has its target removed. Once the erase has committed, a
  failed removal is reported as such and cannot be retried (actions.go 203-206).
* Directory browser. The symbolic links of the removal's path are resolved outside
  any deadline. A listing says truncated also when exactly as many directories exist as the cap
  allows. A root that leads to `/` is offered and not listed.
* Actions. A Start between Pause's two commands leaves a torrent closed with its
  state started. A fault of the daemon passes through the proxy as a success.
* Detail panel. Files and trackers are not cleared when another torrent is opened, so
  the former rows can be clicked until the load answers; a refresh read before a mutation may show the
  former value until the next one.

## 5. Proofs

Checked by tlapm 1.4.5, for every value of the constants that satisfies the
assumptions named in the modules that declare them. TLC evaluates each assumption
in the runs.

* `PollCadenceProofs`: `TypeCorrect`, `CadenceCorrect`, `NudgeNeverLost`. The
  inductive invariant adds to the properties that at most one stream is inside a callback
  (the lock), that the callback's kind agrees with `subs` and `active`, and that a
  nudge in flight belongs to a poller that has gone live. `CadenceMatchesDemand`
  alone is not inductive: it says nothing while the lock is held.
* `LiveFeedProofs`: `TypeCorrect`, `MirrorAlwaysFaithful`, `NothingEverMissing`,
  `NeverGoesBackwards`, `HealthAlwaysKnown` and `FeedImplementsMirror` (the refinement of
  `Mirror`). The argument is a pipeline: the messages on the wire and in the channel of a connection in
  good standing form a trail from the list on display to the newest one, in which each delta
  applies to what its predecessor leaves (`Trailing`), so the properties, which speak of
  the two ends, follow from `DeltaIsLossless` and its companions. The inductive invariant adds what the
  critical sections of a tick guarantee to a stream that joins between them (`Ordered`) and
  what the tab shows (`Shown`). Health has an invariant of its own (`Announced`, `Informed`).
  Assumptions: `NoConnIsNone`, `PolledAreLists`, `CapsAssumption`, `BlankRowIsRow`;
  `HealthAlwaysKnown` also needs `BufCap >= 2`. The module begins with the lemmas about
  `TorrentDiff`'s operators: `DeltaIsLossless`, `DuplicateDeltaIsHarmless`, `SnapshotReplaces`.
* `BrowserProofs`, the driver: `TypeCorrect`, `TimersAlwaysMatch`, `NobodyEverForgotten`,
  `HealthAlwaysOfThisStream`, `BacklogAlwaysBounded`, `BackoffAlwaysMatches`. The first two properties are
  inductive together, once only a stream has queued events. `BacklogIsBounded` needs
  that queued messages are no older than connection and cache together until
  the first one is judged, which bounds the gauge's baseline. The backoff is `Delay`, a
  function that doubles from value to value: that it grows is an induction along the
  number of failures. Assumptions: `DriverAssumption`, and `FailsReachCeiling`, that the
  failures explored reach the ceiling of 30 s, after which the delay stays.
* `BrowserProofs`, the panel: `PanelTypeCorrect`, `RefreshesAlwaysKeepTheirPlace`, for any
  torrents, tabs and number of requests out. The invariant is about the latest refresh: there is
  at most one, it is of a torrent (`OneLatest`), and what it was told is no older than what an
  earlier refresh has shown in its place (`LatestIsNewest`). Assumption: `PanelAssumption`.
* `HistoryStoreProofs`: `TypeCorrect`, `MemoryAlwaysMirrors`, `RefreshedAlwaysKept`. Two
  facts make the properties inductive: a round's values are in the database until a pass
  deletes them, which is then noted (`RoundIsStored`), and, while the clock has only run forward, what
  is exempt from collection has no seen row yet or was seen at the anchor or later, and no pass works with a later
  anchor (`AnchorInOrder`). That the totals are counts follows from
  `SumOfNaturals`. Assumptions: `TimesAreSane`, `HashesAreSane`.
* `HistoryTiersProofs`: what a store's files, tiers and charts hold, for every chain of
  tiers, any torrents and any time.
  * `UpgradesAreSafe`: a file is always one that the migrations up to its version
    make (`Walked`), whichever of them a crash cuts short. Of the rows that were found, the first migration
    drops those of the rate table and the fourth the recent ones of the totals; the theorem says that no other
    is ever lost.
  * `LastValuesAreKept`, `AveragesAreOfWholeBuckets`: the properties speak of the moment after a pass and
    are not inductive. The invariant (`TiersInv`) names the instant q of the last pass: the finest tier has
    every row recorded since q less its retention, each coarse one exactly the last values
    (`HoldsLast`) or whole averages (`HoldsWhole`) of the buckets it keeps at q. A pass
    carries that to the present, tier by tier: in the middle of it a tier has caught up
    (`CaughtUpTo`) before the drop makes it exact again. This is where windows
    and retentions have to fit.
  * `ChartsInventNothing`: every row of a tier is a recorded one of its bucket
    (`HasSources`), and a torrent has a meter (`Metered`) that tells at each recorded row how much had been
    transferred by then: no counter rises by more than the meter does, whatever resets and
    part-done arrivals lie between. A slot of a chart shows no more than the meter rose over it, and
    slots do not overlap (`SlotsAddUp`).
  * `RebuildAddsUp`: the running sum equals the sum of the torrents' latest values at every
    instant of a tier (`RunningSumIs`), since between neighbouring instants only the torrents
    with a row change it (`SumChanges`).
  * `StoreTiersFit`: the code's own tables (`StoreTiers`, `StoreWindow`, `StoreGaugeWindow`) meet the assumption,
    for silences of up to ten minutes: the gauges' window over raw rows is the shortest.

  Assumptions: `TiersFit` (buckets nest; a window covers the longest silence and a bucket of its
  source; a gauge's window and a bucket lie within the source's retention, as store.go
  84-89 asks) and `TorrentsAreSane` (finitely many torrents, natural numbers).
* `RpcProofs`, the calls: `TypeCorrect`, `NoSlotLeaks`, `ErrorsAreHonest`, `DeclaredCutsAreRefused`, for any
  number of callers, slots and timers. The invariant adds the story of a call: which
  context, timer or reply ended it (`Stories`); slots are counted by
  the cardinality of the calls that hold one (`Accounted`). Assumption: `ConstantsNat`.
* `RpcProofs`, what is read: `PollsTellEverything`, `IndexesAreTheDaemons`, for
  lists of any length and replies in either order with any of their items failed: a reply is read
  as the results it carries (`ReadsAs`), row by row as the daemon means it, and what has been
  returned is an answer to what was asked (`Answered`). `ClientMakesCalls` shows
  that `RpcClient` implements `ScgiClient`, so the theorems about calls hold of the client as a
  whole. Assumption: `DaemonAssumption`.
* `RpcProofs`, the cache: `CacheTypeCorrect`, `MarkersAlwaysOwned`, `CacheStaysFresh`. The
  inductive invariant speaks of the answers in flight: a flight whose marker is
  still parked holds a fresh host, or its torrent is being toggled or is marked by a ghost
  (`Fresh`). Its only assumption is `DistinctValues`.
* `ApiRequestsProofs`: `TypeCorrect`, `RemovalStaysInside`, `AnswersTellTheTruth`,
  `NothingPassesUnguarded`, for every file system with links, every configuration and any number of
  requests at once. The invariant follows a request along its commands (`Course`): a target
  was resolved into a real root (`Anchored`), what was executed and unlinked agrees with the
  answer (`Truthful`), and only what passed the guards has got that far (`Guarded`).
  The roots may be any: links, missing, nested. Assumptions: `FileSystemAssumption`, `WorldsAssumption`, `TargetsAreFinal`.
* `Induction`: the library states induction with operators as parameters, which the
  provers cannot instantiate. These lemmas state it with sets for predicates and functions for
  steps, and follow from the library's theorem that strict inclusion of finite sets is
  well-founded. With them a recursive function's value is shown to exist
  (`IntervalRecursion`) and sums to be sums (`SumAdd`, `SumChanges`, `SumOfNaturals`).

Every safety invariant and action property that a run checks is stated by a theorem. With TLC
alone stay the liveness properties (`FreshPollForEveryStream`, `StopEndsLoop`, `Converges`,
`EveryTorrentResolved`, `VisibleReconnects`, `HiddenLetsGo`, `CancelFreesSlot`, `EveryCallEnds`,
`EveryRequestIsAnswered`, `PanelCatchesUp`), whose proofs would need fairness and ENABLED, and the two
violations.

## 6. Plan

1. The remove dialog's bulk loop over `ApiRequests`; `latestOnly` with a second widget.
2. Charts of gauges (`QueryGauges`, `decimateGauge`) against a reference average.
3. A pass of maintain in several steps, with rounds and failing statements between them, and the
   invariant of the tiers for it.

## 7. Not modelled

* The remove dialog: one dialog over a list of requests, sequential; what its requests
  do at the server is in `ApiRequests`.
* `latestOnly` and the charts' widgets: they keep nothing but what they draw.
  `pollWhileVisible` is part of `DetailPanel`.
* Charts of gauges and the read of all first_seen times (store.go 851-943): reads that
  decide nothing.
* System gauges, disk, GeoIP, search: reads of the operating system and of data files.
* Parsing of configuration and flags, wire encoding and escaping, password hashing: pure
  functions of text, without state. Their results are the constants and inputs of `Guards` and
  `ApiRequests`.
* Synthetic sources (mock mode): demonstration data without a contract. `ApiRequests` has mock mode's
  effect on guards and removal.
* Presentation (formatting, charts, sorting, dialogs' layout), embedded static files, build and tools.

What the models leave out of the code they cover:

* `RpcClient`: the daemon answers every item of a batch.
* `Guards`: the 405 of the proxy for what is not a POST, and the mount path it falls back to.
* `HistoryTiers`: rounds between the statements of a pass; a failing statement of it. The clamp of a torrent's rate at 16 GiB per second is
  never reached. In `HistorySchema`, how many rows a table has, and an open that fails on a pragma (302-307).
* `ApiRequests`: a file system that others change (`tree` only shrinks); names that are not UTF-8;
  relative roots; a pass-through call may itself erase a torrent, and need not. The handler's
  own resolution of links is taken to return: on a hung mount the code waits in it without a deadline.
* `DetailPanel`: the spinner and the speed chart.

`PROJECT.json` lists every component with its status.
