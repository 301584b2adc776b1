------------------------------- MODULE LiveFeed -------------------------------
(***************************************************************************)
(* The path of a poll's result to a browser's table: the poll loop         *)
(* (poll/poller.go tick), the hub's caches and per-stream buffers          *)
(* (sse/hub.go), the handler goroutine of each stream (api/server.go       *)
(* handleEvents), the connection, and one tab (lib/sse-driver.ts).         *)
(*                                                                         *)
(* A tab has one connection at a time; a connection it has left lives on   *)
(* in the server until its handler notices.  A step of the hub is one      *)
(* critical section of h.mu.  Broadcast visits the streams one after       *)
(* another while their handlers drain them; what it does to a stream       *)
(* depends on that stream alone, so visiting them together loses nothing.  *)
(* Globals and the timestamp ride on every data message as absolute values *)
(* and are left out; heartbeats carry nothing.                             *)
(***************************************************************************)
EXTENDS TorrentDiff, Naturals, Sequences, SequencesExt

CONSTANTS
    Conns, NoConn,      \* connections that may exist at the same time
    Polled,             \* the lists a poll may return
    BufCap,             \* capacity of a stream's channel (16 in the code)
    WireCap,            \* messages in flight: socket buffers and a blocked write
    UnreachableAfter,   \* failed polls before rtorrent counts as unreachable
    MaxPolls            \* bound: successful polls explored

ASSUME NoConnIsNone == NoConn \notin Conns
ASSUME PolledAreLists == Polled \subseteq Lists
ASSUME CapsAssumption ==
    BufCap \in Nat \ {0} /\ WireCap \in Nat /\ UnreachableAfter \in Nat /\ MaxPolls \in Nat

VARIABLES
    pc,             \* poller: what tick() does next
    pending,        \* poller: the list this tick publishes, as <<list>> or <<>>
    published,      \* lists published so far: seq is its length, prev its last
    fails,          \* poller.consecFails, saturated at UnreachableAfter
    health,         \* poller.health
    latestSnap,     \* hub.latestSnap, as <<message>> or <<>>
    latestStatus,   \* hub.latestStatus, likewise
    handler,        \* per connection: state of its handler goroutine
    chan,           \* per connection: Subscriber.ch
    killed,         \* connections whose Subscriber.closed is closed
    wire,           \* per connection: written by the handler, not yet dispatched
    cur,            \* tab: its EventSource
    table,          \* tab: the torrent table
    lastSeq,        \* tab: seq of the last data message of this connection
    srvDown         \* tab: the last status said rtorrent is unreachable

poller == <<pc, pending, published, fails, health>>
caches == <<latestSnap, latestStatus>>
server == <<handler, chan, killed>>
tab == <<cur, table, lastSeq, srvDown>>
vars == <<poller, caches, server, wire, tab>>

SnapshotMsg(n) == [event |-> "snapshot", seq |-> n, torrents |-> published[n]]

\* A tick's delta: entry n of the log against the one before.
DeltaMsg(n) ==
    [event |-> "delta", seq |-> n,
     upserts |-> Upserts(published[n], published[n - 1]),
     removed |-> Removed(published[n], published[n - 1])]

StatusMsg(h) == [event |-> "status", rtorrent |-> h]

IsData(m) == m.event # "status"

Subs == {c \in Conns : handler[c] = "serving"}

TypeOK ==
    /\ pc \in {"poll", "setStatus", "castStatus", "setSnap", "cast"}
    /\ pending \in {<<>>} \cup {<<w>> : w \in Polled}
    /\ published \in BoundedSeq(Polled, MaxPolls)
    /\ fails \in 0..UnreachableAfter
    /\ health \in {"unknown", "up", "unreachable"}
    /\ Len(latestSnap) <= 1 /\ Len(latestStatus) <= 1
    /\ handler \in [Conns -> {"free", "connecting", "serving", "returned"}]
    /\ \A c \in Conns : Len(chan[c]) <= BufCap /\ Len(wire[c]) <= WireCap
    /\ killed \subseteq Conns
    /\ cur \in Conns \cup {NoConn}
    /\ DOMAIN table \subseteq Hashes
    /\ \A h \in DOMAIN table : table[h] \in Rows
    /\ lastSeq \in 0..MaxPolls
    /\ srvDown \in BOOLEAN

Init ==
    /\ pc = "poll" /\ pending = <<>> /\ published = <<>>
    /\ fails = 0 /\ health = "unknown"
    /\ latestSnap = <<>> /\ latestStatus = <<>>
    /\ handler = [c \in Conns |-> "free"]
    /\ chan = [c \in Conns |-> <<>>]
    /\ killed = {}
    /\ wire = [c \in Conns |-> <<>>]
    /\ cur = NoConn /\ table = <<>> /\ lastSeq = 0 /\ srvDown = FALSE

-----------------------------------------------------------------------------
(* The poller. *)

\* Recovery is immediate, and the first success reports "up" once.
PollSucceeds(w) ==
    /\ pc = "poll"
    /\ Len(published) < MaxPolls
    /\ pending' = <<w>>
    /\ fails' = 0
    /\ health' = "up"
    /\ pc' = IF health = "up" THEN "setSnap" ELSE "setStatus"
    /\ UNCHANGED <<published, caches, server, wire, tab>>

\* Only the failure that completes the debounce reports, and only once.
PollFails ==
    /\ pc = "poll"
    /\ fails' = IF fails < UnreachableAfter THEN fails + 1 ELSE fails
    /\ LET report == health # "unreachable" /\ fails' >= UnreachableAfter
       IN  /\ health' = IF report THEN "unreachable" ELSE health
           /\ pc' = IF report THEN "setStatus" ELSE "poll"
    /\ UNCHANGED <<pending, published, caches, server, wire, tab>>

\* Mutant of Broadcast: it drops without killing.
BroadcastDropping(m) ==
    /\ chan' = [c \in Conns |-> IF c \in Subs /\ Len(chan[c]) < BufCap
                                THEN Append(chan[c], m) ELSE chan[c]]
    /\ UNCHANGED killed

\* Hub.Broadcast: a stream whose channel is full is killed, not waited for.
Broadcast(m) ==
    LET room == {c \in Subs : Len(chan[c]) < BufCap}
    IN  /\ chan' = [c \in Conns |-> IF c \in room THEN Append(chan[c], m) ELSE chan[c]]
        /\ killed' = killed \cup (Subs \ room)

\* Mutant of SetStatus: broadcast only.
SetStatusUncached ==
    /\ pc = "setStatus"
    /\ pc' = "castStatus"
    /\ UNCHANGED <<pending, published, fails, health, caches, server, wire, tab>>

\* setHealth: cached for those who join, then broadcast.
SetStatus ==
    /\ pc = "setStatus"
    /\ latestStatus' = <<StatusMsg(health)>>
    /\ pc' = "castStatus"
    /\ UNCHANGED <<pending, published, fails, health, latestSnap, server, wire, tab>>

CastStatus ==
    /\ pc = "castStatus"
    /\ Broadcast(StatusMsg(health))
    /\ pc' = IF pending = <<>> THEN "poll" ELSE "setSnap"
    /\ UNCHANGED <<pending, published, fails, health, caches, handler, wire, tab>>

\* Mutant of SetSnapshot: only the snapshot that is broadcast is cached.
SetFirstSnapshot ==
    /\ pc = "setSnap"
    /\ published' = published \o pending
    /\ latestSnap' = IF published = <<>> THEN <<SnapshotMsg(1)'>> ELSE latestSnap
    /\ pending' = <<>>
    /\ pc' = "cast"
    /\ UNCHANGED <<fails, health, latestStatus, server, wire, tab>>

\* tick: seq and prev move on and the snapshot is cached for those who join.
SetSnapshot ==
    /\ pc = "setSnap"
    /\ published' = published \o pending
    /\ latestSnap' = <<SnapshotMsg(Len(published))'>>
    /\ pending' = <<>>
    /\ pc' = "cast"
    /\ UNCHANGED <<fails, health, latestStatus, server, wire, tab>>

\* tick: the first list goes out whole, every later one as a delta.
CastTick ==
    /\ pc = "cast"
    /\ LET seq == Len(published)
       IN  Broadcast(IF seq = 1 THEN SnapshotMsg(seq) ELSE DeltaMsg(seq))
    /\ pc' = "poll"
    /\ UNCHANGED <<pending, published, fails, health, caches, handler, wire, tab>>

-----------------------------------------------------------------------------
(* The handler goroutine of a stream. *)

\* Mutant of Subscribe: the cached snapshot is left out.
SubscribeWithoutSnapshot(c) ==
    /\ handler[c] = "connecting"
    /\ handler' = [handler EXCEPT ![c] = "serving"]
    /\ chan' = [chan EXCEPT ![c] = latestStatus]
    /\ UNCHANGED <<poller, caches, killed, wire, tab>>

\* Hub.Subscribe: registered and given the cached snapshot and status, as far
\* as the new channel has room, in one critical section.
Subscribe(c) ==
    /\ handler[c] = "connecting"
    /\ handler' = [handler EXCEPT ![c] = "serving"]
    /\ LET replay == latestSnap \o latestStatus
       IN  chan' = [chan EXCEPT ![c] = SubSeq(replay, 1, IF Len(replay) < BufCap
                                                         THEN Len(replay) ELSE BufCap)]
    /\ UNCHANGED <<poller, caches, killed, wire, tab>>

\* The handler is at its select: its last write has gone through.
AtSelect(c) == handler[c] = "serving" /\ Len(wire[c]) < WireCap

\* The select takes a message although Closed() may be ready too.
Deliver(c) ==
    /\ AtSelect(c)
    /\ chan[c] # <<>>
    /\ wire' = [wire EXCEPT ![c] = Append(@, Head(chan[c]))]
    /\ chan' = [chan EXCEPT ![c] = Tail(@)]
    /\ UNCHANGED <<poller, caches, handler, killed, tab>>

\* Mutant of SeeKilled: the select has no case for Closed().
IgnoreKilled(c) == FALSE /\ AtSelect(c) /\ UNCHANGED vars

\* The select takes Closed(): the handler returns and unsubscribes, what is
\* left in the channel is dropped.
SeeKilled(c) ==
    /\ AtSelect(c)
    /\ c \in killed
    /\ handler' = [handler EXCEPT ![c] = "returned"]
    /\ chan' = [chan EXCEPT ![c] = <<>>]
    /\ killed' = killed \ {c}
    /\ UNCHANGED <<poller, caches, wire, tab>>

\* The request's context is cancelled, or a write fails, after the tab has left;
\* the connection's slot can be used again.
SeeGone(c) ==
    /\ handler[c] # "free"
    /\ cur # c
    /\ handler' = [handler EXCEPT ![c] = "free"]
    /\ chan' = [chan EXCEPT ![c] = <<>>]
    /\ wire' = [wire EXCEPT ![c] = <<>>]
    /\ killed' = killed \ {c}
    /\ UNCHANGED <<poller, caches, tab>>

-----------------------------------------------------------------------------
(* The tab. *)

\* open(): the table is kept, everything known of the connection is reset.
Open(c) ==
    /\ cur = NoConn
    /\ handler[c] = "free"
    /\ handler' = [handler EXCEPT ![c] = "connecting"]
    /\ cur' = c
    /\ lastSeq' = 0
    /\ srvDown' = FALSE
    /\ UNCHANGED <<poller, caches, chan, killed, wire, table>>

\* closeES(): the tab is hidden or frozen, or its connection breaks.
Close ==
    /\ cur # NoConn
    /\ cur' = NoConn
    /\ UNCHANGED <<poller, caches, server, wire, table, lastSeq, srvDown>>

\* The server ended the response: the error event closes, a retry opens again.
SeeEnd ==
    /\ cur # NoConn
    /\ handler[cur] = "returned"
    /\ wire[cur] = <<>>
    /\ cur' = NoConn
    /\ UNCHANGED <<poller, caches, server, wire, table, lastSeq, srvDown>>

\* Mutant of Dispatch: the listeners of a connection the tab has left still work.
DispatchAny ==
    \E c \in Conns :
        /\ wire[c] # <<>>
        /\ LET m == Head(wire[c])
           IN  /\ lastSeq' = IF IsData(m) THEN m.seq ELSE lastSeq
               /\ srvDown' = IF IsData(m) THEN srvDown ELSE m.rtorrent = "unreachable"
               /\ table' = CASE m.event = "snapshot" -> ApplySnapshot(table, m.torrents)
                             [] m.event = "delta" -> ApplyDelta(table, m.upserts, m.removed)
                             [] m.event = "status" -> table
        /\ wire' = [wire EXCEPT ![c] = Tail(@)]
        /\ UNCHANGED <<poller, caches, server, cur>>

\* The next event of the connection is dispatched to its listener.
Dispatch ==
    /\ cur # NoConn
    /\ wire[cur] # <<>>
    /\ LET m == Head(wire[cur])
       IN  /\ lastSeq' = IF IsData(m) THEN m.seq ELSE lastSeq
           /\ srvDown' = IF IsData(m) THEN srvDown ELSE m.rtorrent = "unreachable"
           /\ table' = CASE m.event = "snapshot" -> ApplySnapshot(table, m.torrents)
                         [] m.event = "delta" -> ApplyDelta(table, m.upserts, m.removed)
                         [] m.event = "status" -> table
    /\ wire' = [wire EXCEPT ![cur] = Tail(@)]
    /\ UNCHANGED <<poller, caches, server, cur>>

-----------------------------------------------------------------------------
Poller ==
    \/ \E w \in Polled : PollSucceeds(w)
    \/ PollFails \/ SetStatus \/ CastStatus \/ SetSnapshot \/ CastTick

Handler(c) == Subscribe(c) \/ Deliver(c) \/ SeeKilled(c) \/ SeeGone(c)

Next ==
    \/ Poller
    \/ \E c \in Conns : Handler(c) \/ Open(c)
    \/ Close \/ SeeEnd \/ Dispatch

(***************************************************************************)
(* A publication under way is finished; handlers and the tab's event loop  *)
(* run; a tab without a connection opens one (it is visible: a hidden one  *)
(* is asked for nothing).  A select that finds Closed() ready over and     *)
(* over takes it: strong fairness on SeeKilled.  No poll need succeed and  *)
(* no connection need break.                                               *)
(***************************************************************************)
Fairness ==
    /\ WF_vars(SetStatus) /\ WF_vars(CastStatus)
    /\ WF_vars(SetSnapshot) /\ WF_vars(CastTick)
    /\ \A c \in Conns :
         /\ WF_vars(Subscribe(c)) /\ WF_vars(Deliver(c))
         /\ SF_vars(SeeKilled(c)) /\ WF_vars(SeeGone(c))
    /\ WF_vars(\E c \in Conns : Open(c))
    /\ WF_vars(SeeEnd) /\ WF_vars(Dispatch)

Spec == Init /\ [][Next]_vars
FairSpec == Spec /\ Fairness

=============================================================================
