------------------------------ MODULE SseDriver ------------------------------
(***************************************************************************)
(* The browser's side of the event stream: web/src/lib/sse-driver.ts, with *)
(* the staleness gauge of stale.ts and the visibility signals of           *)
(* stores/lifecycle.svelte.ts, in the wiring of api/sse.ts (which provides *)
(* onHealth, so the health axis is on).                                    *)
(*                                                                         *)
(* JavaScript runs one task at a time: every signal, timer callback and    *)
(* dispatched event is one step.  What interleaves is the order of these   *)
(* tasks.  A timer is only pending or not: it may fire at any time once it *)
(* is armed (a hidden tab's timers are throttled, a sleeping machine's     *)
(* stand still).  What the driver measures, it measures here: the age of a *)
(* message when it is dispatched, of the connection, and of the last       *)
(* message, all in ticks and saturating where no comparison sees further.  *)
(*                                                                         *)
(* The browser drops the queued events of an EventSource that was closed,  *)
(* so closing empties the inbox.  That, and the timers closeES clears, is  *)
(* what the driver's generation counter insures; the counter itself is     *)
(* therefore not part of the state.                                        *)
(***************************************************************************)
EXTENDS Integers, Sequences

CONSTANTS
    StaleLag,       \* STALE_LAG_S
    FirstMsgAge,    \* FIRST_MSG_AGE_MS
    BackoffMin,     \* BACKOFF_MIN_MS
    BackoffMax,     \* BACKOFF_MAX_MS
    MaxCached,      \* bound: how old a frame may be when it reaches the browser
    InboxCap,       \* bound: events queued for dispatch
    MaxFails        \* bound of the ghost fails; so many reach BackoffMax

ASSUME DriverAssumption ==
    /\ StaleLag \in Nat \ {0}
    /\ FirstMsgAge \in Nat
    /\ MaxCached \in Nat
    /\ BackoffMin \in Nat
    /\ BackoffMax \in Nat
    /\ BackoffMin <= BackoffMax
    /\ InboxCap \in Nat
    /\ MaxFails \in Nat

\* The delay after a number of failures in a row, were there no ceiling.
Delay[n \in 0..MaxFails] == IF n = 0 THEN BackoffMin ELSE Delay[n - 1] * 2

ASSUME FailsReachCeiling == Delay[MaxFails] >= BackoffMax

VARIABLES
    visible,    \* lifecycle.visible
    echo,       \* the browser may repeat the last visibility signal
    stopped,
    es,         \* "none", or the readyState of the EventSource
    inbox,      \* the events the browser has queued for it
    conn,       \* the ConnState last emitted
    timers,     \* which of grace, retry and health are pending
    backoff,    \* backoffMs
    gotFirst,   \* gotFirstMsg; the gauge has a baseline exactly then
    skew,       \* the gauge's baseline
    connAge,    \* now - connectAtMs
    msgAge,     \* now - lastMsgAtMs
    srvDown, seenData, dataStale, health,
    fails,      \* ghost: errors a visible tab has seen since the last 'open'
    applied     \* ghost: age of the message applied last

page == <<visible, echo, stopped>>
stream == <<es, inbox, conn, timers>>
gauge == <<gotFirst, skew, connAge>>
axis == <<srvDown, seenData, dataStale, health>>
tries == <<backoff, fails>>
vars == <<page, stream, gauge, msgAge, axis, tries, applied>>

\* The oldest message that may be applied, and the age at which ages saturate.
Oldest == FirstMsgAge + MaxCached + StaleLag
AgeCap == Oldest + 1

Ages == 0..AgeCap
Events == [kind : {"open", "data", "down", "up", "error"}, age : Ages]
Timers == {"grace", "retry", "health"}

TypeOK ==
    /\ visible \in BOOLEAN /\ echo \in BOOLEAN /\ stopped \in BOOLEAN
    /\ es \in {"none", "connecting", "open"}
    /\ inbox \in Seq(Events) /\ Len(inbox) <= InboxCap
    /\ conn \in {"connecting", "live", "reconnecting", "offline", "idle"}
    /\ timers \subseteq Timers
    /\ backoff \in BackoffMin..BackoffMax
    /\ gotFirst \in BOOLEAN /\ skew \in Ages
    /\ connAge \in 0..FirstMsgAge + 1 /\ msgAge \in 0..StaleLag
    /\ srvDown \in BOOLEAN /\ seenData \in BOOLEAN /\ dataStale \in BOOLEAN
    /\ health \in {"up", "down", "stale", "unknown"}
    /\ fails \in 0..MaxFails
    /\ applied \in Ages

AtMost(cap, n) == IF n > cap THEN cap ELSE n
Event(k, a) == [kind |-> k, age |-> a]

-----------------------------------------------------------------------------
(* The driver's own operations.  Each fixes the primed stream, gauge and    *)
(* health; ts is what the caller leaves of the timers.                      *)

\* goIdle, and the body of stop: close whatever there is, announce c.
Disconnect(c, ts) ==
    /\ es' = "none" /\ inbox' = <<>> /\ conn' = c /\ timers' = ts
    /\ UNCHANGED axis

GoIdle == Disconnect("idle", {})

\* open: a new EventSource.  It announces 'connecting' only out of idle;
\* otherwise the tab keeps showing c.
Open(c, ts) ==
    /\ es' = "connecting" /\ inbox' = <<>>
    /\ conn' = IF c = "idle" THEN "connecting" ELSE c
    /\ timers' = ts \ {"retry", "health"}
    /\ gotFirst' = FALSE /\ skew' = 0 /\ connAge' = 0 /\ msgAge' = 0
    /\ srvDown' = FALSE /\ seenData' = FALSE /\ dataStale' = FALSE
    /\ health' = "unknown"

\* Mutant of Resolve: data outranks a server that says it is down.
ResolveDataFirst(down, stale, seen) ==
    IF seen THEN "up" ELSE IF down THEN "down" ELSE IF stale THEN "stale" ELSE "unknown"

Resolve(down, stale, seen) ==
    IF down THEN "down" ELSE IF stale THEN "stale" ELSE IF seen THEN "up" ELSE "unknown"

\* start, run when the application is mounted.
Init ==
    /\ visible \in BOOLEAN
    /\ echo = FALSE /\ stopped = FALSE
    /\ es = IF visible THEN "connecting" ELSE "none"
    /\ conn = IF visible THEN "connecting" ELSE "idle"
    /\ inbox = <<>> /\ timers = {}
    /\ backoff = BackoffMin
    /\ gotFirst = FALSE /\ skew = 0 /\ connAge = 0 /\ msgAge = 0
    /\ srvDown = FALSE /\ seenData = FALSE /\ dataStale = FALSE
    /\ health = "unknown"
    /\ fails = 0 /\ applied = 0

-----------------------------------------------------------------------------
(* Signals of the page.  lifecycle writes visible before it notifies.  The  *)
(* browser may repeat a change once: a resumed page gets both 'resume' and  *)
(* 'visibilitychange', a page that is left both 'pagehide' and              *)
(* 'visibilitychange'.                                                      *)

Becomes(v) ==
    /\ v = visible => echo
    /\ visible' = v
    /\ echo' = (v # visible)
    /\ UNCHANGED <<stopped, tries, applied>>

\* The stream is open or opening, and has been talking lately.
Recent == es # "none" /\ msgAge < StaleLag

\* Mutant of Show: the kept stream is not watched.
ShowUnwatched ==
    IF Recent
    THEN /\ timers' = timers \ {"grace"}
         /\ UNCHANGED <<es, inbox, conn, gauge, msgAge, axis>>
    ELSE Open(IF es # "none" THEN "connecting" ELSE conn, timers \ {"grace"})

Show ==
    IF Recent
    THEN /\ timers' = (timers \ {"grace"}) \cup {"health"}
         /\ UNCHANGED <<es, inbox, conn, gauge, msgAge, axis>>
    ELSE Open(IF es # "none" THEN "connecting" ELSE conn, timers \ {"grace"})

\* Mutant of Hide: the grace is only for a stream that has opened.
HideOpenOnly ==
    IF "retry" \in timers
    THEN GoIdle /\ UNCHANGED <<gauge, msgAge>>
    ELSE /\ timers' = (timers \ {"health"}) \cup (IF es = "open" THEN {"grace"} ELSE {})
         /\ UNCHANGED <<es, inbox, conn, gauge, msgAge, axis>>

\* A hidden tab gives up its retry at once and its stream after the grace.
Hide ==
    IF "retry" \in timers
    THEN GoIdle /\ UNCHANGED <<gauge, msgAge>>
    ELSE /\ timers' = (timers \ {"health"}) \cup (IF es # "none" THEN {"grace"} ELSE {})
         /\ UNCHANGED <<es, inbox, conn, gauge, msgAge, axis>>

\* visibilitychange, resume or pageshow find the page visible.
PageShown ==
    /\ Becomes(TRUE)
    /\ IF stopped THEN UNCHANGED <<stream, gauge, msgAge, axis>> ELSE Show

PageHidden ==
    /\ Becomes(FALSE)
    /\ IF stopped THEN UNCHANGED <<stream, gauge, msgAge, axis>> ELSE Hide

\* freeze or pagehide: the stream is closed before the handler returns.
PageSuspended ==
    /\ visible' = FALSE
    /\ echo' = TRUE
    /\ IF stopped THEN UNCHANGED <<stream, axis>> ELSE GoIdle
    /\ UNCHANGED <<stopped, gauge, msgAge, tries, applied>>

\* The application is unmounted.
Stop ==
    /\ ~stopped
    /\ stopped' = TRUE
    /\ Disconnect("offline", {})
    /\ UNCHANGED <<visible, echo, gauge, msgAge, tries, applied>>

-----------------------------------------------------------------------------
(* Timers. *)

GraceFires ==
    /\ "grace" \in timers
    /\ GoIdle
    /\ UNCHANGED <<page, gauge, msgAge, tries, applied>>

\* Mutant of RetryFires: the callback compares with the generation of before
\* closeES, so it always finds itself outdated.
RetryOutdated ==
    /\ "retry" \in timers
    /\ timers' = timers \ {"retry"}
    /\ UNCHANGED <<page, es, inbox, conn, gauge, msgAge, axis, tries, applied>>

RetryFires ==
    /\ "retry" \in timers
    /\ IF visible THEN Open(conn, timers) ELSE GoIdle /\ UNCHANGED <<gauge, msgAge>>
    /\ UNCHANGED <<page, tries, applied>>

HealthFires ==
    /\ "health" \in timers
    /\ timers' = timers \ {"health"}
    /\ dataStale' = TRUE
    /\ health' = Resolve(srvDown, TRUE, seenData)
    /\ UNCHANGED <<page, es, inbox, conn, gauge, msgAge, srvDown, seenData, tries, applied>>

-----------------------------------------------------------------------------
(* Dispatch of the events of the current EventSource. *)

HeadIs(k) == inbox # <<>> /\ Head(inbox).kind = k

\* Mutant of OnOpen: success does not reset the backoff.
OnOpenStillBackedOff ==
    /\ HeadIs("open")
    /\ inbox' = Tail(inbox)
    /\ es' = "open"
    /\ fails' = 0
    /\ conn' = "live"
    /\ timers' = timers \cup {"health"}
    /\ UNCHANGED <<page, backoff, gauge, msgAge, axis, applied>>

OnOpen ==
    /\ HeadIs("open")
    /\ inbox' = Tail(inbox)
    /\ es' = "open"
    /\ backoff' = BackoffMin /\ fails' = 0
    /\ conn' = "live"
    /\ timers' = timers \cup {"health"}
    /\ UNCHANGED <<page, gauge, msgAge, axis, applied>>

\* Mutant of TooOld: the gauge alone decides.
TooOldByGauge(lag) == gotFirst /\ lag >= skew /\ lag - skew > StaleLag

\* staleAndRecycled: the first message is judged by the age of its
\* connection, later ones by how far they lag behind the gauge's baseline.
TooOld(lag) ==
    IF gotFirst THEN lag >= skew /\ lag - skew > StaleLag
                ELSE connAge > FirstMsgAge

\* A snapshot or delta is applied.
Apply ==
    /\ HeadIs("data")
    /\ LET lag == Head(inbox).age
       IN  /\ ~TooOld(lag)
           /\ skew' = IF gotFirst /\ skew <= lag THEN skew ELSE lag
           /\ applied' = lag
    /\ inbox' = Tail(inbox)
    /\ gotFirst' = TRUE
    /\ msgAge' = 0
    /\ conn' = "live"
    /\ seenData' = TRUE /\ dataStale' = FALSE
    /\ timers' = timers \cup {"health"}
    /\ health' = Resolve(srvDown, FALSE, TRUE)
    /\ UNCHANGED <<page, es, connAge, srvDown, tries>>

\* It reads as a backlog: the stream is closed, with all that is queued on it.
Recycle ==
    /\ HeadIs("data")
    /\ TooOld(Head(inbox).age)
    /\ \/ visible /\ Open(conn, timers)
       \/ ~visible /\ GoIdle /\ gotFirst' = TRUE /\ msgAge' = 0 /\ UNCHANGED <<skew, connAge>>
    /\ UNCHANGED <<page, tries, applied>>

OnStatus ==
    /\ HeadIs("down") \/ HeadIs("up")
    /\ inbox' = Tail(inbox)
    /\ srvDown' = (Head(inbox).kind = "down")
    /\ health' = Resolve(srvDown', dataStale, seenData)
    /\ UNCHANGED <<page, es, conn, timers, gauge, msgAge, seenData, dataStale, tries, applied>>

Grown(b) == AtMost(BackoffMax, b * 2)

\* Mutant of OnError: a hidden tab schedules a retry as well.
OnErrorHidden ==
    /\ HeadIs("error")
    /\ Disconnect("reconnecting", (timers \ {"health"}) \cup {"retry"})
    /\ backoff' = Grown(backoff)
    /\ fails' = AtMost(MaxFails, fails + 1)
    /\ UNCHANGED <<page, gauge, msgAge, applied>>

OnError ==
    /\ HeadIs("error")
    /\ \/ /\ visible
          /\ Disconnect("reconnecting", (timers \ {"health"}) \cup {"retry"})
          /\ backoff' = Grown(backoff)
          /\ fails' = AtMost(MaxFails, fails + 1)
       \/ ~visible /\ GoIdle /\ UNCHANGED tries
    /\ UNCHANGED <<page, gauge, msgAge, applied>>

Dispatch == OnOpen \/ Apply \/ Recycle \/ OnStatus \/ OnError

-----------------------------------------------------------------------------
(* The network, as far as the browser shows it: events queued for an       *)
(* EventSource that is connecting or open, the last of which is an error.   *)

Kinds == {inbox[i].kind : i \in DOMAIN inbox}

Queue(e) ==
    /\ Len(inbox) < InboxCap
    /\ "error" \notin Kinds
    /\ inbox' = Append(inbox, e)
    /\ UNCHANGED <<page, es, conn, timers, gauge, msgAge, axis, tries, applied>>

Accepted == es = "connecting" /\ inbox = <<>> /\ Queue(Event("open", 0))

Sent ==
    /\ es = "open" \/ "open" \in Kinds
    /\ \/ \E a \in 0..MaxCached : Queue(Event("data", a))
       \/ \E k \in {"down", "up"} : Queue(Event(k, 0))

Lost == es # "none" /\ Queue(Event("error", 0))

Tick ==
    /\ inbox' = [i \in DOMAIN inbox |->
                    IF inbox[i].kind = "data"
                    THEN [inbox[i] EXCEPT !.age = AtMost(AgeCap, @ + 1)] ELSE inbox[i]]
    /\ connAge' = AtMost(FirstMsgAge + 1, connAge + 1)
    /\ msgAge' = AtMost(StaleLag, msgAge + 1)
    /\ UNCHANGED <<page, es, conn, timers, gotFirst, skew, axis, tries, applied>>

Next ==
    \/ PageShown \/ PageHidden \/ PageSuspended \/ Stop
    \/ GraceFires \/ RetryFires \/ HealthFires
    \/ Dispatch
    \/ Accepted \/ Sent \/ Lost \/ Tick

Spec == Init /\ [][Next]_vars

\* The browser dispatches what is queued and fires the timers that are due;
\* a server that is tried for ever accepts now and then.
Fairness ==
    /\ WF_vars(Dispatch)
    /\ WF_vars(GraceFires)
    /\ WF_vars(RetryFires)
    /\ SF_vars(Accepted)

FairSpec == Spec /\ Fairness

-----------------------------------------------------------------------------
(* Properties. *)

\* What is pending agrees with what there is (the driver's invariants 3, 4, 7
\* and the timer half of 9): a tab that is idle or stopped has neither stream
\* nor timer; the grace runs only for a hidden tab that has a stream, a retry
\* only for a visible one that has none, the watchdog only beside a stream.
\* (A stream kept through the grace re-arms the watchdog while it is hidden.)
TimersMatchState ==
    /\ conn \in {"idle", "offline"} => es = "none" /\ timers = {}
    /\ stopped <=> conn = "offline"
    /\ "grace" \in timers => ~visible /\ es # "none"
    /\ "retry" \in timers => visible /\ es = "none" /\ conn = "reconnecting"
    /\ "health" \in timers => es # "none"

\* No order of signals, timers and events leaves a tab that is looked at
\* without a stream and without a retry, or a tab that is not looked at with
\* a stream and no grace running out on it.
NobodyIsForgotten ==
    ~stopped =>
        /\ visible => es # "none" \/ "retry" \in timers
        /\ ~visible /\ es # "none" => "grace" \in timers
        /\ conn = "live" => es # "none"

\* The health shown is that of the current stream (invariant 9): nothing is
\* green before a datum of this connection, a server that says it is down is
\* never masked by replayed data, and a visible open stream is always watched
\* for silence.
HealthIsOfThisStream ==
    es # "none" =>
        /\ health = "down" <=> srvDown
        /\ health = "up" => seenData /\ ~dataStale
        /\ visible /\ es = "open" => "health" \in timers \/ dataStale

\* The delay doubles with every failure a visible tab sees, through hiding,
\* showing and staleness, until a connection opens (invariant 2).
BackoffMatchesFailures ==
    backoff = AtMost(BackoffMax, Delay[fails])

\* However long the tab or the machine stood still, no message is applied
\* that is older than the first-message rule, the server's cached snapshot
\* and the gauge's tolerance allow together: a resume backlog is thrown away.
BacklogIsBounded == applied <= Oldest

\* A tab that stays visible gets its stream, if connecting succeeds now and
\* then.
VisibleReconnects ==
    visible /\ ~stopped ~> (conn = "live" /\ es = "open") \/ ~visible \/ stopped

\* A tab that stays hidden lets its stream go.
HiddenLetsGo == ~visible ~> es = "none" \/ visible

=============================================================================
