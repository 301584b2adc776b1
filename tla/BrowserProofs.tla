----------------------------- MODULE BrowserProofs -----------------------------
(***************************************************************************)
(* Theorems about the browser: the driver of its event stream (SseDriver), *)
(* for every tolerance, backoff and bound, and its detail panel            *)
(* (DetailPanel), for any torrents, tabs and requests under way.           *)
(***************************************************************************)
EXTENDS SseDriver, DetailPanel, Induction

\* Only a stream has queued events.
InboxOfStream == es = "none" => inbox = <<>>

\* The inductive invariant of the control part.
Control == TypeOK /\ InboxOfStream /\ TimersMatchState /\ NobodyIsForgotten

\* The inductive invariant behind BacklogIsBounded: a queued message is no
\* older than its connection and the server's cache together, and so is the
\* gauge's baseline, because the first message was judged by the connection.
Backlog ==
    /\ connAge <= FirstMsgAge =>
         \A i \in DOMAIN inbox : inbox[i].age <= connAge + MaxCached
    /\ skew <= FirstMsgAge + MaxCached
    /\ applied <= Oldest

LEMMA BoundsAreNumbers ==
    /\ Oldest \in Nat /\ AgeCap \in Nat
    /\ StaleLag \in Nat /\ FirstMsgAge \in Nat /\ MaxCached \in Nat
    /\ MaxCached <= AgeCap /\ 0 \in Ages
BY DriverAssumption DEF Oldest, AgeCap, Ages

LEMMA TailOfInbox ==
    ASSUME TypeOK, inbox # <<>>
    PROVE  /\ Tail(inbox) \in Seq(Events) /\ Len(Tail(inbox)) <= InboxCap
           /\ Head(inbox) \in Events /\ Head(inbox) = inbox[1]
           /\ \A i \in DOMAIN Tail(inbox) :
                i + 1 \in DOMAIN inbox /\ Tail(inbox)[i] = inbox[i + 1]
BY DriverAssumption DEF TypeOK

LEMMA QueueKeepsType ==
    ASSUME TypeOK, NEW e \in Events, Queue(e)
    PROVE  /\ TypeOK'
           /\ DOMAIN inbox' = 1..Len(inbox) + 1
           /\ \A i \in DOMAIN inbox' :
                inbox'[i] = IF i = Len(inbox) + 1 THEN e ELSE inbox[i]
<1>1. inbox' = Append(inbox, e) /\ Len(inbox) < InboxCap
  BY DEF Queue
<1>2. inbox' \in Seq(Events) /\ Len(inbox') <= InboxCap
  BY <1>1, DriverAssumption DEF TypeOK
<1>3. TypeOK'
  BY <1>2 DEF TypeOK, Queue, page, stream, gauge, axis, tries
<1>4. QED
  BY <1>1, <1>3 DEF TypeOK

\* What the network queues are events.
LEMMA NetworkQueuesEvents ==
    ASSUME Accepted \/ Sent \/ Lost
    PROVE  \E e \in Events : e.age <= MaxCached /\ Queue(e)
<1>1. Event("open", 0) \in Events /\ Event("error", 0) \in Events
      /\ Event("down", 0) \in Events /\ Event("up", 0) \in Events
  BY BoundsAreNumbers DEF Event, Events
<1>2. \A a \in 0..MaxCached : Event("data", a) \in Events
  BY BoundsAreNumbers DEF Event, Events, Ages
<1>3. \A a \in Nat : \A k : Event(k, a).age = a
  BY DEF Event
<1>4. Event("open", 0).age <= MaxCached /\ Event("error", 0).age <= MaxCached
      /\ Event("down", 0).age <= MaxCached /\ Event("up", 0).age <= MaxCached
  BY <1>3, BoundsAreNumbers
<1>5. \A a \in 0..MaxCached : Event("data", a).age <= MaxCached
  BY <1>3, BoundsAreNumbers
<1>6. QED
  BY <1>1, <1>2, <1>4, <1>5 DEF Accepted, Sent, Lost

-----------------------------------------------------------------------------

LEMMA TypeInit == Init => TypeOK
<1> SUFFICES ASSUME Init PROVE TypeOK
  OBVIOUS
<1>1. inbox \in Seq(Events) /\ Len(inbox) <= InboxCap
  BY DriverAssumption DEF Init
<1>2. backoff \in BackoffMin..BackoffMax /\ skew \in Ages /\ applied \in Ages
  BY DriverAssumption, BoundsAreNumbers DEF Init
<1>3. connAge \in 0..FirstMsgAge + 1 /\ msgAge \in 0..StaleLag /\ fails \in 0..MaxFails
  BY DriverAssumption DEF Init
<1>4. QED
  BY <1>1, <1>2, <1>3 DEF Init, TypeOK

\* Disconnecting and opening a stream, whatever else the step does to it.
LEMMA StreamTypes ==
    ASSUME TypeOK, NEW ts \in SUBSET Timers,
           NEW c \in {"connecting", "live", "reconnecting", "offline", "idle"}
    PROVE  /\ Disconnect(c, ts) =>
                /\ es' = "none" /\ inbox' \in Seq(Events) /\ Len(inbox') <= InboxCap
                /\ conn' = c /\ timers' \subseteq Timers
                /\ UNCHANGED axis
           /\ Open(c, ts) =>
                /\ es' = "connecting" /\ inbox' \in Seq(Events) /\ Len(inbox') <= InboxCap
                /\ conn' \in {"connecting", "live", "reconnecting", "offline"}
                /\ timers' \subseteq Timers
                /\ gotFirst' = FALSE /\ skew' \in Ages
                /\ connAge' \in 0..FirstMsgAge + 1 /\ msgAge' \in 0..StaleLag
                /\ srvDown' = FALSE /\ seenData' = FALSE /\ dataStale' = FALSE
                /\ health' = "unknown"
<1>1. <<>> \in Seq(Events) /\ Len(<<>>) <= InboxCap
  BY DriverAssumption
<1>2. 0 \in Ages /\ 0 \in 0..FirstMsgAge + 1 /\ 0 \in 0..StaleLag
  BY BoundsAreNumbers
<1>3. QED
  BY <1>1, <1>2 DEF Disconnect, Open, TypeOK

LEMMA TypeStep == TypeOK /\ [Next]_vars => TypeOK'
<1> SUFFICES ASSUME TypeOK, [Next]_vars PROVE TypeOK'
  OBVIOUS
<1> USE DEF page, stream, gauge, axis, tries
<1>1. CASE PageShown
  <2>1. /\ visible' \in BOOLEAN /\ echo' \in BOOLEAN /\ stopped' \in BOOLEAN
        /\ UNCHANGED <<tries, applied>>
    BY <1>1 DEF PageShown, Becomes, TypeOK
  <2>2. CASE stopped
    BY <1>1, <2>1, <2>2 DEF PageShown, TypeOK
  <2>3. CASE ~stopped /\ Recent
    BY <1>1, <2>1, <2>3 DEF PageShown, Show, TypeOK, Timers
  <2>4. CASE ~stopped /\ ~Recent
    <3> DEFINE c == IF es # "none" THEN "connecting" ELSE conn
               ts == timers \ {"grace"}
    <3>1. c \in {"connecting", "live", "reconnecting", "offline", "idle"}
          /\ ts \in SUBSET Timers
      BY DEF TypeOK
    <3>2. Open(c, ts)
      BY <1>1, <2>4 DEF PageShown, Show
    <3> HIDE DEF c, ts
    <3>3. QED
      BY <2>1, <3>1, <3>2, StreamTypes DEF TypeOK
  <2>5. QED
    BY <2>2, <2>3, <2>4
<1>2. CASE PageHidden
  <2>1. /\ visible' \in BOOLEAN /\ echo' \in BOOLEAN /\ stopped' \in BOOLEAN
        /\ UNCHANGED <<tries, applied, gauge, msgAge>>
    BY <1>2 DEF PageHidden, Becomes, Hide, TypeOK
  <2>2. CASE stopped
    BY <1>2, <2>1, <2>2 DEF PageHidden, TypeOK
  <2>3. CASE ~stopped /\ "retry" \in timers
    BY <1>2, <2>1, <2>3, StreamTypes DEF PageHidden, Hide, GoIdle, TypeOK
  <2>4. CASE ~stopped /\ "retry" \notin timers
    BY <1>2, <2>1, <2>4 DEF PageHidden, Hide, TypeOK, Timers
  <2>5. QED
    BY <2>2, <2>3, <2>4
<1>3. CASE PageSuspended
  BY <1>3, StreamTypes DEF PageSuspended, GoIdle, TypeOK, Timers
<1>4. CASE Stop
  BY <1>4, StreamTypes DEF Stop, TypeOK, Timers
<1>5. CASE GraceFires
  BY <1>5, StreamTypes DEF GraceFires, GoIdle, TypeOK, Timers
<1>6. CASE RetryFires
  BY <1>6, StreamTypes DEF RetryFires, GoIdle, TypeOK, Timers
<1>7. CASE HealthFires
  BY <1>7 DEF HealthFires, Resolve, TypeOK, Timers
<1>8. CASE OnOpen
  BY <1>8, TailOfInbox, DriverAssumption DEF OnOpen, HeadIs, TypeOK, Timers
<1>9. CASE Apply
  <2>1. Head(inbox).age \in Ages
    BY <1>9, TailOfInbox DEF Apply, HeadIs, Events
  <2>2. skew' \in Ages /\ applied' \in Ages
    BY <1>9, <2>1 DEF Apply, TypeOK
  <2>3. msgAge' \in 0..StaleLag
    BY <1>9, DriverAssumption DEF Apply
  <2>4. QED
    BY <1>9, <2>2, <2>3, TailOfInbox DEF Apply, HeadIs, Resolve, TypeOK, Timers
<1>10. CASE Recycle
  <2>1. CASE visible
    BY <1>10, <2>1, StreamTypes DEF Recycle, TypeOK
  <2>2. CASE ~visible
    <3>1. /\ GoIdle /\ gotFirst' = TRUE /\ msgAge' = 0
          /\ UNCHANGED <<skew, connAge, page, tries, applied>>
      BY <1>10, <2>2 DEF Recycle
    <3>2. msgAge' \in 0..StaleLag
      BY <3>1, DriverAssumption
    <3>3. QED
      BY <3>1, <3>2, StreamTypes DEF GoIdle, TypeOK
  <2>3. QED
    BY <2>1, <2>2
<1>11. CASE OnStatus
  BY <1>11, TailOfInbox DEF OnStatus, HeadIs, Resolve, TypeOK
<1>12. CASE OnError
  <2>1. Grown(backoff) \in BackoffMin..BackoffMax
    BY DriverAssumption DEF Grown, AtMost, TypeOK
  <2>2. AtMost(MaxFails, fails + 1) \in 0..MaxFails
    BY DriverAssumption DEF AtMost, TypeOK
  <2>3. QED
    BY <1>12, <2>1, <2>2, StreamTypes DEF OnError, GoIdle, TypeOK, Timers
<1>13. CASE Accepted \/ Sent \/ Lost
  BY <1>13, NetworkQueuesEvents, QueueKeepsType
<1>14. CASE Tick
  <2>1. \A i \in DOMAIN inbox :
          (IF inbox[i].kind = "data"
           THEN [inbox[i] EXCEPT !.age = AtMost(AgeCap, @ + 1)] ELSE inbox[i]) \in Events
    <3> SUFFICES ASSUME NEW i \in DOMAIN inbox
                 PROVE  [inbox[i] EXCEPT !.age = AtMost(AgeCap, @ + 1)] \in Events
                        /\ inbox[i] \in Events
      OBVIOUS
    <3>1. inbox[i] \in Events
      BY DEF TypeOK
    <3>2. AtMost(AgeCap, inbox[i].age + 1) \in Ages
      BY <3>1, BoundsAreNumbers DEF Events, Ages, AtMost
    <3>3. QED
      BY <3>1, <3>2 DEF Events
  <2>2. inbox' \in Seq(Events) /\ Len(inbox') = Len(inbox)
    <3>1. inbox \in Seq(Events) /\ DOMAIN inbox = 1..Len(inbox) /\ Len(inbox) \in Nat
      BY DEF TypeOK
    <3>2. inbox' \in [1..Len(inbox) -> Events]
      BY <1>14, <2>1, <3>1 DEF Tick
    <3>3. QED
      BY <3>1, <3>2
  <2>3. connAge' \in 0..FirstMsgAge + 1 /\ msgAge' \in 0..StaleLag
    <3>1. connAge \in 0..FirstMsgAge + 1 /\ msgAge \in 0..StaleLag
      BY DEF TypeOK
    <3>2. /\ connAge' = AtMost(FirstMsgAge + 1, connAge + 1)
          /\ msgAge' = AtMost(StaleLag, msgAge + 1)
      BY <1>14 DEF Tick
    <3>3. QED
      BY <3>1, <3>2, BoundsAreNumbers DEF AtMost
  <2>4. QED
    BY <1>14, <2>2, <2>3 DEF Tick, TypeOK
<1>15. CASE UNCHANGED vars
  BY <1>15 DEF vars, TypeOK
<1>16. QED
  BY <1>1, <1>2, <1>3, <1>4, <1>5, <1>6, <1>7, <1>8, <1>9, <1>10, <1>11, <1>12,
     <1>13, <1>14, <1>15 DEF Next, Dispatch

\* The driver's state has its types in every reachable state.
THEOREM TypeCorrect == Spec => []TypeOK
BY TypeInit, TypeStep, PTL DEF Spec

-----------------------------------------------------------------------------
(* What is pending agrees with what there is. *)

LEMMA ControlInit == Init => Control
<1> SUFFICES ASSUME Init PROVE Control
  OBVIOUS
<1>1. TypeOK
  BY TypeInit
<1>2. InboxOfStream /\ TimersMatchState /\ NobodyIsForgotten
  BY DEF Init, InboxOfStream, TimersMatchState, NobodyIsForgotten
<1>3. QED
  BY <1>1, <1>2 DEF Control

LEMMA ControlStep == Control /\ [Next]_vars => Control'
<1> SUFFICES ASSUME Control, [Next]_vars PROVE Control'
  OBVIOUS
<1>0. TypeOK /\ TypeOK'
  BY TypeStep DEF Control
<1> USE DEF page, stream, gauge, axis, tries
<1> DEFINE Matches == InboxOfStream /\ TimersMatchState /\ NobodyIsForgotten
<1>1. Matches
  BY DEF Control
<1> SUFFICES Matches'
  BY <1>0 DEF Control
<1> USE <1>1 DEF InboxOfStream, TimersMatchState, NobodyIsForgotten
<1>2. CASE PageShown
  <2>1. CASE stopped
    BY <1>2, <2>1 DEF PageShown, Becomes
  <2>2. CASE ~stopped /\ Recent
    BY <1>2, <2>2 DEF PageShown, Becomes, Show, Recent
  <2>3. CASE ~stopped /\ ~Recent
    <3>1. visible' = TRUE /\ stopped' = FALSE
      BY <1>2, <2>3, <1>0 DEF PageShown, Becomes, TypeOK
    <3>2. Open(IF es # "none" THEN "connecting" ELSE conn, timers \ {"grace"})
      BY <1>2, <2>3 DEF PageShown, Show
    <3>3. /\ es' = "connecting" /\ inbox' = <<>>
          /\ timers' = (timers \ {"grace"}) \ {"retry", "health"}
          /\ conn' = "connecting" \/ (conn' = conn /\ conn # "idle")
      <4>1. CASE es # "none"
        BY <3>2, <4>1 DEF Open
      <4>2. CASE es = "none"
        BY <3>2, <4>2 DEF Open
      <4>3. QED
        BY <4>1, <4>2
    <3>4. timers' = {}
      BY <3>3, <1>0 DEF TypeOK, Timers
    <3>5. QED
      BY <3>1, <3>3, <3>4, <2>3
  <2>4. QED
    BY <2>1, <2>2, <2>3
<1>3. CASE PageHidden
  <2>1. CASE stopped
    BY <1>3, <2>1 DEF PageHidden, Becomes
  <2>2. CASE ~stopped /\ "retry" \in timers
    BY <1>3, <2>2 DEF PageHidden, Becomes, Hide, GoIdle, Disconnect
  <2>3. CASE ~stopped /\ "retry" \notin timers
    BY <1>3, <2>3 DEF PageHidden, Becomes, Hide
  <2>4. QED
    BY <2>1, <2>2, <2>3
<1>4. CASE PageSuspended
  BY <1>4 DEF PageSuspended, GoIdle, Disconnect
<1>5. CASE Stop
  BY <1>5 DEF Stop, Disconnect
<1>6. CASE GraceFires
  BY <1>6 DEF GraceFires, GoIdle, Disconnect
<1>7. CASE RetryFires
  BY <1>7 DEF RetryFires, Open, GoIdle, Disconnect
<1>8. CASE HealthFires
  BY <1>8 DEF HealthFires
<1>9. CASE OnOpen
  BY <1>9 DEF OnOpen, HeadIs
<1>10. CASE Apply
  BY <1>10 DEF Apply, HeadIs
<1>11. CASE Recycle
  BY <1>11 DEF Recycle, HeadIs, Open, GoIdle, Disconnect
<1>12. CASE OnStatus
  BY <1>12 DEF OnStatus, HeadIs
<1>13. CASE OnError
  BY <1>13 DEF OnError, HeadIs, GoIdle, Disconnect
<1>14. CASE Accepted \/ Sent \/ Lost
  <2>1. es # "none"
    BY <1>14, <1>0 DEF Accepted, Sent, Lost, Kinds
  <2>2. UNCHANGED <<page, es, conn, timers>>
    BY <1>14, NetworkQueuesEvents DEF Queue
  <2>3. QED
    BY <2>1, <2>2
<1>15. CASE Tick
  <2>1. UNCHANGED <<page, es, conn, timers>>
    BY <1>15 DEF Tick
  <2>2. inbox = <<>> => inbox' = <<>>
    BY <1>15, <1>0 DEF Tick, TypeOK
  <2>3. QED
    BY <2>1, <2>2
<1>16. CASE UNCHANGED vars
  BY <1>16 DEF vars
<1>17. QED
  BY <1>2, <1>3, <1>4, <1>5, <1>6, <1>7, <1>8, <1>9, <1>10, <1>11, <1>12,
     <1>13, <1>14, <1>15, <1>16 DEF Next, Dispatch

\* The driver's timer invariants, for every interleaving of signals, timers,
\* events and network failures.
THEOREM TimersAlwaysMatch == Spec => []TimersMatchState
<1>1. Control => TimersMatchState
  BY DEF Control
<1>2. QED
  BY <1>1, ControlInit, ControlStep, PTL DEF Spec

\* A visible tab always has a stream or a retry, a hidden one with a stream
\* always has a grace running out on it.
THEOREM NobodyEverForgotten == Spec => []NobodyIsForgotten
<1>1. Control => NobodyIsForgotten
  BY DEF Control
<1>2. QED
  BY <1>1, ControlInit, ControlStep, PTL DEF Spec

-----------------------------------------------------------------------------
(* The health shown. *)

LEMMA HealthStep ==
    Control /\ HealthIsOfThisStream /\ [Next]_vars => HealthIsOfThisStream'
<1> SUFFICES ASSUME Control, HealthIsOfThisStream, [Next]_vars
             PROVE  HealthIsOfThisStream'
  OBVIOUS
<1> USE DEF page, stream, gauge, axis, tries, HealthIsOfThisStream
<1>1. CASE PageShown
  <2>1. CASE stopped
    BY <1>1, <2>1 DEF PageShown, Control, TimersMatchState
  <2>2. CASE ~stopped /\ Recent
    BY <1>1, <2>2 DEF PageShown, Show, Recent
  <2>3. CASE ~stopped /\ ~Recent
    <3>1. Open(IF es # "none" THEN "connecting" ELSE conn, timers \ {"grace"})
      BY <1>1, <2>3 DEF PageShown, Show
    <3>2. es' = "connecting" /\ health' = "unknown" /\ srvDown' = FALSE
      BY <3>1 DEF Open
    <3>3. QED
      BY <3>2
  <2>4. QED
    BY <2>1, <2>2, <2>3
<1>2. CASE PageHidden
  BY <1>2 DEF PageHidden, Becomes, Hide, GoIdle, Disconnect
<1>3. CASE PageSuspended \/ Stop \/ GraceFires
  <2>1. es' = "none" \/ (stopped /\ PageSuspended)
    BY <1>3 DEF PageSuspended, Stop, GraceFires, GoIdle, Disconnect
  <2>2. CASE stopped /\ PageSuspended
    BY <2>2 DEF PageSuspended
  <2>3. QED
    BY <2>1, <2>2
<1>4. CASE RetryFires
  BY <1>4 DEF RetryFires, Open, GoIdle, Disconnect
<1>5. CASE HealthFires
  BY <1>5 DEF HealthFires, Resolve
<1>6. CASE OnOpen
  BY <1>6 DEF OnOpen, HeadIs, Control, InboxOfStream
<1>7. CASE Apply
  BY <1>7 DEF Apply, HeadIs, Resolve
<1>8. CASE Recycle
  BY <1>8 DEF Recycle, Open, GoIdle, Disconnect
<1>9. CASE OnStatus
  BY <1>9 DEF OnStatus, HeadIs, Resolve
<1>10. CASE OnError
  BY <1>10 DEF OnError, GoIdle, Disconnect
<1>11. CASE Accepted \/ Sent \/ Lost
  BY <1>11, NetworkQueuesEvents DEF Queue
<1>12. CASE Tick
  BY <1>12 DEF Tick
<1>13. CASE UNCHANGED vars
  BY <1>13 DEF vars
<1>14. QED
  BY <1>1, <1>2, <1>3, <1>4, <1>5, <1>6, <1>7, <1>8, <1>9, <1>10, <1>11,
     <1>12, <1>13 DEF Next, Dispatch

\* The health axis never shows what another connection, or a cached frame,
\* said, and never goes unwatched on a visible stream.
THEOREM HealthAlwaysOfThisStream == Spec => []HealthIsOfThisStream
<1>1. Init => HealthIsOfThisStream
  BY DEF Init, HealthIsOfThisStream
<1>2. QED
  BY <1>1, ControlInit, ControlStep, HealthStep, PTL DEF Spec

-----------------------------------------------------------------------------
(* Resume backlogs. *)

LEMMA BacklogInit == Init => Backlog
BY BoundsAreNumbers DEF Init, Backlog

LEMMA BacklogStep == TypeOK /\ Backlog /\ [Next]_vars => Backlog'
<1> SUFFICES ASSUME TypeOK, Backlog, [Next]_vars PROVE Backlog'
  OBVIOUS
<1>0. /\ inbox \in Seq(Events) /\ connAge \in Nat /\ skew \in Nat
      /\ \A i \in DOMAIN inbox : inbox[i].age \in Nat
  <2>1. inbox \in Seq(Events) /\ connAge \in Nat /\ skew \in Nat
    BY BoundsAreNumbers DEF TypeOK, Ages
  <2>2. \A e \in Events : e.age \in Nat
    BY BoundsAreNumbers DEF Events, Ages
  <2>3. QED
    BY <2>1, <2>2
<1> USE DEF page, stream, gauge, axis, tries
<1>1. ASSUME inbox' = <<>>, UNCHANGED applied,
             UNCHANGED skew \/ skew' = 0
      PROVE  Backlog'
  BY <1>1, BoundsAreNumbers DEF Backlog
<1>2. ASSUME UNCHANGED <<inbox, gauge, applied>> PROVE Backlog'
  BY <1>2 DEF Backlog
<1>3. CASE PageShown
  <2>1. UNCHANGED applied
    BY <1>3 DEF PageShown, Becomes
  <2>2. UNCHANGED <<inbox, gauge>> \/ (inbox' = <<>> /\ skew' = 0)
    BY <1>3 DEF PageShown, Show, Open
  <2>3. QED
    BY <1>1, <1>2, <2>1, <2>2
<1>4. CASE PageHidden
  <2>1. UNCHANGED <<gauge, applied>> /\ (inbox' = <<>> \/ UNCHANGED inbox)
    BY <1>4 DEF PageHidden, Becomes, Hide, GoIdle, Disconnect
  <2>2. QED
    BY <1>1, <1>2, <2>1
<1>5. CASE PageSuspended \/ Stop \/ GraceFires
  <2>1. UNCHANGED <<gauge, applied>> /\ (inbox' = <<>> \/ UNCHANGED inbox)
    BY <1>5 DEF PageSuspended, Stop, GraceFires, GoIdle, Disconnect
  <2>2. QED
    BY <1>1, <1>2, <2>1
<1>6. CASE RetryFires
  <2>1. UNCHANGED applied /\ inbox' = <<>>
        /\ (UNCHANGED skew \/ skew' = 0)
    BY <1>6 DEF RetryFires, Open, GoIdle, Disconnect
  <2>2. QED
    BY <1>1, <2>1
<1>7. CASE HealthFires
  BY <1>2, <1>7 DEF HealthFires
<1>8. ASSUME inbox # <<>>, inbox' = Tail(inbox), UNCHANGED connAge,
             connAge <= FirstMsgAge
      PROVE  \A i \in DOMAIN inbox' : inbox'[i].age <= connAge' + MaxCached
  BY <1>8, TailOfInbox DEF Backlog
<1>9. CASE OnOpen \/ OnStatus
  <2>1. /\ inbox # <<>> /\ inbox' = Tail(inbox)
        /\ UNCHANGED <<gauge, applied>>
    BY <1>9 DEF OnOpen, OnStatus, HeadIs
  <2>2. QED
    BY <1>8, <2>1 DEF Backlog
<1>10. CASE Apply
  <2> DEFINE lag == Head(inbox).age
  <2>1. /\ inbox # <<>> /\ inbox' = Tail(inbox) /\ UNCHANGED connAge
        /\ gotFirst' = TRUE
        /\ ~TooOld(lag) /\ applied' = lag
        /\ skew' = IF gotFirst /\ skew <= lag THEN skew ELSE lag
    BY <1>10 DEF Apply, HeadIs
  <2>2. lag = inbox[1].age /\ lag \in Nat /\ 1 \in DOMAIN inbox
    BY <1>0, <2>1, TailOfInbox DEF Events, Ages
  <2> HIDE DEF lag
  <2>3. CASE gotFirst
    <3>1. skew <= FirstMsgAge + MaxCached /\ lag <= skew + StaleLag
      BY <1>0, <2>1, <2>2, <2>3, BoundsAreNumbers DEF TooOld, Backlog
    <3>2. skew' <= FirstMsgAge + MaxCached /\ applied' <= Oldest
      BY <1>0, <2>1, <2>2, <2>3, <3>1, BoundsAreNumbers DEF Oldest
    <3>3. QED
      BY <1>8, <2>1, <3>2 DEF Backlog
  <2>4. CASE ~gotFirst
    <3>1. connAge <= FirstMsgAge
      BY <1>0, <2>1, <2>4, BoundsAreNumbers DEF TooOld
    <3>2. lag <= FirstMsgAge + MaxCached
      BY <1>0, <2>2, <3>1, BoundsAreNumbers DEF Backlog
    <3>3. skew' <= FirstMsgAge + MaxCached /\ applied' <= Oldest
      BY <2>1, <2>2, <2>4, <3>2, BoundsAreNumbers DEF Oldest
    <3>4. QED
      BY <1>8, <2>1, <3>3 DEF Backlog
  <2>5. QED
    BY <2>3, <2>4
<1>11. CASE Recycle
  <2>1. CASE visible
    BY <1>1, <1>11, <2>1 DEF Recycle, Open
  <2>2. CASE ~visible
    <3>1. inbox' = <<>> /\ UNCHANGED <<skew, connAge, applied>>
      BY <1>11, <2>2 DEF Recycle, GoIdle, Disconnect
    <3>2. QED
      BY <3>1 DEF Backlog
  <2>3. QED
    BY <2>1, <2>2
<1>12. CASE OnError
  <2>1. inbox' = <<>> /\ UNCHANGED <<gauge, applied>>
    BY <1>12 DEF OnError, GoIdle, Disconnect
  <2>2. QED
    BY <1>1, <2>1
<1>13. CASE Accepted \/ Sent \/ Lost
  <2>1. PICK e \in Events : e.age <= MaxCached /\ Queue(e)
    BY <1>13, NetworkQueuesEvents
  <2>2. \A i \in DOMAIN inbox' :
          inbox'[i] = IF i = Len(inbox) + 1 THEN e ELSE inbox[i]
    BY <2>1, QueueKeepsType
  <2>3. DOMAIN inbox' = 1..Len(inbox) + 1 /\ UNCHANGED <<gauge, applied>>
    BY <2>1, QueueKeepsType DEF Queue
  <2>4. e.age \in Nat
    BY BoundsAreNumbers DEF Events, Ages
  <2>5. QED
    BY <1>0, <2>1, <2>2, <2>3, <2>4, BoundsAreNumbers DEF Backlog
<1>14. CASE Tick
  <2>1. /\ DOMAIN inbox' = DOMAIN inbox
        /\ connAge' = AtMost(FirstMsgAge + 1, connAge + 1)
        /\ UNCHANGED <<gotFirst, skew, applied>>
    BY <1>0, <1>14 DEF Tick
  <2>2. \A i \in DOMAIN inbox : inbox'[i].age <= inbox[i].age + 1
    <3> SUFFICES ASSUME NEW i \in DOMAIN inbox
                 PROVE  inbox'[i].age <= inbox[i].age + 1
      OBVIOUS
    <3>1. inbox[i] \in Events
      BY <1>0
    <3>2. inbox'[i].age = AtMost(AgeCap, inbox[i].age + 1) \/ inbox'[i] = inbox[i]
      BY <1>14, <3>1 DEF Tick, Events
    <3>3. QED
      BY <1>0, <3>2, BoundsAreNumbers DEF AtMost
  <2>3. connAge' <= FirstMsgAge => connAge' = connAge + 1 /\ connAge <= FirstMsgAge
    BY <1>0, <2>1, BoundsAreNumbers DEF AtMost
  <2>4. \A i \in DOMAIN inbox : inbox'[i].age \in Nat
    <3>1. inbox' \in Seq(Events)
      BY TypeStep DEF TypeOK
    <3>2. \A e \in Events : e.age \in Nat
      BY BoundsAreNumbers DEF Events, Ages
    <3>3. QED
      BY <2>1, <3>1, <3>2
  <2>5. UNCHANGED <<skew, applied>>
    BY <2>1
  <2>6. ASSUME connAge' <= FirstMsgAge, NEW i \in DOMAIN inbox'
        PROVE  inbox'[i].age <= connAge' + MaxCached
    <3>1. /\ i \in DOMAIN inbox /\ connAge' = connAge + 1 /\ connAge \in Nat
          /\ inbox[i].age <= connAge + MaxCached /\ inbox'[i].age <= inbox[i].age + 1
      BY <1>0, <2>1, <2>2, <2>3, <2>6 DEF Backlog
    <3>2. inbox[i].age \in Nat /\ inbox'[i].age \in Nat /\ MaxCached \in Nat
      BY <1>0, <2>4, <3>1, BoundsAreNumbers DEF Events
    <3>3. QED
      BY <3>1, <3>2
  <2>7. QED
    BY <1>0, <2>5, <2>6, BoundsAreNumbers DEF Backlog
<1>15. CASE UNCHANGED vars
  BY <1>2, <1>15 DEF vars
<1>16. QED
  BY <1>3, <1>4, <1>5, <1>6, <1>7, <1>9, <1>10, <1>11, <1>12, <1>13, <1>14,
     <1>15 DEF Next, Dispatch

\* No message older than the three tolerances together is ever applied,
\* whatever sleeps, freezes or delays come between queueing and dispatch.
THEOREM BacklogAlwaysBounded == Spec => []BacklogIsBounded
<1>1. Backlog => BacklogIsBounded
  BY DEF Backlog, BacklogIsBounded
<1>2. QED
  BY <1>1, TypeInit, TypeStep, BacklogInit, BacklogStep, PTL DEF Spec

-----------------------------------------------------------------------------
(* The delay between attempts. *)

\* The delays double from the first, and are numbers (backoffMs).
LEMMA DelaysDouble ==
    /\ Delay[0] = BackoffMin
    /\ \A n \in 0..MaxFails : Delay[n] \in Nat
    /\ \A n \in 1..MaxFails : Delay[n] = Delay[n - 1] * 2
<1> DEFINE Next1(f) == [n \in 0..MaxFails |-> IF n = 0 THEN BackoffMin ELSE f[n - 1] * 2]
           step == [n \in 1..MaxFails |-> [d \in Nat |-> d * 2]]
           values == Nat
           top == MaxFails
<1>0. BackoffMin \in Nat /\ MaxFails \in Nat
  BY DriverAssumption
<1>1. 0 \in Int /\ top \in Int /\ 0 <= top /\ BackoffMin \in values
      /\ step \in StepsAlong(0, top, values)
  <2>1. step \in StepsAlong(0, MaxFails, Nat)
    BY DEF StepsAlong
  <2> QED
    BY <1>0, <2>1
<1>2. \A n \in 1..MaxFails : \A d \in Nat : step[n][d] = d * 2
  OBVIOUS
<1> HIDE DEF step, values, top
<1>3. PICK f \in [0..top -> values] : Follows(f, 0, top, BackoffMin, step)
  BY <1>1, IntervalRecursion
<1>4. f \in [0..MaxFails -> Nat]
  BY DEF values, top
<1>5. \A n \in 1..MaxFails : n - 1 \in 0..MaxFails /\ n \in 0..MaxFails /\ n # 0
  BY <1>0
<1>6. \A n \in 1..MaxFails : f[n - 1] \in Nat
  BY <1>4, <1>5
<1>7. f = [n \in 0..MaxFails |-> IF n = 0 THEN BackoffMin ELSE step[n][f[n - 1]]]
  BY <1>3 DEF Follows, top
<1>8. \A n \in 0..MaxFails : f[n] = Next1(f)[n]
  <2>1. \A n \in 0..MaxFails : n # 0 => n \in 1..MaxFails
    BY <1>0
  <2> QED
    BY <1>2, <1>6, <1>7, <2>1
<1>9. f = Next1(f)
  BY <1>7, <1>8
<1> HIDE DEF Next1
<1>10. Delay = Next1(Delay)
  <2>1. Delay = CHOOSE g : g = Next1(g)
    BY DEF Delay, Next1
  <2> QED
    BY <1>9, <2>1
<1>11. \A n \in 0..MaxFails : Delay[n] = IF n = 0 THEN BackoffMin ELSE Delay[n - 1] * 2
  BY <1>10 DEF Next1
<1> DEFINE Numbers == {n \in Nat : n <= MaxFails => Delay[n] \in Nat}
<1>12. 0 \in Numbers
  BY <1>0, <1>11
<1>13. ASSUME NEW n \in Nat, n \in Numbers PROVE n + 1 \in Numbers
  <2>1. CASE n + 1 <= MaxFails
    <3>1. Delay[n] \in Nat
      BY <1>0, <1>13, <2>1
    <3>2. n + 1 \in 0..MaxFails /\ n + 1 # 0 /\ (n + 1) - 1 = n
      BY <1>0, <2>1
    <3>3. Delay[n + 1] = Delay[(n + 1) - 1] * 2
      BY <1>11, <3>2
    <3>4. Delay[n + 1] \in Nat
      BY <3>1, <3>2, <3>3
    <3> QED
      BY <3>4
  <2>2. CASE ~(n + 1 <= MaxFails)
    BY <2>2
  <2> QED
    BY <2>1, <2>2
<1> HIDE DEF Numbers
<1>14. Nat \subseteq Numbers
  BY <1>12, <1>13, NaturalInduction
<1>15. \A n \in 0..MaxFails : Delay[n] \in Nat
  <2>1. \A n \in 0..MaxFails : n \in Nat /\ n <= MaxFails
    BY <1>0
  <2> QED
    BY <1>14, <2>1 DEF Numbers
<1>16. Delay[0] = BackoffMin
  BY <1>0, <1>11
<1>17. \A n \in 1..MaxFails : Delay[n] = Delay[n - 1] * 2
  BY <1>5, <1>11
<1> QED
  BY <1>15, <1>16, <1>17

\* A failure doubles the delay, and the ceiling is not left again (onerror).
LEMMA FailureDoubles ==
    ASSUME TypeOK, BackoffMatchesFailures, backoff' = Grown(backoff),
           fails' = AtMost(MaxFails, fails + 1)
    PROVE  BackoffMatchesFailures'
<1>1. /\ fails \in 0..MaxFails /\ MaxFails \in Nat /\ BackoffMax \in Nat
      /\ Delay[MaxFails] >= BackoffMax
  BY DriverAssumption, FailsReachCeiling DEF TypeOK
<1>2. \A n \in 0..MaxFails : Delay[n] \in Nat
  BY DelaysDouble
<1>3. CASE fails < MaxFails
  <2>1. fails' = fails + 1 /\ fails + 1 \in 1..MaxFails /\ (fails + 1) - 1 = fails
        /\ fails + 1 \in 0..MaxFails
    BY <1>1, <1>3 DEF AtMost
  <2> DEFINE next == fails + 1
             now == Delay[fails]
  <2>2. Delay[next] = Delay[next - 1] * 2
    BY <2>1, DelaysDouble
  <2>3. Delay[next] = now * 2
    BY <2>1, <2>2
  <2>4. now \in Nat
    BY <1>1, <1>2
  <2>5. backoff = AtMost(BackoffMax, now)
    BY DEF BackoffMatchesFailures
  <2>6. fails' = next
    BY <2>1
  <2> HIDE DEF next, now
  <2>7. Grown(backoff) = AtMost(BackoffMax, now * 2)
    BY <1>1, <2>4, <2>5 DEF AtMost, Grown
  <2> QED
    BY <2>3, <2>6, <2>7 DEF BackoffMatchesFailures
<1>4. CASE fails = MaxFails
  <2> DEFINE last == Delay[MaxFails]
  <2>1. fails' = MaxFails
    BY <1>1, <1>4 DEF AtMost
  <2>2. last \in Nat /\ last >= BackoffMax
    BY <1>1, <1>2, <1>4
  <2>3. backoff = AtMost(BackoffMax, last)
    BY <1>4 DEF BackoffMatchesFailures
  <2> HIDE DEF last
  <2>4. Grown(backoff) = AtMost(BackoffMax, last)
    BY <1>1, <2>2, <2>3 DEF AtMost, Grown
  <2> QED
    BY <2>1, <2>4 DEF BackoffMatchesFailures, last
<1> QED
  BY <1>1, <1>3, <1>4

LEMMA BackoffStep ==
    ASSUME TypeOK, BackoffMatchesFailures, [Next]_vars
    PROVE  BackoffMatchesFailures'
<1>1. ASSUME UNCHANGED tries PROVE BackoffMatchesFailures'
  BY <1>1 DEF tries, BackoffMatchesFailures
<1>2. ASSUME backoff' = BackoffMin, fails' = 0 PROVE BackoffMatchesFailures'
  <2>1. BackoffMin = AtMost(BackoffMax, BackoffMin)
    BY DriverAssumption DEF AtMost
  <2> QED
    BY <1>2, <2>1, DelaysDouble DEF BackoffMatchesFailures
<1>3. CASE OnOpen
  BY <1>2, <1>3 DEF OnOpen
<1>4. CASE OnError
  BY <1>1, <1>4, FailureDoubles DEF OnError
<1>5. CASE PageShown \/ PageHidden \/ PageSuspended \/ Stop
  BY <1>1, <1>5 DEF PageShown, PageHidden, Becomes, PageSuspended, Stop
<1>6. CASE GraceFires \/ RetryFires \/ HealthFires
  BY <1>1, <1>6 DEF GraceFires, RetryFires, HealthFires, tries
<1>7. CASE Apply \/ Recycle \/ OnStatus
  BY <1>1, <1>7 DEF Apply, Recycle, OnStatus
<1>8. CASE Accepted \/ Sent \/ Lost
  BY <1>1, <1>8, NetworkQueuesEvents DEF Queue
<1>9. CASE Tick
  BY <1>1, <1>9 DEF Tick
<1>10. CASE UNCHANGED vars
  BY <1>1, <1>10 DEF vars
<1> QED
  BY <1>3, <1>4, <1>5, <1>6, <1>7, <1>8, <1>9, <1>10 DEF Next, Dispatch

\* The delay doubles with every failure a visible tab sees, through hiding,
\* showing and staleness, until a connection opens (invariant 2).
THEOREM BackoffAlwaysMatches == Spec => []BackoffMatchesFailures
<1>1. Init => BackoffMatchesFailures
  <2>1. BackoffMin = AtMost(BackoffMax, BackoffMin)
    BY DriverAssumption DEF AtMost
  <2> QED
    BY <2>1, DelaysDouble DEF Init, BackoffMatchesFailures
<1> QED
  BY <1>1, TypeInit, TypeStep, BackoffStep, PTL DEF Spec

-----------------------------------------------------------------------------
(* The detail panel. *)

FlightType ==
    [kind : {"none", "load", "refresh", "mutation", "reload"},
     of : Hashes \cup {NoHash}, tab : Tabs, latest : BOOLEAN, got : -1..MaxVersion]

\* At most one refresh is the latest, and it is one of an open torrent.
OneLatest(out) ==
    /\ \A f, g \in Slots : out[f].latest /\ out[g].latest => f = g
    /\ \A f \in Slots : out[f].latest => out[f].kind = "refresh"
    /\ \A f \in Slots : out[f].kind # "none" => out[f].of \in Hashes

\* What the latest refresh was told is no older than what was shown of it before.
LatestIsNewest ==
    /\ \A h \in Hashes, t \in Tabs : refreshed[h][t] <= version[h]
    /\ \A f \in Slots :
           (flights[f].latest /\ flights[f].got # -1) =>
               /\ flights[f].got >= refreshed[flights[f].of][flights[f].tab]
               /\ flights[f].got <= version[flights[f].of]

PanelInv == PanelTypeOK /\ OneLatest(flights) /\ LatestIsNewest

\* A request that leaves takes a free slot and leaves the others alone
\* (fetch of load, refreshActive and the mutations).
LEMMA LaunchedFills ==
    ASSUME NEW out \in [Slots -> FlightType], NEW request \in FlightType,
           \E f \in Slots : out[f].kind = "none"
    PROVE  /\ Launched(out, request) \in [Slots -> FlightType]
           /\ \E f \in Slots : /\ out[f].kind = "none" /\ Launched(out, request)[f] = request
                               /\ \A g \in Slots \ {f} : Launched(out, request)[g] = out[g]
<1> DEFINE slot == CHOOSE f \in Slots : out[f].kind = "none"
<1>1. slot \in Slots /\ out[slot].kind = "none"
  OBVIOUS
<1>2. Launched(out, request) = [out EXCEPT ![slot] = request]
  BY DEF Launched
<1> HIDE DEF slot
<1> QED
  BY <1>1, <1>2

\* A load or a mutation that leaves disturbs no refresh (load, setFilePriority,
\* toggleTracker).
LEMMA LaunchKeeps ==
    ASSUME NEW out \in [Slots -> FlightType], NEW request \in FlightType,
           request.kind # "none", ~request.latest, request.of \in Hashes,
           \E f \in Slots : out[f].kind = "none",
           OneLatest(out)
    PROVE  /\ OneLatest(Launched(out, request))
           /\ \A f \in Slots : Launched(out, request)[f].latest => Launched(out, request)[f] = out[f]
           /\ \A f \in Slots : out[f].kind # "none" => Launched(out, request)[f] = out[f]
<1>1. PICK s \in Slots : /\ out[s].kind = "none" /\ Launched(out, request)[s] = request
                         /\ \A g \in Slots \ {s} : Launched(out, request)[g] = out[g]
  BY LaunchedFills
<1> QED
  BY <1>1 DEF OneLatest

\* A refresh that leaves is the latest, and has not been answered
\* (refreshActive until its await).
LEMMA RefreshIsLatest ==
    ASSUME NEW out \in [Slots -> FlightType], NEW h \in Hashes, NEW t \in Tabs,
           \E f \in Slots : out[f].kind = "none", PanelTypeOK,
           OneLatest(out)
    PROVE  LET left == Refreshed(out, h, t)
           IN /\ left \in [Slots -> FlightType]
              /\ OneLatest(left)
              /\ \A f \in Slots : left[f].latest => left[f] = out[f] \/ left[f].got = -1
              /\ \A f \in Slots : out[f].kind # "none" => left[f].kind = out[f].kind
<1> DEFINE over == Superseded(out)
           request == Flight("refresh", h, t)
<1>1. over \in [Slots -> FlightType] /\ \A f \in Slots : ~over[f].latest
                /\ over[f].kind = out[f].kind /\ over[f].of = out[f].of
  BY DEF Superseded, FlightType
<1>2. request \in FlightType /\ request.got = -1 /\ request.kind = "refresh" /\ request.of = h
  BY PanelAssumption DEF Flight, FlightType
<1> HIDE DEF over, request
<1>3. \E f \in Slots : over[f].kind = "none"
  BY <1>1
<1>4. PICK s \in Slots : /\ over[s].kind = "none" /\ Launched(over, request)[s] = request
                         /\ \A g \in Slots \ {s} : Launched(over, request)[g] = over[g]
  BY <1>1, <1>2, <1>3, LaunchedFills
<1>5. Launched(over, request) \in [Slots -> FlightType]
  BY <1>1, <1>2, <1>3, LaunchedFills
<1>6. CASE busy
  BY <1>6 DEF Refreshed
<1>7. CASE ~busy
  <2>1. Refreshed(out, h, t) = Launched(over, request)
    BY <1>7 DEF Refreshed, over, request
  <2>2. OneLatest(Launched(over, request))
    BY <1>1, <1>2, <1>4 DEF OneLatest
  <2> QED
    BY <1>1, <1>2, <1>4, <1>5, <2>1, <2>2
<1> QED
  BY <1>6, <1>7

\* Flights of which the latest is as before or has not been answered keep the
\* invariant, as long as the torrents and what was shown are as before.
LEMMA LatestKept ==
    ASSUME PanelInv, flights' \in [Slots -> FlightType], OneLatest(flights'),
           \A f \in Slots : flights'[f].latest => flights'[f] = flights[f] \/ flights'[f].got = -1,
           UNCHANGED <<version, refreshed>>
    PROVE  LatestIsNewest'
BY DEF PanelInv, PanelTypeOK, OneLatest, LatestIsNewest, FlightType


\* A request that leaves for a load or a mutation keeps the invariant (load,
\* setFilePriority, toggleTracker).
LEMMA LaunchKeepsFlights ==
    ASSUME PanelInv, NEW h \in Hashes, NEW t \in Tabs, NEW kind \in {"load", "mutation"},
           Free # {}
    PROVE  /\ Launched(flights, Flight(kind, h, t)) \in [Slots -> FlightType]
           /\ OneLatest(Launched(flights, Flight(kind, h, t)))
           /\ \A f \in Slots : Launched(flights, Flight(kind, h, t))[f].latest =>
                  Launched(flights, Flight(kind, h, t))[f] = flights[f]
           /\ \A f \in Slots : flights[f].kind # "none" =>
                  Launched(flights, Flight(kind, h, t))[f] = flights[f]
<1> DEFINE request == Flight(kind, h, t)
<1>1. request \in FlightType /\ request.kind # "none" /\ ~request.latest /\ request.of \in Hashes
  <2>1. request = [kind |-> kind, of |-> h, tab |-> t, latest |-> FALSE, got |-> -1]
    BY DEF Flight
  <2>2. -1 \in -1..MaxVersion
    BY PanelAssumption
  <2> QED
    BY <2>1, <2>2 DEF FlightType
<1>2. flights \in [Slots -> FlightType] /\ OneLatest(flights)
  BY DEF PanelInv, PanelTypeOK, FlightType
<1>3. \E f \in Slots : flights[f].kind = "none"
  BY DEF Free
<1> HIDE DEF request
<1>4. Launched(flights, request) \in [Slots -> FlightType]
  BY <1>1, <1>2, <1>3, LaunchedFills
<1>5. /\ OneLatest(Launched(flights, request))
      /\ \A f \in Slots : Launched(flights, request)[f].latest =>
             Launched(flights, request)[f] = flights[f]
      /\ \A f \in Slots : flights[f].kind # "none" =>
             Launched(flights, request)[f] = flights[f]
  BY <1>1, <1>2, <1>3, LaunchKeeps
<1> QED
  BY <1>4, <1>5 DEF request

\* The invariant holds while the user opens, closes, switches and changes things
\* (DetailState's methods, pollWhileVisible).
LEMMA UserKeepsPanel ==
    ASSUME PanelInv, UserActs
    PROVE  PanelInv'
<1>0. acts' \in 0..MaxActs /\ flights \in [Slots -> FlightType] /\ OneLatest(flights)
  BY PanelAssumption DEF PanelInv, PanelTypeOK, UserActs, FlightType
<1>1. ASSUME NEW h \in Hashes, OpenPanel(h)
      PROVE  PanelInv'
  <2> DEFINE loading == Launched(flights, Flight("load", h, "general"))
  <2>1. PICK f \in Slots, g \in Slots : f # g /\ flights[f].kind = "none" /\ flights[g].kind = "none"
    BY <1>1 DEF OpenPanel, Free
  <2>2. "general" \in Tabs /\ Free # {}
    BY <2>1, PanelAssumption DEF Free
  <2>3. /\ loading \in [Slots -> FlightType] /\ OneLatest(loading)
        /\ \A s \in Slots : loading[s].latest => loading[s] = flights[s]
    BY <2>2, LaunchKeepsFlights
  <2>4. \E s \in Slots : loading[s].kind = "none"
    <3>1. Flight("load", h, "general") \in FlightType
      BY PanelAssumption DEF Flight, FlightType
    <3>2. PICK s \in Slots : \A e \in Slots \ {s} :
                     Launched(flights, Flight("load", h, "general"))[e] = flights[e]
      <4> DEFINE request == Flight("load", h, "general")
      <4>1. request \in FlightType
        BY <3>1
      <4> HIDE DEF request
      <4>2. \E s \in Slots : \A e \in Slots \ {s} : Launched(flights, request)[e] = flights[e]
        <5>1. \E e \in Slots : flights[e].kind = "none"
          BY <2>1
        <5>2. \E d \in Slots : /\ flights[d].kind = "none" /\ Launched(flights, request)[d] = request
                  /\ \A e \in Slots \ {d} : Launched(flights, request)[e] = flights[e]
          BY <1>0, <4>1, <5>1, LaunchedFills
        <5> QED
          BY <5>2
      <4> QED
        BY <4>2 DEF request
    <3> QED
      BY <2>1, <3>2 DEF loading
  <2>5. PanelTypeOK
    BY DEF PanelInv
  <2> HIDE DEF loading
  <2>6. /\ flights' \in [Slots -> FlightType] /\ OneLatest(flights')
        /\ \A s \in Slots : flights'[s].latest => flights'[s] = flights[s] \/ flights'[s].got = -1
    <3>1. CASE inView /\ active = NoHash
      <4>1. flights' = Refreshed(loading, h, "general")
        BY <1>1, <3>1 DEF OpenPanel, loading
      <4> QED
        BY <2>2, <2>3, <2>4, <2>5, <4>1, RefreshIsLatest
    <3>2. CASE ~(inView /\ active = NoHash)
      <4>1. flights' = loading
        BY <1>1, <3>2 DEF OpenPanel, loading
      <4> QED
        BY <2>3, <4>1
    <3> QED
      BY <3>1, <3>2
  <2>7. UNCHANGED <<busy, inView, version, refreshed>> /\ active' = h /\ tab' = "general"
        /\ shown' = [shown EXCEPT !["general"] = Nothing]
    BY <1>1 DEF OpenPanel
  <2>8. LatestIsNewest'
    BY <2>6, <2>7, LatestKept
  <2>9. PanelTypeOK'
    BY <1>0, <2>2, <2>6, <2>7, PanelAssumption DEF PanelInv, PanelTypeOK, FlightType, Nothing
  <2> QED
    BY <2>6, <2>8, <2>9 DEF PanelInv
<1>2. CASE Close
  <2>1. UNCHANGED <<tab, shown, busy, inView, flights, version, refreshed>> /\ active' = NoHash
    BY <1>2 DEF Close
  <2>2. PanelTypeOK'
    BY <1>0, <2>1 DEF PanelInv, PanelTypeOK
  <2>3. LatestIsNewest'
    BY <2>1 DEF PanelInv, LatestIsNewest
  <2> QED
    BY <2>1, <2>2, <2>3 DEF PanelInv
<1>3. ASSUME NEW t \in Tabs, SetTab(t)
      PROVE  PanelInv'
  <2>1. UNCHANGED <<active, shown, busy, inView, version, refreshed>> /\ tab' = t
        /\ flights' = Launched(flights, Flight("load", active, t))
    BY <1>3 DEF SetTab
  <2>2. active \in Hashes /\ Free # {}
    BY <1>3 DEF SetTab, PanelInv, PanelTypeOK
  <2>3. /\ flights' \in [Slots -> FlightType] /\ OneLatest(flights')
        /\ \A s \in Slots : flights'[s].latest => flights'[s] = flights[s]
    BY <2>1, <2>2, LaunchKeepsFlights
  <2>4. LatestIsNewest'
    BY <2>1, <2>3, LatestKept
  <2>5. PanelTypeOK'
    BY <1>0, <2>1, <2>3 DEF PanelInv, PanelTypeOK, FlightType
  <2> QED
    BY <2>3, <2>4, <2>5 DEF PanelInv
<1>4. CASE Mutate
  <2>1. UNCHANGED <<active, tab, shown, inView, version, refreshed>> /\ busy' = TRUE
        /\ flights' = Launched(flights, Flight("mutation", active, tab))
    BY <1>4 DEF Mutate
  <2>2. active \in Hashes /\ tab \in Tabs /\ Free # {}
    BY <1>4 DEF Mutate, PanelInv, PanelTypeOK
  <2>3. /\ flights' \in [Slots -> FlightType] /\ OneLatest(flights')
        /\ \A s \in Slots : flights'[s].latest => flights'[s] = flights[s]
    BY <2>1, <2>2, LaunchKeepsFlights
  <2>4. LatestIsNewest'
    BY <2>1, <2>3, LatestKept
  <2>5. PanelTypeOK'
    BY <1>0, <2>1, <2>3 DEF PanelInv, PanelTypeOK, FlightType
  <2> QED
    BY <2>3, <2>4, <2>5 DEF PanelInv
<1>5. CASE Look
  <2>1. UNCHANGED <<active, tab, shown, busy, version, refreshed>> /\ inView' = ~inView
    BY <1>5 DEF Look
  <2>2. /\ flights' \in [Slots -> FlightType] /\ OneLatest(flights')
        /\ \A s \in Slots : flights'[s].latest => flights'[s] = flights[s] \/ flights'[s].got = -1
    <3>1. CASE inView' /\ active # NoHash
      <4>1. /\ flights' = Refreshed(flights, active, tab) /\ active \in Hashes /\ tab \in Tabs
            /\ \E f \in Slots : flights[f].kind = "none"
        BY <1>5, <3>1 DEF Look, PanelInv, PanelTypeOK, Free
      <4>2. PanelTypeOK
        BY DEF PanelInv
      <4> QED
        BY <1>0, <4>1, <4>2, RefreshIsLatest
    <3>2. CASE ~(inView' /\ active # NoHash)
      <4>1. flights' = flights
        BY <1>5, <3>2 DEF Look
      <4> QED
        BY <1>0, <4>1
    <3> QED
      BY <3>1, <3>2
  <2>3. LatestIsNewest'
    BY <2>1, <2>2, LatestKept
  <2>4. PanelTypeOK'
    BY <1>0, <2>1, <2>2 DEF PanelInv, PanelTypeOK, FlightType
  <2> QED
    BY <2>2, <2>3, <2>4 DEF PanelInv
<1> QED
  BY <1>1, <1>2, <1>3, <1>4, <1>5 DEF UserActs


\* The invariant holds while the server answers and answers arrive, or do not
\* (what follows the awaits of DetailState).
LEMMA AnswersKeepPanel ==
    ASSUME PanelInv, NEW f \in Slots, Serve(f) \/ Ends(f)
    PROVE  PanelInv'
<1>0. /\ flights \in [Slots -> FlightType] /\ OneLatest(flights) /\ PanelTypeOK
      /\ NoFlight \in FlightType /\ ~NoFlight.latest /\ NoFlight.kind = "none"
  BY PanelAssumption DEF PanelInv, PanelTypeOK, FlightType, NoFlight
<1>1. CASE Serve(f)
  <2> DEFINE h == flights[f].of
             now == IF flights[f].kind = "mutation" THEN version[h] + 1 ELSE version[h]
  <2>1. h \in Hashes /\ now \in Nat /\ now <= MaxVersion /\ now >= version[h]
    BY <1>0, <1>1, PanelAssumption DEF Serve, OneLatest, PanelTypeOK
  <2>2. /\ version' = [version EXCEPT ![h] = now] /\ flights' = [flights EXCEPT ![f].got = now]
        /\ UNCHANGED <<active, tab, shown, busy, inView, refreshed, acts>>
    BY <1>1 DEF Serve
  <2> HIDE DEF now
  <2>3. flights' \in [Slots -> FlightType] /\ OneLatest(flights')
    BY <1>0, <2>1, <2>2 DEF FlightType, OneLatest
  <2>4. version' \in [Hashes -> 0..MaxVersion] /\ \A k \in Hashes : version'[k] >= version[k]
    BY <1>0, <2>1, <2>2, PanelAssumption DEF PanelTypeOK
  <2>5. PanelTypeOK'
    BY <1>0, <2>2, <2>3, <2>4 DEF PanelTypeOK, FlightType
  <2>6. \A k \in Hashes, t \in Tabs : refreshed'[k][t] <= version'[k]
    BY <1>0, <2>2, <2>4, PanelAssumption DEF PanelInv, LatestIsNewest, PanelTypeOK
  <2>7. ASSUME NEW g \in Slots, flights'[g].latest, flights'[g].got # -1
        PROVE  /\ flights'[g].got >= refreshed'[flights'[g].of][flights'[g].tab]
               /\ flights'[g].got <= version'[flights'[g].of]
    <3>1. flights'[g].of = flights[g].of /\ flights'[g].tab = flights[g].tab
          /\ flights[g].of \in Hashes /\ flights[g].tab \in Tabs /\ flights[g].latest
      BY <1>0, <2>2, <2>7 DEF FlightType, OneLatest
    <3>2. CASE g = f
      <4>1. flights'[g].got = now /\ version'[h] = now
        BY <1>0, <2>1, <2>2, <3>2 DEF FlightType, PanelTypeOK
      <4> QED
        BY <1>0, <2>1, <2>2, <2>4, <2>6, <3>1, <3>2, <4>1 DEF PanelTypeOK
    <3>3. CASE g # f
      <4>1. flights'[g] = flights[g]
        BY <1>0, <2>2, <3>3
      <4>2. flights[g].got >= refreshed[flights[g].of][flights[g].tab]
            /\ flights[g].got <= version[flights[g].of] /\ flights[g].got \in Int
        BY <1>0, <2>7, <4>1 DEF PanelInv, LatestIsNewest, FlightType
      <4> QED
        BY <1>0, <2>2, <2>4, <3>1, <4>1, <4>2 DEF PanelTypeOK
    <3> QED
      BY <3>2, <3>3
  <2>8. LatestIsNewest'
    BY <2>6, <2>7 DEF LatestIsNewest
  <2> QED
    BY <2>3, <2>5, <2>8 DEF PanelInv
<1>2. ASSUME flights' = [flights EXCEPT ![f] = NoFlight], UNCHANGED <<version, refreshed>>
      PROVE  flights' \in [Slots -> FlightType] /\ OneLatest(flights') /\ LatestIsNewest'
  <2>1. flights' \in [Slots -> FlightType] /\ OneLatest(flights')
        /\ \A g \in Slots : flights'[g].latest => flights'[g] = flights[g]
    BY <1>0, <1>2 DEF OneLatest
  <2>2. LatestIsNewest'
    BY <1>2, <2>1, LatestKept
  <2> QED
    BY <2>1, <2>2
<1>3. ASSUME flights[f].got # -1, flights[f].kind # "none"
      PROVE  Answered(f) \in [of : Hashes \cup {NoHash}, version : 0..MaxVersion]
             /\ flights[f].of \in Hashes /\ flights[f].got \in 0..MaxVersion
  BY <1>0, <1>3, PanelAssumption DEF FlightType, Answered, OneLatest
<1>4. CASE LoadArrives(f) \/ ReloadArrives(f)
  <2>1. /\ flights' = [flights EXCEPT ![f] = NoFlight]
        /\ UNCHANGED <<active, tab, inView, version, refreshed, acts>>
        /\ shown' = [shown EXCEPT ![flights[f].tab] = Answered(f)]
        /\ flights[f].kind # "none" /\ flights[f].got # -1
        /\ busy' \in {busy, FALSE}
    BY <1>4 DEF LoadArrives, ReloadArrives, Lands
  <2>2. flights' \in [Slots -> FlightType] /\ OneLatest(flights') /\ LatestIsNewest'
    BY <1>2, <2>1
  <2>3. PanelTypeOK'
    BY <1>0, <1>3, <2>1, <2>2 DEF PanelTypeOK, FlightType
  <2> QED
    BY <2>2, <2>3 DEF PanelInv
<1>5. CASE RefreshArrives(f)
  <2>1. /\ flights' = [flights EXCEPT ![f] = NoFlight]
        /\ UNCHANGED <<active, tab, busy, inView, version, acts>>
        /\ flights[f].kind # "none" /\ flights[f].got # -1
    BY <1>5 DEF RefreshArrives, Lands
  <2>2. CASE ~Applies(f)
    <3>1. UNCHANGED <<shown, refreshed>>
      BY <1>5, <2>2 DEF RefreshArrives
    <3>2. flights' \in [Slots -> FlightType] /\ OneLatest(flights') /\ LatestIsNewest'
      BY <1>2, <2>1, <3>1
    <3>3. PanelTypeOK'
      BY <1>0, <2>1, <3>1, <3>2 DEF PanelTypeOK, FlightType
    <3> QED
      BY <3>2, <3>3 DEF PanelInv
  <2>3. CASE Applies(f)
    <3>1. /\ shown' = [shown EXCEPT ![tab] = Answered(f)]
          /\ refreshed' = [refreshed EXCEPT ![flights[f].of][tab] = flights[f].got]
          /\ flights[f].latest
      BY <1>5, <2>3 DEF RefreshArrives, Applies
    <3>2. flights' \in [Slots -> FlightType] /\ \A g \in Slots : ~flights'[g].latest
      BY <1>0, <2>1, <3>1 DEF OneLatest
    <3>3. OneLatest(flights')
      BY <1>0, <2>1, <3>2 DEF OneLatest
    <3>4. /\ refreshed' \in [Hashes -> [Tabs -> 0..MaxVersion]]
          /\ \A h \in Hashes, t \in Tabs : refreshed'[h][t] =
                IF h = flights[f].of /\ t = tab THEN flights[f].got ELSE refreshed[h][t]
      BY <1>0, <1>3, <2>1, <3>1 DEF PanelTypeOK
    <3>5. PanelTypeOK'
      BY <1>0, <1>3, <2>1, <3>1, <3>2, <3>4 DEF PanelTypeOK, FlightType
    <3>6. flights[f].got <= version[flights[f].of]
      BY <2>1, <3>1 DEF PanelInv, LatestIsNewest
    <3>7. LatestIsNewest'
      BY <2>1, <3>2, <3>4, <3>6 DEF PanelInv, LatestIsNewest
    <3> QED
      BY <3>3, <3>5, <3>7 DEF PanelInv
  <2> QED
    BY <2>2, <2>3
<1>6. CASE MutationArrives(f)
  <2>1. /\ flights' = [flights EXCEPT ![f] =
               IF active = NoHash THEN NoFlight ELSE Flight("reload", active, tab)]
        /\ busy' = (busy /\ active # NoHash)
        /\ UNCHANGED <<active, tab, shown, inView, version, refreshed, acts>>
    BY <1>6 DEF MutationArrives
  <2>2. active \in Hashes => /\ Flight("reload", active, tab) \in FlightType
                             /\ ~Flight("reload", active, tab).latest
                             /\ Flight("reload", active, tab).of = active
    BY <1>0, PanelAssumption DEF PanelTypeOK, FlightType, Flight
  <2>3. flights' \in [Slots -> FlightType] /\ OneLatest(flights')
        /\ \A g \in Slots : flights'[g].latest => flights'[g] = flights[g]
    <3>1. CASE active = NoHash
      BY <1>0, <2>1, <3>1 DEF OneLatest
    <3>2. CASE active # NoHash
      <4>1. active \in Hashes
        BY <1>0, <3>2 DEF PanelTypeOK
      <4> QED
        BY <1>0, <2>1, <2>2, <3>2, <4>1 DEF OneLatest
    <3> QED
      BY <3>1, <3>2
  <2>4. LatestIsNewest'
    BY <2>1, <2>3, LatestKept
  <2>5. PanelTypeOK'
    BY <1>0, <2>1, <2>3 DEF PanelTypeOK, FlightType
  <2> QED
    BY <2>3, <2>4, <2>5 DEF PanelInv
<1>7. CASE Fails(f)
  <2>1. /\ flights' = [flights EXCEPT ![f] = NoFlight]
        /\ busy' = (IF flights[f].kind \in {"mutation", "reload"} THEN FALSE ELSE busy)
        /\ UNCHANGED <<active, tab, shown, inView, version, refreshed, acts>>
    BY <1>7 DEF Fails
  <2>2. flights' \in [Slots -> FlightType] /\ OneLatest(flights') /\ LatestIsNewest'
    BY <1>2, <2>1
  <2>3. PanelTypeOK'
    BY <1>0, <2>1, <2>2 DEF PanelTypeOK, FlightType
  <2> QED
    BY <2>2, <2>3 DEF PanelInv
<1> QED
  BY <1>1, <1>4, <1>5, <1>6, <1>7 DEF Ends

\* The interval's refresh keeps the invariant (pollWhileVisible).
LEMMA PollKeepsPanel ==
    ASSUME PanelInv, PollPanel
    PROVE  PanelInv'
<1>1. /\ flights' = Refreshed(flights, active, tab)
      /\ UNCHANGED <<active, tab, shown, busy, inView, version, refreshed, acts>>
      /\ active # NoHash /\ \E f \in Slots : flights[f].kind = "none"
  BY DEF PollPanel, Free
<1>2. /\ active \in Hashes /\ tab \in Tabs /\ PanelTypeOK /\ OneLatest(flights)
      /\ flights \in [Slots -> FlightType]
  BY <1>1 DEF PanelInv, PanelTypeOK, FlightType
<1>3. /\ flights' \in [Slots -> FlightType] /\ OneLatest(flights')
      /\ \A s \in Slots : flights'[s].latest => flights'[s] = flights[s] \/ flights'[s].got = -1
  BY <1>1, <1>2, RefreshIsLatest
<1>4. LatestIsNewest'
  BY <1>1, <1>3, LatestKept
<1>5. PanelTypeOK'
  BY <1>1, <1>2, <1>3 DEF PanelTypeOK, FlightType
<1> QED
  BY <1>3, <1>4, <1>5 DEF PanelInv

\* The panel's invariant is inductive (DetailState).
LEMMA PanelInductive == PanelSpec => []PanelInv
<1>1. PanelInit => PanelInv
  <2> SUFFICES ASSUME PanelInit PROVE PanelInv
    OBVIOUS
  <2>1. NoFlight \in FlightType /\ ~NoFlight.latest /\ NoFlight.kind = "none"
    BY PanelAssumption DEF FlightType, NoFlight
  <2>2. PanelTypeOK
    <3>1. flights \in [Slots -> FlightType]
      BY <2>1 DEF PanelInit
    <3>2. active \in Hashes \cup {NoHash} /\ tab \in Tabs /\ acts \in 0..MaxActs
      BY PanelAssumption DEF PanelInit
    <3>5. busy \in BOOLEAN /\ inView \in BOOLEAN
      BY DEF PanelInit
    <3>4. /\ version \in [Hashes -> 0..MaxVersion]
          /\ refreshed \in [Hashes -> [Tabs -> 0..MaxVersion]]
      <4>1. 0 \in 0..MaxVersion
        BY PanelAssumption
      <4> QED
        BY <4>1 DEF PanelInit
    <3>3. shown \in [Tabs -> [of : Hashes \cup {NoHash}, version : 0..MaxVersion]]
      <4>1. Nothing \in [of : Hashes \cup {NoHash}, version : 0..MaxVersion]
        BY PanelAssumption DEF Nothing
      <4> QED
        BY <4>1 DEF PanelInit
    <3> QED
      BY <3>1, <3>2, <3>3, <3>4, <3>5 DEF PanelTypeOK, FlightType
  <2>3. OneLatest(flights)
    BY <2>1 DEF PanelInit, OneLatest
  <2>4. \A h \in Hashes, t \in Tabs : refreshed[h][t] = 0 /\ version[h] = 0
    BY DEF PanelInit
  <2>5. LatestIsNewest
    BY <2>1, <2>4 DEF PanelInit, LatestIsNewest
  <2> QED
    BY <2>2, <2>3, <2>5 DEF PanelInv
<1>2. PanelInv /\ [PanelNext]_panelVars => PanelInv'
  <2> SUFFICES ASSUME PanelInv, [PanelNext]_panelVars PROVE PanelInv'
    OBVIOUS
  <2>1. CASE UserActs
    BY <2>1, UserKeepsPanel
  <2>2. CASE PollPanel
    BY <2>2, PollKeepsPanel
  <2>3. ASSUME NEW f \in Slots, Serve(f) \/ Ends(f) PROVE PanelInv'
    BY <2>3, AnswersKeepPanel
  <2>4. CASE UNCHANGED panelVars
    BY <2>4 DEF PanelInv, PanelTypeOK, OneLatest, LatestIsNewest, panelVars
  <2> QED
    BY <2>1, <2>2, <2>3, <2>4 DEF PanelNext, Work
<1> QED
  BY <1>1, <1>2, PTL DEF PanelSpec

\* The panel is type correct (DetailState).
THEOREM PanelTypeCorrect == PanelSpec => []PanelTypeOK
<1>1. PanelInv => PanelTypeOK
  BY DEF PanelInv
<1> QED
  BY <1>1, PanelInductive, PTL


\* A panel that is opened answers no refresh by itself (DetailState.open).
LEMMA OpeningEndsNothing ==
    ASSUME PanelInv, NEW h \in Hashes, OpenPanel(h), NEW f \in Slots, Lands(f, "refresh")
    PROVE  flights'[f] # NoFlight
<1> DEFINE loading == Launched(flights, Flight("load", h, "general"))
<1>1. PICK e \in Slots, g \in Slots : e # g /\ flights[e].kind = "none" /\ flights[g].kind = "none"
  BY DEF OpenPanel, Free
<1>2. "general" \in Tabs /\ Free # {} /\ flights[f].kind = "refresh" /\ PanelTypeOK
      /\ flights \in [Slots -> FlightType]
  BY <1>1, PanelAssumption DEF Free, Lands, PanelInv, PanelTypeOK, FlightType
<1>3. /\ loading \in [Slots -> FlightType] /\ OneLatest(loading)
      /\ \A s \in Slots : flights[s].kind # "none" => loading[s] = flights[s]
  BY <1>2, LaunchKeepsFlights
<1>4. \E s \in Slots : loading[s].kind = "none"
  <2> DEFINE request == Flight("load", h, "general")
  <2>1. request \in FlightType
    BY PanelAssumption DEF Flight, FlightType
  <2> HIDE DEF request
  <2>2. \E s \in Slots : /\ flights[s].kind = "none" /\ Launched(flights, request)[s] = request
            /\ \A k \in Slots \ {s} : Launched(flights, request)[k] = flights[k]
    BY <1>1, <1>2, <2>1, LaunchedFills
  <2>3. \E s \in Slots : \A k \in Slots \ {s} : loading[k] = flights[k]
    BY <2>2 DEF request
  <2> HIDE DEF loading
  <2> QED
    BY <1>1, <2>3
<1> HIDE DEF loading
<1>5. CASE inView /\ active = NoHash
  <2>1. flights' = Refreshed(loading, h, "general")
    BY <1>5 DEF OpenPanel, loading
  <2>2. Refreshed(loading, h, "general")[f].kind = loading[f].kind
    BY <1>2, <1>3, <1>4, RefreshIsLatest
  <2> QED
    BY <1>2, <1>3, <2>1, <2>2 DEF NoFlight
<1>6. CASE ~(inView /\ active = NoHash)
  <2>1. flights' = loading
    BY <1>6 DEF OpenPanel, loading
  <2> QED
    BY <1>2, <1>3, <2>1 DEF NoFlight
<1> QED
  BY <1>5, <1>6

\* Silent refreshes never go back in time and are shown in their place only, for
\* any torrents, tabs and number of requests out (refreshActive, refreshSeq).
THEOREM RefreshesAlwaysKeepTheirPlace == PanelSpec => RefreshesKeepTheirPlace
<1> DEFINE Onwards == \A h \in Hashes, t \in Tabs : refreshed'[h][t] >= refreshed[h][t]
           InPlace == \A f \in Slots :
                          (Lands(f, "refresh") /\ flights'[f] = NoFlight /\ shown' # shown) =>
                              /\ shown'[tab].of = active
                              /\ \A t \in Tabs \ {tab} : shown'[t] = shown[t]
<1>1. PanelInv /\ [PanelNext]_panelVars => Onwards /\ InPlace
  <2> SUFFICES ASSUME PanelInv, [PanelNext]_panelVars PROVE Onwards /\ InPlace
    OBVIOUS
  <2>0. /\ PanelTypeOK /\ OneLatest(flights) /\ flights \in [Slots -> FlightType]
        /\ refreshed \in [Hashes -> [Tabs -> 0..MaxVersion]]
    BY DEF PanelInv, PanelTypeOK, FlightType
  <2>1. ASSUME UNCHANGED refreshed PROVE Onwards
    BY <2>0, <2>1, PanelAssumption
  <2>2. ASSUME UNCHANGED shown PROVE InPlace
    BY <2>2
  <2>3. CASE UserActs
    <3>1. UNCHANGED refreshed
      BY <2>3 DEF UserActs, OpenPanel, Close, SetTab, Mutate, Look
    <3>2. ASSUME NEW h \in Hashes, OpenPanel(h) PROVE InPlace
      BY <3>2, OpeningEndsNothing
    <3>3. Close \/ (\E t \in Tabs : SetTab(t)) \/ Mutate \/ Look => UNCHANGED shown
      BY DEF Close, SetTab, Mutate, Look
    <3> QED
      BY <2>1, <2>2, <2>3, <3>1, <3>2, <3>3 DEF UserActs
  <2>4. CASE PollPanel
    BY <2>1, <2>2, <2>4 DEF PollPanel
  <2>5. ASSUME NEW g \in Slots, Serve(g) \/ MutationArrives(g) \/ Fails(g)
        PROVE  Onwards /\ InPlace
    <3>1. UNCHANGED <<shown, refreshed>>
      BY <2>5 DEF Serve, MutationArrives, Fails
    <3> QED
      BY <2>1, <2>2, <3>1
  <2>6. ASSUME NEW g \in Slots, LoadArrives(g) \/ ReloadArrives(g)
        PROVE  Onwards /\ InPlace
    <3>1. /\ flights' = [flights EXCEPT ![g] = NoFlight] /\ UNCHANGED refreshed
          /\ flights[g].kind \in {"load", "reload"}
      BY <2>6 DEF LoadArrives, ReloadArrives, Lands
    <3>2. ASSUME NEW f \in Slots, Lands(f, "refresh") PROVE flights'[f] # NoFlight
      BY <2>0, <3>1, <3>2 DEF Lands, NoFlight
    <3> QED
      BY <2>1, <3>1, <3>2
  <2>7. ASSUME NEW g \in Slots, RefreshArrives(g)
        PROVE  Onwards /\ InPlace
    <3>1. flights' = [flights EXCEPT ![g] = NoFlight] /\ flights[g].kind = "refresh"
          /\ flights[g].got # -1
      BY <2>7 DEF RefreshArrives, Lands
    <3>2. CASE ~Applies(g)
      BY <2>1, <2>2, <2>7, <3>2 DEF RefreshArrives
    <3>3. CASE Applies(g)
      <4>1. /\ shown' = [shown EXCEPT ![tab] = Answered(g)]
            /\ refreshed' = [refreshed EXCEPT ![flights[g].of][tab] = flights[g].got]
            /\ flights[g].latest /\ active = flights[g].of /\ tab = flights[g].tab
        BY <2>7, <3>3 DEF RefreshArrives, Applies
      <4>2. flights[g].got >= refreshed[flights[g].of][tab]
        BY <3>1, <4>1 DEF PanelInv, LatestIsNewest
      <4>3. flights[g].of \in Hashes /\ tab \in Tabs
        BY <2>0, <3>1 DEF OneLatest, PanelTypeOK
      <4>4. Onwards
        BY <2>0, <4>1, <4>2, <4>3, PanelAssumption
      <4>5. shown'[tab].of = active /\ \A t \in Tabs \ {tab} : shown'[t] = shown[t]
        BY <2>0, <4>1, <4>3 DEF PanelTypeOK, Answered
      <4> QED
        BY <4>4, <4>5
    <3> QED
      BY <3>2, <3>3
  <2>8. CASE UNCHANGED panelVars
    BY <2>1, <2>2, <2>8 DEF panelVars
  <2> QED
    BY <2>3, <2>4, <2>5, <2>6, <2>7, <2>8 DEF PanelNext, Work, Ends
<1> QED
  BY <1>1, PanelInductive, PTL DEF PanelSpec, RefreshesKeepTheirPlace

=============================================================================
