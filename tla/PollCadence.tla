----------------------------- MODULE PollCadence -----------------------------
(***************************************************************************)
(* How the demand for live data reaches the poll loop.                     *)
(*                                                                         *)
(* Every open event stream (api/server.go handleEvents) subscribes to the  *)
(* hub (sse/hub.go).  The hub's first subscriber and its last one leaving  *)
(* run a callback, under the hub's lock, that switches the poller          *)
(* (poll/poller.go) between its live and its idle cadence; going live also *)
(* nudges the loop through a channel of capacity one.  The goroutines of   *)
(* the streams, of the loop and of a shutdown interleave here at the       *)
(* granularity of the lock acquisitions: h.mu is held across a callback,   *)
(* p.mu is held only for straight-line code, so a section under p.mu is    *)
(* one step.                                                               *)
(*                                                                         *)
(* Time is abstracted to which of the two timers the loop has armed.       *)
(***************************************************************************)
EXTENDS Naturals

CONSTANT Clients        \* the event streams that may be open at the same time

VARIABLES
    subs,       \* hub.subs: the registered streams
    callback,   \* per stream: where its Subscribe / Unsubscribe is, under h.mu
    active,     \* poller.active
    wake,       \* number of tokens in poller.wake (capacity 1)
    done,       \* poller.done is closed
    loop,       \* where the run() goroutine is
    armed,      \* the interval time.After was given in the last select
    owed        \* ghost: streams that subscribed after the last poll began

vars == <<subs, callback, active, wake, done, loop, armed, owed>>

WakeCap == 1

\* "first" / "zero": inside the callback, before its section under p.mu;
\* "nudge": SetActive(true) is past p.mu and about to send on wake.
CallbackSteps == {"none", "first", "nudge", "zero"}
LoopSteps == {"off", "poll", "asking", "publish", "arm", "wait", "stopped"}

TypeOK ==
    /\ subs \subseteq Clients
    /\ callback \in [Clients -> CallbackSteps]
    /\ active \in BOOLEAN
    /\ wake \in 0..WakeCap
    /\ done \in BOOLEAN
    /\ loop \in LoopSteps
    /\ armed \in {"live", "idle"}
    /\ owed \subseteq Clients

\* h.mu is free: no stream is inside a callback.
HubFree == \A c \in Clients : callback[c] = "none"

Init ==
    /\ subs = {}
    /\ callback = [c \in Clients |-> "none"]
    /\ active = FALSE
    /\ wake = 0
    /\ done = FALSE
    /\ loop = "off"
    /\ armed = "idle"
    /\ owed = {}

-----------------------------------------------------------------------------
(* The hub, called from the goroutine of a stream. *)

\* Mutant of Subscribe: the callback of another stream may still be running.
SubscribeUnlocked(c) ==
    /\ c \notin subs
    /\ subs' = subs \cup {c}
    /\ owed' = owed \cup {c}
    /\ callback' = [callback EXCEPT ![c] = IF subs' = {c} THEN "first" ELSE "none"]
    /\ UNCHANGED <<active, wake, done, loop, armed>>

\* A stream opens.  The caller keeps h.mu when it is the only subscriber and
\* goes on to the onFirst callback.
Subscribe(c) ==
    /\ HubFree
    /\ c \notin subs
    /\ subs' = subs \cup {c}
    /\ owed' = owed \cup {c}
    /\ callback' = [callback EXCEPT ![c] = IF subs' = {c} THEN "first" ELSE "none"]
    /\ UNCHANGED <<active, wake, done, loop, armed>>

\* A stream's handler returns; the last one keeps h.mu for onZero.
Unsubscribe(c) ==
    /\ HubFree
    /\ c \in subs
    /\ subs' = subs \ {c}
    /\ owed' = owed \ {c}
    /\ callback' = [callback EXCEPT ![c] = IF subs' = {} THEN "zero" ELSE "none"]
    /\ UNCHANGED <<active, wake, done, loop, armed>>

\* Mutant of GoLive: no nudge.
GoLiveSilently(c) ==
    /\ callback[c] = "first"
    /\ active' = TRUE
    /\ callback' = [callback EXCEPT ![c] = "none"]
    /\ UNCHANGED <<subs, wake, done, loop, armed, owed>>

\* SetActive(true), the section under p.mu.  When nothing changed the callback
\* returns and the hub unlocks.
GoLive(c) ==
    /\ callback[c] = "first"
    /\ active' = TRUE
    /\ callback' = [callback EXCEPT ![c] = IF active THEN "none" ELSE "nudge"]
    /\ UNCHANGED <<subs, wake, done, loop, armed, owed>>

\* SetActive(true), after p.mu: the send that gives up when the channel is full.
Nudge(c) ==
    /\ callback[c] = "nudge"
    /\ wake' = IF wake < WakeCap THEN wake + 1 ELSE wake
    /\ callback' = [callback EXCEPT ![c] = "none"]
    /\ UNCHANGED <<subs, active, done, loop, armed, owed>>

\* SetActive(false): no nudge, the loop notices at its next select.
GoIdle(c) ==
    /\ callback[c] = "zero"
    /\ active' = FALSE
    /\ callback' = [callback EXCEPT ![c] = "none"]
    /\ UNCHANGED <<subs, wake, done, loop, armed, owed>>

-----------------------------------------------------------------------------
(* The poll loop. *)

\* main launches the loop once the sink is wired.
Start ==
    /\ loop = "off"
    /\ loop' = "poll"
    /\ UNCHANGED <<subs, callback, active, wake, done, armed, owed>>

\* tick() asks the source: a stream that is registered by now will be shown
\* what this poll returns.
BeginPoll ==
    /\ loop = "poll"
    /\ loop' = "asking"
    /\ owed' = {}
    /\ UNCHANGED <<subs, callback, active, wake, done, armed>>

\* The source answers, fails or runs into pollTimeout.  A failed poll that
\* changes no health returns at once, any other has something to publish.
PollReturns ==
    /\ loop = "asking"
    /\ loop' \in {"publish", "arm"}
    /\ UNCHANGED <<subs, callback, active, wake, done, armed, owed>>

\* tick() publishes to the hub, for which it needs h.mu.
PublishPoll ==
    /\ loop = "publish"
    /\ HubFree
    /\ loop' = "arm"
    /\ UNCHANGED <<subs, callback, active, wake, done, armed, owed>>

\* Mutant of ArmTimer: the two intervals are confused.
ArmOtherTimer ==
    /\ loop = "arm"
    /\ armed' = IF active THEN "idle" ELSE "live"
    /\ loop' = "wait"
    /\ UNCHANGED <<subs, callback, active, wake, done, owed>>

\* curInterval() is evaluated, and the timer armed, when the select is entered.
ArmTimer ==
    /\ loop = "arm"
    /\ armed' = IF active THEN "live" ELSE "idle"
    /\ loop' = "wait"
    /\ UNCHANGED <<subs, callback, active, wake, done, owed>>

TakeNudge ==
    /\ loop = "wait"
    /\ wake > 0
    /\ wake' = wake - 1
    /\ loop' = "poll"
    /\ UNCHANGED <<subs, callback, active, done, armed, owed>>

TimerFires(interval) ==
    /\ loop = "wait"
    /\ armed = interval
    /\ loop' = "poll"
    /\ UNCHANGED <<subs, callback, active, wake, done, armed, owed>>

\* Mutant of SeeDone: a break, which leaves only the select.
BreakOnDone ==
    /\ loop = "wait"
    /\ done
    /\ loop' = "poll"
    /\ UNCHANGED <<subs, callback, active, wake, done, armed, owed>>

SeeDone ==
    /\ loop = "wait"
    /\ done
    /\ loop' = "stopped"
    /\ UNCHANGED <<subs, callback, active, wake, done, armed, owed>>

\* Stop(): closes done unless it is closed.
Stop ==
    /\ ~done
    /\ done' = TRUE
    /\ UNCHANGED <<subs, callback, active, wake, loop, armed, owed>>

Next ==
    \/ \E c \in Clients :
         Subscribe(c) \/ Unsubscribe(c) \/ GoLive(c) \/ Nudge(c) \/ GoIdle(c)
    \/ Start \/ BeginPoll \/ PollReturns \/ PublishPoll \/ ArmTimer
    \/ TakeNudge \/ TimerFires("live") \/ TimerFires("idle") \/ SeeDone \/ Stop

(***************************************************************************)
(* Goroutines that can run do run: weak fairness on every callback and on  *)
(* every step of the loop. The source's context bounds a poll              *)
(* (pollTimeout), so a poll ends. A Go mutex hands itself to a waiter that *)
(* starves, so the publisher gets h.mu although streams keep taking it:    *)
(* strong fairness on PublishPoll. A select picks among its ready cases    *)
(* uniformly, so a case that is ready at select after select is picked:    *)
(* strong fairness on SeeDone. Nothing is assumed of the idle timer: what  *)
(* a stream is promised may not depend on it. Streams need not open or     *)
(* close, and nobody need call Stop (main never does; the tests do).       *)
(***************************************************************************)
Fairness ==
    /\ \A c \in Clients : WF_vars(GoLive(c)) /\ WF_vars(Nudge(c)) /\ WF_vars(GoIdle(c))
    /\ WF_vars(Start)
    /\ WF_vars(BeginPoll)
    /\ WF_vars(PollReturns)
    /\ SF_vars(PublishPoll)
    /\ WF_vars(ArmTimer)
    /\ WF_vars(TakeNudge)
    /\ WF_vars(TimerFires("live"))
    /\ SF_vars(SeeDone)

Spec == Init /\ [][Next]_vars
FairSpec == Spec /\ Fairness

-----------------------------------------------------------------------------
(* Properties. *)

\* Whenever the hub is unlocked the poller's cadence is the one its
\* subscribers call for: live exactly when one is connected.  A callback that
\* ran outside the hub's lock could land late and park the poller under a
\* connected browser.
CadenceMatchesDemand == HubFree => (active <=> subs # {})

\* The nudge cannot be lost: when the loop sleeps on the slow timer although
\* the poller is live, a token is in the channel or the callback that went
\* live is about to put one there.
NudgePending == \E c \in Clients : callback[c] = "nudge"

NoLostNudge ==
    (loop = "wait" /\ armed = "idle" /\ active) => (wake = WakeCap \/ NudgePending)

\* A connected stream is shown a poll that began after it subscribed, without
\* ever waiting for the idle timer, unless it leaves or the poller is stopped.
FreshPollForEveryStream ==
    \A c \in Clients : (c \in owed) ~> (c \notin owed \/ done)

\* A stopped poller's loop ends, however the streams keep nudging it.
StopEndsLoop == done ~> (loop = "stopped")

=============================================================================
