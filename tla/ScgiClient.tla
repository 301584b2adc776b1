------------------------------ MODULE ScgiClient ------------------------------
(***************************************************************************)
(* One request to the daemon (scgi/client.go Do and dial, scgi/frame.go    *)
(* parseResponse): wait for one of MaxInflight slots, dial with backoff    *)
(* until the connect budget is spent, write, read until the daemon closes, *)
(* unwrap the reply.  A context that is cancelled or runs out ends every   *)
(* one of these waits; while the call reads, a watcher goroutine does that *)
(* by yanking the connection's deadline.                                   *)
(*                                                                         *)
(* Timers count down in ticks and may be noticed any time after they have  *)
(* run out.  The write and the read are one wait: both end in the same     *)
(* ways.                                                                   *)
(***************************************************************************)
EXTENDS Integers, FiniteSets

CONSTANTS
    Calls,          \* requests
    MaxInflight,    \* New: the capacity of the slot channel
    ConnectBudget,  \* New: time a call may spend on failing dials
    ReadTimeout,    \* New: time from the connection to the end of the reply
    FirstBackoff,   \* dial: the first pause between two attempts
    BackoffCap,     \* dial: it doubles while it is below this
    Deadlines,      \* the callers' context deadlines, Never for none
    Never,          \* a timer that is not running out
    BodyLength      \* how long the body of a whole reply is

ASSUME ConstantsNat ==
    /\ {MaxInflight, FirstBackoff, BodyLength} \subseteq Nat \ {0}
    /\ {ConnectBudget, ReadTimeout, BackoffCap} \subseteq Nat
    /\ Never \in Nat /\ Deadlines \subseteq 0..Never
    /\ ConnectBudget < Never /\ ReadTimeout < Never
    /\ IsFiniteSet(Calls)

VARIABLES
    daemon,     \* "up", "hung" (accepts and never answers) or "down"
    inflight,   \* slots taken
    call        \* per request: where it is, its context, its timers, its end

vars == <<daemon, inflight, call>>

Earlier(s, t) == IF s < t THEN s ELSE t
TickDown(t) == IF t \in {0, Never} THEN t ELSE t - 1

\* Where a call holds a slot, and where it is under way at all.
Holding == {"dialing", "backoff", "io"}
UnderWay == {"queued"} \cup Holding

\* What is read until the daemon closes: whether it got as far as the end of the
\* headers, whether they hold a well-formed Content-Length, and how much of the
\* body has come.  A daemon that dies while it writes has cut its reply; the end
\* of the connection looks the same.
Frames == [separated : BOOLEAN, declared : BOOLEAN, length : 0..BodyLength]
NoFrame == [separated |-> FALSE, declared |-> FALSE, length |-> 0]
Whole(frame) == frame.separated /\ frame.length = BodyLength

TypeOK ==
    /\ daemon \in {"up", "hung", "down"}
    /\ inflight \in Nat
    /\ call \in [Calls -> [
           at : {"idle", "done"} \cup UnderWay,
           ctx : {"live", "cancelled", "expired"},
           left : 0..Never,         \* until the context's deadline
           giveUp : 0..Never,       \* until the dial budget is spent
           pause : 0..Never,        \* until the next attempt
           backoff : Nat,           \* the next pause
           io : 0..Never,           \* until the connection's deadline
           watcher : {"none", "watching", "yanked", "gone"},
           result : {"none", "body", "badFrame", "io", "ctx", "unreachable"},
           frame : Frames]]         \* the reply it has read

Idle == [at |-> "idle", ctx |-> "live", left |-> 0, giveUp |-> 0, pause |-> 0,
         backoff |-> 0, io |-> 0, watcher |-> "none", result |-> "none", frame |-> NoFrame]

Init ==
    /\ daemon \in {"up", "hung", "down"}
    /\ inflight = 0
    /\ call = [c \in Calls |-> Idle]

Ended(c) == call[c].ctx # "live"

\* Mutant of Return: a failing dial returns before the release is deferred.
ReturnKeepingSlot(c, result, frame) ==
    /\ call' = [call EXCEPT ![c] = [Idle EXCEPT
           !.at = "done", !.ctx = call[c].ctx, !.watcher = call[c].watcher,
           !.result = result, !.frame = frame]]
    /\ inflight' = IF call[c].at \in {"io"} THEN inflight - 1 ELSE inflight
    /\ UNCHANGED daemon

\* Do returns: the deferred release gives the slot back, if it was taken.
Return(c, result, frame) ==
    /\ call' = [call EXCEPT ![c] = [Idle EXCEPT
           !.at = "done", !.ctx = call[c].ctx, !.watcher = call[c].watcher,
           !.result = result, !.frame = frame]]
    /\ inflight' = IF call[c].at \in Holding THEN inflight - 1 ELSE inflight
    /\ UNCHANGED daemon

-----------------------------------------------------------------------------
(* The callers, the daemon and time. *)

Issue(c) ==
    /\ call[c].at = "idle"
    /\ \E deadline \in Deadlines :
           call' = [call EXCEPT ![c].at = "queued", ![c].left = deadline]
    /\ UNCHANGED <<daemon, inflight>>

Cancel(c) ==
    /\ call[c].at \in UnderWay /\ ~Ended(c)
    /\ call' = [call EXCEPT ![c].ctx = "cancelled"]
    /\ UNCHANGED <<daemon, inflight>>

Expire(c) ==
    /\ call[c].at \in UnderWay /\ ~Ended(c) /\ call[c].left = 0
    /\ call' = [call EXCEPT ![c].ctx = "expired"]
    /\ UNCHANGED <<daemon, inflight>>

DaemonTurns(d) ==
    /\ d # daemon /\ daemon' = d
    /\ UNCHANGED <<inflight, call>>

Tick ==
    /\ call' = [c \in Calls |-> [call[c] EXCEPT
           !.left = TickDown(@), !.giveUp = TickDown(@),
           !.pause = TickDown(@), !.io = TickDown(@)]]
    /\ call' # call
    /\ UNCHANGED <<daemon, inflight>>

-----------------------------------------------------------------------------
(* Do: the slot. *)

TakeSlot(c) ==
    /\ call[c].at = "queued" /\ inflight < MaxInflight
    /\ inflight' = inflight + 1
    /\ call' = [call EXCEPT ![c].at = "dialing", ![c].backoff = FirstBackoff,
                            ![c].giveUp = Earlier(ConnectBudget, call[c].left)]
    /\ UNCHANGED daemon

LeaveQueue(c) == call[c].at = "queued" /\ Ended(c) /\ Return(c, "ctx", NoFrame)

-----------------------------------------------------------------------------
(* dial. *)

\* Mutant of Connect: the connection has no deadline of its own.
ConnectForever(c) ==
    /\ call[c].at = "dialing" /\ daemon # "down"
    /\ call' = [call EXCEPT ![c].at = "io", ![c].watcher = "watching",
                            ![c].giveUp = 0, ![c].backoff = 0, ![c].io = call[c].left]
    /\ UNCHANGED <<daemon, inflight>>

\* The connection is made; its deadline is the read timeout or the context's.
Connect(c) ==
    /\ call[c].at = "dialing" /\ daemon # "down"
    /\ call' = [call EXCEPT ![c].at = "io", ![c].watcher = "watching",
                            ![c].giveUp = 0, ![c].backoff = 0,
                            ![c].io = Earlier(ReadTimeout, call[c].left)]
    /\ UNCHANGED <<daemon, inflight>>

\* An attempt fails: refused, or ended by the context or its deadline.
DialFails(c) ==
    /\ call[c].at = "dialing" /\ (daemon = "down" \/ Ended(c) \/ call[c].left = 0)
    /\ \/ /\ Ended(c) /\ Return(c, "ctx", NoFrame)
       \/ /\ ~Ended(c) /\ call[c].backoff >= call[c].giveUp
          /\ Return(c, "unreachable", NoFrame)
       \/ /\ ~Ended(c) /\ call[c].backoff < call[c].giveUp
          /\ call' = [call EXCEPT ![c].at = "backoff", ![c].pause = call[c].backoff]
          /\ UNCHANGED <<daemon, inflight>>

Redial(c) ==
    /\ call[c].at = "backoff" /\ call[c].pause = 0
    /\ call' = [call EXCEPT ![c].at = "dialing",
           ![c].backoff = IF @ < BackoffCap THEN 2 * @ ELSE @]
    /\ UNCHANGED <<daemon, inflight>>

LeaveBackoff(c) == call[c].at = "backoff" /\ Ended(c) /\ Return(c, "ctx", NoFrame)

-----------------------------------------------------------------------------
(* Do: the exchange, and its watcher. *)

\* Mutant of Unwrapped: the Content-Length is not compared.
UnwrappedUnmeasured(frame) == frame.separated

\* parseResponse: a reply without a separator is refused, and one with less body
\* than its Content-Length declares.  One that declares none is taken as it is.
Unwrapped(frame) == frame.separated /\ ~(frame.declared /\ frame.length < BodyLength)

Read(c, frame) ==
    /\ call[c].at = "io" /\ call[c].io > 0
    /\ \/ daemon = "up"
       \/ daemon = "down" /\ ~Whole(frame)
    /\ Return(c, IF Unwrapped(frame) THEN "body" ELSE "badFrame", frame)

\* Mutant of Blame: the connection's error is returned as it is.
BlameConnection(c) == "io"

\* ctxErr: an error of a call whose context has ended is the context's.
Blame(c) == IF Ended(c) THEN "ctx" ELSE "io"

IoFails(c) ==
    /\ call[c].at = "io" /\ (call[c].io = 0 \/ daemon = "down")
    /\ Return(c, Blame(c), NoFrame)

\* Mutant of Yank: nobody watches the context of a call that reads.
YankNever(c) == FALSE /\ UNCHANGED vars

Yank(c) ==
    /\ call[c].watcher = "watching" /\ Ended(c)
    /\ call' = [call EXCEPT ![c].watcher = "yanked", ![c].io = 0]
    /\ UNCHANGED <<daemon, inflight>>

WatchEnds(c) ==
    /\ call[c].watcher = "watching" /\ call[c].at = "done"
    /\ call' = [call EXCEPT ![c].watcher = "gone"]
    /\ UNCHANGED <<daemon, inflight>>

-----------------------------------------------------------------------------

Do(c) ==
    \/ TakeSlot(c) \/ LeaveQueue(c)
    \/ Connect(c) \/ DialFails(c) \/ Redial(c) \/ LeaveBackoff(c)
    \/ \E frame \in Frames : Read(c, frame)
    \/ IoFails(c)

Next ==
    \/ \E c \in Calls : Issue(c) \/ Cancel(c) \/ Expire(c) \/ Do(c) \/ Yank(c) \/ WatchEnds(c)
    \/ \E d \in {"up", "hung", "down"} : DaemonTurns(d)
    \/ Tick

Spec == Init /\ [][Next]_vars

-----------------------------------------------------------------------------
(* Properties. *)

\* The slot channel holds exactly the calls that are dialing, pausing or
\* reading, and never more than its capacity: no return path keeps a slot (Do,
\* its deferred release).
SlotsAccounted ==
    /\ inflight = Cardinality({c \in Calls : call[c].at \in Holding})
    /\ inflight <= MaxInflight

\* What a caller is told is what happened: a context error only when its
\* context ended, an unreachable daemon only without a connection, and the i/o
\* timeout that a yanked deadline produces never as a fault of the daemon
\* (Do's ctxErr, dial).
ReasonIsHonest ==
    \A c \in Calls :
        /\ call[c].result = "ctx" => Ended(c)
        /\ call[c].result = "unreachable" => call[c].watcher = "none"
        /\ call[c].result = "io" => call[c].watcher # "yanked"

\* A reply that declares its length is never cut off unnoticed by a dying daemon,
\* on a connection where its end looks like any other end, and one cut in its
\* headers never; no whole reply is refused (parseResponse, contentLength).  A
\* reply that declares no length may be cut in its body and still pass.
CutRepliesRefused ==
    \A c \in Calls :
        /\ call[c].result = "body" =>
              Whole(call[c].frame) \/ (call[c].frame.separated /\ ~call[c].frame.declared)
        /\ call[c].result = "badFrame" => ~Whole(call[c].frame)
=============================================================================
