------------------------------- MODULE RpcProofs -------------------------------
(***************************************************************************)
(* Theorems about the daemon client, in three parts: the calls and their   *)
(* slots (ScgiClient), what is read from a reply (RpcReply, RpcClient),    *)
(* and the cache of tracker hosts (TrackerCache).                          *)
(***************************************************************************)
EXTENDS RpcClient, TrackerCache, Induction

-----------------------------------------------------------------------------
(* The calls, for every number of calls and slots and every timer. *)

LEMMA TimersAreNumbers ==
    /\ 0 \in 0..Never /\ Never \in 0..Never
    /\ ReadTimeout \in 0..Never /\ ConnectBudget \in 0..Never
    /\ \A s, t \in 0..Never : Earlier(s, t) \in 0..Never
    /\ \A t \in 0..Never : TickDown(t) \in 0..Never
BY ConstantsNat DEF Earlier, TickDown

\* What one call is.
CallRecord == [
    at : {"idle", "done"} \cup UnderWay,
    ctx : {"live", "cancelled", "expired"},
    left : 0..Never, giveUp : 0..Never, pause : 0..Never, backoff : Nat, io : 0..Never,
    watcher : {"none", "watching", "yanked", "gone"},
    result : {"none", "body", "badFrame", "io", "ctx", "unreachable"},
    frame : Frames]

\* What a reply passes for is what it is, unless it is cut and declares no length.
HonestBody(frame) == Whole(frame) \/ (frame.separated /\ ~frame.declared)

\* The story of one call: a watcher comes with a connection, a deadline is yanked
\* only for a context that has ended, and a result is why the call has returned.
Story(k) ==
    /\ k.at \in {"idle", "queued", "dialing", "backoff"} => k.watcher = "none"
    /\ k.watcher = "yanked" => k.ctx # "live"
    /\ k.result # "none" => k.at = "done"
    /\ k.result = "ctx" => k.ctx # "live"
    /\ k.result = "unreachable" => k.watcher = "none"
    /\ k.result = "io" => k.ctx = "live"
    /\ k.result = "body" => HonestBody(k.frame)
    /\ k.result = "badFrame" => ~Whole(k.frame)

\* The record a call returns with.
ReturnedWith(k, result, frame) ==
    [Idle EXCEPT !.at = "done", !.ctx = k.ctx, !.watcher = k.watcher, !.result = result, !.frame = frame]

LEMMA NoFrameIsOne == NoFrame \in Frames
BY ConstantsNat DEF NoFrame, Frames

LEMMA ReturnedGoesOn ==
    ASSUME NEW k \in CallRecord, Story(k), NEW frame \in Frames,
           NEW result \in {"body", "badFrame", "io", "ctx", "unreachable"},
           result = "ctx" => k.ctx # "live",
           result = "unreachable" => k.watcher = "none",
           result = "io" => k.ctx = "live",
           result = "body" => HonestBody(frame),
           result = "badFrame" => ~Whole(frame)
    PROVE  ReturnedWith(k, result, frame) \in CallRecord /\ Story(ReturnedWith(k, result, frame))
BY TimersAreNumbers DEF ReturnedWith, Idle, CallRecord, Story

-----------------------------------------------------------------------------
(* What a step of one call does. *)

Stories == \A c \in Calls : Story(call[c])

\* The slots of the others are as they were; one is taken or given back at most.
SlotsMove(c) ==
    \/ inflight' = inflight /\ (call'[c].at \in Holding <=> call[c].at \in Holding)
    \/ /\ inflight' = inflight + 1 /\ inflight < MaxInflight
       /\ call[c].at \notin Holding /\ call'[c].at \in Holding
    \/ inflight' = inflight - 1 /\ call[c].at \in Holding /\ call'[c].at \notin Holding

OneMoves(c) ==
    /\ \A d \in Calls \ {c} : call'[d] = call[d]
    /\ DOMAIN call' = Calls /\ call' = [d \in Calls |-> call'[d]]
    /\ call'[c] \in CallRecord /\ Story(call'[c])
    /\ SlotsMove(c) /\ daemon' = daemon

LEMMA CallsAreTyped ==
    ASSUME TypeOK, NEW c \in Calls
    PROVE  call[c] \in CallRecord /\ DOMAIN call = Calls /\ call = [d \in Calls |-> call[d]]
BY DEF TypeOK, CallRecord

\* An update of one call in place.
LEMMA Update ==
    ASSUME TypeOK, NEW c \in Calls, NEW k \in CallRecord, Story(k), SlotsMove(c),
           call' = [call EXCEPT ![c] = k], daemon' = daemon
    PROVE  OneMoves(c)
BY CallsAreTyped DEF OneMoves

LEMMA ReturnMoves ==
    ASSUME TypeOK, Stories, NEW c \in Calls, NEW frame \in Frames,
           NEW result \in {"body", "badFrame", "io", "ctx", "unreachable"},
           result = "ctx" => Ended(c),
           result = "unreachable" => call[c].watcher = "none",
           result = "io" => ~Ended(c),
           result = "body" => HonestBody(frame),
           result = "badFrame" => ~Whole(frame),
           Return(c, result, frame)
    PROVE  OneMoves(c)
<1>1. call' = [call EXCEPT ![c] = ReturnedWith(call[c], result, frame)]
  BY DEF Return, ReturnedWith
<1>2. ReturnedWith(call[c], result, frame) \in CallRecord /\ Story(ReturnedWith(call[c], result, frame))
  BY ReturnedGoesOn, CallsAreTyped DEF Stories, Ended
<1>3. call'[c] = ReturnedWith(call[c], result, frame) /\ call'[c].at = "done"
  BY <1>1, CallsAreTyped DEF ReturnedWith, Idle
<1>4. SlotsMove(c)
  BY <1>3 DEF SlotsMove, Return, Holding
<1>5. QED
  BY <1>1, <1>2, <1>4, Update DEF Return

LEMMA StepMoves ==
    ASSUME TypeOK, Stories, NEW c \in Calls,
           Issue(c) \/ Cancel(c) \/ Expire(c) \/ Do(c) \/ Yank(c) \/ WatchEnds(c)
    PROVE  OneMoves(c)
<1> DEFINE k == call[c]
<1> k \in CallRecord /\ Story(k)
  BY CallsAreTyped DEF Stories
<1>1. CASE Issue(c)
  <2>1. PICK deadline \in Deadlines : call' = [call EXCEPT ![c] = [k EXCEPT !.at = "queued", !.left = deadline]]
    BY <1>1 DEF Issue
  <2>2. /\ [k EXCEPT !.at = "queued", !.left = deadline] \in CallRecord
        /\ Story([k EXCEPT !.at = "queued", !.left = deadline])
    BY <1>1, ConstantsNat DEF Issue, CallRecord, Story, UnderWay
  <2>3. SlotsMove(c)
    BY <1>1, <2>1, CallsAreTyped DEF Issue, SlotsMove, Holding, CallRecord
  <2>4. QED
    BY <1>1, <2>1, <2>2, <2>3, Update DEF Issue
<1>2. CASE Cancel(c) \/ Expire(c)
  <2>1. PICK why \in {"cancelled", "expired"} : call' = [call EXCEPT ![c] = [k EXCEPT !.ctx = why]]
    BY <1>2 DEF Cancel, Expire
  <2>2. [k EXCEPT !.ctx = why] \in CallRecord /\ Story([k EXCEPT !.ctx = why])
    BY <1>2 DEF Cancel, Expire, CallRecord, Story, UnderWay, Holding
  <2>3. SlotsMove(c)
    BY <1>2, <2>1, CallsAreTyped DEF Cancel, Expire, SlotsMove, CallRecord
  <2>4. QED
    BY <1>2, <2>1, <2>2, <2>3, Update DEF Cancel, Expire
<1>3. CASE Yank(c)
  <2>1. call' = [call EXCEPT ![c] = [k EXCEPT !.watcher = "yanked", !.io = 0]]
    BY <1>3 DEF Yank
  <2>2. /\ [k EXCEPT !.watcher = "yanked", !.io = 0] \in CallRecord
        /\ Story([k EXCEPT !.watcher = "yanked", !.io = 0])
    BY <1>3, TimersAreNumbers DEF Yank, Ended, CallRecord, Story
  <2>3. SlotsMove(c)
    BY <1>3, <2>1, CallsAreTyped DEF Yank, SlotsMove, CallRecord
  <2>4. QED
    BY <1>3, <2>1, <2>2, <2>3, Update DEF Yank
<1>4. CASE WatchEnds(c)
  <2>1. call' = [call EXCEPT ![c] = [k EXCEPT !.watcher = "gone"]]
    BY <1>4 DEF WatchEnds
  <2>2. [k EXCEPT !.watcher = "gone"] \in CallRecord /\ Story([k EXCEPT !.watcher = "gone"])
    BY <1>4 DEF WatchEnds, CallRecord, Story
  <2>3. SlotsMove(c)
    BY <1>4, <2>1, CallsAreTyped DEF WatchEnds, SlotsMove, CallRecord
  <2>4. QED
    BY <1>4, <2>1, <2>2, <2>3, Update DEF WatchEnds
<1>5. CASE TakeSlot(c)
  <2> DEFINE l == [k EXCEPT !.at = "dialing", !.backoff = FirstBackoff,
                            !.giveUp = Earlier(ConnectBudget, k.left)]
  <2>1. call' = [call EXCEPT ![c] = l]
    BY <1>5 DEF TakeSlot
  <2>2. l \in CallRecord /\ Story(l)
    BY <1>5, TimersAreNumbers, ConstantsNat DEF TakeSlot, CallRecord, Story, UnderWay, Holding
  <2>3. SlotsMove(c)
    BY <1>5, <2>1, CallsAreTyped DEF TakeSlot, SlotsMove, Holding, CallRecord
  <2>4. QED
    BY <1>5, <2>1, <2>2, <2>3, Update DEF TakeSlot
<1>6. CASE Connect(c)
  <2> DEFINE l == [k EXCEPT !.at = "io", !.watcher = "watching", !.giveUp = 0, !.backoff = 0,
                            !.io = Earlier(ReadTimeout, k.left)]
  <2>1. call' = [call EXCEPT ![c] = l]
    BY <1>6 DEF Connect
  <2>2. l \in CallRecord /\ Story(l)
    BY <1>6, TimersAreNumbers DEF Connect, CallRecord, Story, UnderWay, Holding
  <2>3. SlotsMove(c)
    BY <1>6, <2>1, CallsAreTyped DEF Connect, SlotsMove, Holding, CallRecord
  <2>4. QED
    BY <1>6, <2>1, <2>2, <2>3, Update DEF Connect
<1>7. CASE DialFails(c)
  <2>1. CASE Return(c, "ctx", NoFrame) /\ Ended(c)
    BY <2>1, ReturnMoves, NoFrameIsOne
  <2>2. CASE Return(c, "unreachable", NoFrame) /\ ~Ended(c)
    BY <1>7, <2>2, ReturnMoves, NoFrameIsOne DEF DialFails, Story
  <2>3. CASE ~Ended(c) /\ k.backoff < k.giveUp /\ UNCHANGED <<daemon, inflight>>
             /\ call' = [call EXCEPT ![c].at = "backoff", ![c].pause = call[c].backoff]
    <3> DEFINE l == [k EXCEPT !.at = "backoff", !.pause = k.backoff]
    <3>1. call' = [call EXCEPT ![c] = l]
      BY <2>3
    <3>2. k.backoff \in 0..Never
      BY <2>3, ConstantsNat DEF CallRecord
    <3>3. l \in CallRecord /\ Story(l)
      BY <1>7, <3>2 DEF DialFails, CallRecord, Story, UnderWay, Holding
    <3>4. SlotsMove(c)
      BY <1>7, <2>3, <3>1, CallsAreTyped DEF DialFails, SlotsMove, Holding, CallRecord
    <3>5. QED
      BY <2>3, <3>1, <3>3, <3>4, Update
  <2>4. QED
    BY <1>7, <2>1, <2>2, <2>3 DEF DialFails
<1>8. CASE Redial(c)
  <2> DEFINE next == IF k.backoff < BackoffCap THEN 2 * k.backoff ELSE k.backoff
             l == [k EXCEPT !.at = "dialing", !.backoff = next]
  <2>1. call' = [call EXCEPT ![c] = l]
    BY <1>8 DEF Redial
  <2>2. next \in Nat
    BY DEF CallRecord
  <2>3. l \in CallRecord /\ Story(l)
    BY <1>8, <2>2 DEF Redial, CallRecord, Story, UnderWay, Holding
  <2>4. SlotsMove(c)
    BY <1>8, <2>1, CallsAreTyped DEF Redial, SlotsMove, Holding, CallRecord
  <2>5. QED
    BY <1>8, <2>1, <2>3, <2>4, Update DEF Redial
<1>9. CASE LeaveQueue(c) \/ LeaveBackoff(c)
  BY <1>9, ReturnMoves, NoFrameIsOne DEF LeaveQueue, LeaveBackoff
<1>10. CASE \E frame \in Frames : Read(c, frame)
  <2>1. PICK frame \in Frames : Read(c, frame)
    BY <1>10
  <2>2. frame.length \in 0..BodyLength /\ frame.declared \in BOOLEAN
    BY DEF Frames
  <2>3. CASE Unwrapped(frame)
    <3>1. HonestBody(frame)
      BY <2>2, <2>3, ConstantsNat DEF Unwrapped, HonestBody, Whole
    <3>2. QED
      BY <2>1, <2>3, <3>1, ReturnMoves DEF Read
  <2>4. CASE ~Unwrapped(frame)
    <3>1. ~Whole(frame)
      BY <2>2, <2>4, ConstantsNat DEF Unwrapped, Whole
    <3>2. QED
      BY <2>1, <2>4, <3>1, ReturnMoves DEF Read
  <2>5. QED
    BY <2>3, <2>4
<1>11. CASE IoFails(c)
  BY <1>11, ReturnMoves, NoFrameIsOne DEF IoFails, Blame
<1>12. QED
  BY <1>1, <1>2, <1>3, <1>4, <1>5, <1>6, <1>7, <1>8, <1>9, <1>10, <1>11 DEF Do

\* Time only lets timers run down.
LEMMA TickMoves ==
    ASSUME TypeOK, Stories, Tick
    PROVE  /\ TypeOK' /\ Stories'
           /\ \A c \in Calls : call'[c].at = call[c].at
<1> DEFINE later(k) == [k EXCEPT !.left = TickDown(@), !.giveUp = TickDown(@),
                                !.pause = TickDown(@), !.io = TickDown(@)]
<1>1. call' = [c \in Calls |-> later(call[c])] /\ UNCHANGED <<daemon, inflight>>
  BY DEF Tick
<1>2. \A k \in CallRecord : later(k) \in CallRecord /\ later(k).at = k.at
                           /\ (Story(k) => Story(later(k)))
  <2>1. TAKE k \in CallRecord
  <2>2. /\ k.left \in 0..Never /\ k.giveUp \in 0..Never /\ k.pause \in 0..Never
        /\ k.io \in 0..Never
    BY DEF CallRecord
  <2>3. /\ TickDown(k.left) \in 0..Never /\ TickDown(k.giveUp) \in 0..Never
        /\ TickDown(k.pause) \in 0..Never /\ TickDown(k.io) \in 0..Never
    BY <2>2, TimersAreNumbers
  <2>4. later(k) \in CallRecord
    BY <2>3 DEF CallRecord
  <2>5. /\ later(k).at = k.at /\ later(k).watcher = k.watcher /\ later(k).ctx = k.ctx
        /\ later(k).result = k.result /\ later(k).frame = k.frame
    BY DEF CallRecord
  <2>6. QED
    BY <2>4, <2>5 DEF Story
<1>3. \A c \in Calls : call[c] \in CallRecord
  BY CallsAreTyped
<1> HIDE DEF later
<1>4. \A c \in Calls : call'[c] \in CallRecord /\ call'[c].at = call[c].at /\ Story(call'[c])
  BY <1>1, <1>2, <1>3 DEF Stories
<1>5. call' \in [Calls -> CallRecord]
  BY <1>1, <1>4
<1>6. QED
  BY <1>1, <1>4, <1>5 DEF TypeOK, CallRecord, Stories

-----------------------------------------------------------------------------
(* Slots. *)

Holders == {c \in Calls : call[c].at \in Holding}
Accounted == inflight = Cardinality(Holders) /\ inflight <= MaxInflight

LEMMA HoldersAreFinite == IsFiniteSet(Holders) /\ Cardinality(Holders) \in Nat
BY ConstantsNat, FS_Subset, FS_CardinalityType DEF Holders

LEMMA AccountedMoves ==
    ASSUME NEW c \in Calls, OneMoves(c), Accounted
    PROVE  Accounted' /\ inflight' \in Nat
<1>1. MaxInflight \in Nat
  BY ConstantsNat
<1>2. CASE inflight' = inflight /\ (call'[c].at \in Holding <=> call[c].at \in Holding)
  <2>1. Holders' = Holders
    BY <1>2 DEF Holders, OneMoves
  <2>2. QED
    BY <1>2, <2>1, HoldersAreFinite DEF Accounted
<1>3. CASE /\ inflight' = inflight + 1 /\ inflight < MaxInflight
           /\ call[c].at \notin Holding /\ call'[c].at \in Holding
  <2>1. Holders' = Holders \cup {c} /\ c \notin Holders
    BY <1>3 DEF Holders, OneMoves
  <2>2. Cardinality(Holders') = Cardinality(Holders) + 1
    BY <2>1, HoldersAreFinite, FS_AddElement
  <2>3. QED
    BY <1>1, <1>3, <2>2, HoldersAreFinite DEF Accounted
<1>4. CASE inflight' = inflight - 1 /\ call[c].at \in Holding /\ call'[c].at \notin Holding
  <2>1. Holders' = Holders \ {c} /\ c \in Holders
    BY <1>4 DEF Holders, OneMoves
  <2>2. Cardinality(Holders') = Cardinality(Holders) - 1
    BY <2>1, HoldersAreFinite, FS_RemoveElement
  <2>3. Cardinality(Holders') \in Nat
    BY <2>1, HoldersAreFinite, FS_RemoveElement, FS_CardinalityType
  <2>4. QED
    BY <1>1, <1>4, <2>2, <2>3, HoldersAreFinite DEF Accounted
<1>5. QED
  BY <1>2, <1>3, <1>4 DEF OneMoves, SlotsMove

-----------------------------------------------------------------------------
(* The theorems. *)

Inv == TypeOK /\ Stories /\ Accounted

LEMMA InitInv == Init => Inv
<1>1. SUFFICES ASSUME Init PROVE Inv
  OBVIOUS
<1>2. TypeOK
  BY <1>1, ConstantsNat, NoFrameIsOne DEF Init, TypeOK, Idle
<1>3. Stories
  BY <1>1 DEF Init, Stories, Story, Idle
<1>4. Holders = {}
  BY <1>1 DEF Init, Holders, Idle, Holding
<1>5. Accounted
  BY <1>1, <1>4, FS_EmptySet, ConstantsNat DEF Init, Accounted
<1>6. QED
  BY <1>2, <1>3, <1>5 DEF Inv

LEMMA NextInv == Inv /\ [Next]_vars => Inv'
<1>1. SUFFICES ASSUME Inv, [Next]_vars PROVE Inv'
  OBVIOUS
<1>2. ASSUME NEW c \in Calls,
             Issue(c) \/ Cancel(c) \/ Expire(c) \/ Do(c) \/ Yank(c) \/ WatchEnds(c)
      PROVE  Inv'
  <2>1. OneMoves(c)
    BY <1>1, <1>2, StepMoves DEF Inv
  <2>2. Accounted' /\ inflight' \in Nat
    BY <1>1, <2>1, AccountedMoves DEF Inv
  <2>3. \A d \in Calls : call'[d] \in CallRecord /\ Story(call'[d])
    BY <1>1, <2>1, CallsAreTyped DEF Inv, OneMoves, Stories
  <2>4. call' \in [Calls -> CallRecord]
    BY <2>1, <2>3 DEF OneMoves
  <2>5. TypeOK'
    BY <1>1, <2>1, <2>2, <2>4 DEF Inv, TypeOK, CallRecord, OneMoves
  <2>6. QED
    BY <2>2, <2>3, <2>5 DEF Inv, Stories
<1>3. CASE \E d \in {"up", "hung", "down"} : DaemonTurns(d)
  BY <1>1, <1>3 DEF Inv, DaemonTurns, TypeOK, Stories, Accounted, Holders
<1>4. CASE Tick
  <2>1. TypeOK' /\ Stories' /\ inflight' = inflight
    BY <1>1, <1>4, TickMoves DEF Inv, Tick
  <2>2. Holders' = Holders
    BY <1>1, <1>4, TickMoves DEF Inv, Holders
  <2>3. QED
    BY <1>1, <2>1, <2>2 DEF Inv, Accounted
<1>5. CASE UNCHANGED vars
  BY <1>1, <1>5 DEF Inv, vars, TypeOK, Stories, Accounted, Holders
<1>6. QED
  BY <1>1, <1>2, <1>3, <1>4, <1>5 DEF Next

LEMMA Invariance == Spec => []Inv
BY InitInv, NextInv, PTL DEF Spec

\* Every variable keeps its type, whatever the daemon, the callers and time do
\* (scgi.Client.Do, dial).
THEOREM TypeCorrect == Spec => []TypeOK
<1>1. Inv => TypeOK
  BY DEF Inv
<1>2. QED
  BY <1>1, Invariance, PTL

\* For any number of callers, slots and timers: no path out of Do keeps a slot,
\* and no two give the same one back (Do, its deferred release).
THEOREM NoSlotLeaks == Spec => []SlotsAccounted
<1>1. Inv => SlotsAccounted
  BY DEF Inv, Accounted, SlotsAccounted, Holders
<1>2. QED
  BY <1>1, Invariance, PTL

\* For any number of callers and timers, the error a caller gets names what
\* ended its call (Do, ctxErr, dial).
THEOREM ErrorsAreHonest == Spec => []ReasonIsHonest
<1>1. Inv => ReasonIsHonest
  BY DEF Inv, Stories, Story, ReasonIsHonest, Ended
<1>2. QED
  BY <1>1, Invariance, PTL

\* For a body of any length, no reply that declares its length is taken for a
\* whole one when it was cut off, none that was cut in its headers is, and no
\* whole one is refused (parseResponse, contentLength).
THEOREM DeclaredCutsAreRefused == Spec => []CutRepliesRefused
<1>1. Inv => CutRepliesRefused
  BY DEF Inv, Stories, Story, HonestBody, CutRepliesRefused
<1>2. QED
  BY <1>1, Invariance, PTL

-----------------------------------------------------------------------------
(* What is read from a reply. *)

\* The items of a reply, read by their ids: whether one failed and what it holds
\* (Client.Batch).
Carries(items, results, errs) ==
    \A i \in 1..Len(results) : \E k \in DOMAIN items :
        /\ items[k] = Item(i, results[i], i \in errs)
        /\ \A m \in DOMAIN items : items[m].id = i => m = k

\* A daemon's reply carries the results it stands for, some of them failed.
LEMMA RepliesCarry ==
    ASSUME NEW V, NEW results \in Seq(V), NEW items \in Replies(results)
    PROVE  \E errs \in SUBSET (1..Len(results)) : Carries(items, results, errs)
<1> DEFINE n == Len(results)
           stray == Item(n + 1, Num(7), FALSE)
<1>1. n \in Nat
  OBVIOUS
<1>2. PICK errs \in SUBSET (1..n), backwards \in BOOLEAN, more \in BOOLEAN :
          items = Reply(results, errs, backwards, more)
  BY DEF Replies
<1> DEFINE at(i) == IF backwards THEN n + 1 - i ELSE i
           t == [k \in 1..n |-> Item(at(k), results[at(k)], at(k) \in errs)]
           I == {t[k] : k \in 1..n}
<1>0. /\ t = [k \in 1..n |-> Item(at(k), results[at(k)], at(k) \in errs)]
      /\ t \in Seq(I) /\ Len(t) = n /\ DOMAIN t = 1..n
  BY <1>1
<1>6. items = IF more THEN <<stray>> \o t ELSE t
  BY <1>2 DEF Reply
<1> HIDE DEF t, I
<1>3. ASSUME NEW i \in 1..n
      PROVE  /\ at(i) \in 1..n /\ t[at(i)] = Item(i, results[i], i \in errs)
             /\ \A m \in 1..n : t[m].id = i => m = at(i)
  <2>1. at(i) \in 1..n /\ at(at(i)) = i
    BY <1>1
  <2>2. \A m \in 1..n : t[m].id = at(m)
    BY <1>0, <1>1 DEF Item
  <2>3. \A m \in 1..n : at(at(m)) = m
    BY <1>1
  <2> QED
    BY <1>0, <1>1, <2>1, <2>2, <2>3
<1>4. CASE items = t
  <2>1. DOMAIN t = 1..n
    BY <1>0
  <2> HIDE DEF at
  <2>2. ASSUME NEW i \in 1..n
        PROVE  \E k \in DOMAIN items : /\ items[k] = Item(i, results[i], i \in errs)
                                       /\ \A m \in DOMAIN items : items[m].id = i => m = k
    <3>1. at(i) \in DOMAIN items /\ items[at(i)] = Item(i, results[i], i \in errs)
      BY <1>3, <1>4, <2>1
    <3>2. \A m \in DOMAIN items : items[m].id = i => m = at(i)
      BY <1>3, <1>4, <2>1
    <3> QED
      BY <3>1, <3>2
  <2> QED
    BY <2>2 DEF Carries
<1>5. CASE items = <<stray>> \o t
  <2>1. t \in Seq(I) /\ Len(t) = n
    BY <1>0
  <2> HIDE DEF at
  <2>2. /\ DOMAIN items = 1..n + 1 /\ items[1] = stray
        /\ \A k \in 1..n : items[k + 1] = t[k]
    <3>1. <<stray>> \in Seq({stray}) /\ Len(<<stray>>) = 1
      OBVIOUS
    <3> HIDE DEF stray
    <3> QED
      BY <1>1, <1>5, <2>1, <3>1
  <2>3. stray.id = n + 1
    BY DEF Item
  <2> HIDE DEF stray
  <2>4. ASSUME NEW i \in 1..n
        PROVE  \E k \in DOMAIN items : /\ items[k] = Item(i, results[i], i \in errs)
                                       /\ \A m \in DOMAIN items : items[m].id = i => m = k
    <3>1. at(i) + 1 \in DOMAIN items /\ items[at(i) + 1] = Item(i, results[i], i \in errs)
      <4>1. at(i) \in 1..n /\ t[at(i)] = Item(i, results[i], i \in errs)
        BY <1>3
      <4>2. at(i) + 1 \in 1..n + 1 /\ items[at(i) + 1] = t[at(i)]
        BY <1>1, <2>2, <4>1
      <4> QED
        BY <2>2, <4>1, <4>2
    <3>2. ASSUME NEW m \in DOMAIN items, items[m].id = i PROVE m = at(i) + 1
      <4>1. m # 1
        BY <1>1, <2>2, <2>3, <3>2
      <4>2. m - 1 \in 1..n /\ items[m] = t[m - 1]
        <5>1. m - 1 \in 1..n
          BY <1>1, <2>2, <4>1
        <5>2. items[(m - 1) + 1] = t[m - 1]
          BY <2>2, <5>1
        <5>3. (m - 1) + 1 = m
          BY <2>2
        <5> QED
          BY <5>1, <5>2, <5>3
      <4>3. m - 1 = at(i)
        BY <1>3, <3>2, <4>2
      <4> QED
        BY <2>2, <4>3
    <3> QED
      BY <3>1, <3>2
  <2> QED
    BY <2>4 DEF Carries
<1> QED
  BY <1>4, <1>5, <1>6

\* A batch that is read as its results, less those that failed.
ReadsAs(batch, results, errs) ==
    /\ batch.errs = errs
    /\ \A i \in 1..Len(results) : batch.results[i] = IF i \in errs THEN Nil ELSE results[i]

\* Read in order, a reply gives each call its own result or none, and names the
\* calls that failed (Client.Batch).
LEMMA BatchReads ==
    ASSUME NEW results, NEW items, NEW errs, Len(results) \in Nat,
           errs \subseteq 1..Len(results), Carries(items, results, errs)
    PROVE  ReadsAs(Batch(Len(results), items), results, errs)
<1> DEFINE n == Len(results)
           good(i) == {k \in DOMAIN items : items[k].id = i /\ ~items[k].failed}
           last(K) == CHOOSE k \in K : \A m \in K : m <= k
<1>1. ASSUME NEW i \in 1..n
      PROVE  /\ i \in errs <=> \E k \in DOMAIN items : items[k].id = i /\ items[k].failed
             /\ (IF good(i) = {} THEN Nil ELSE items[last(good(i))].result) =
                    IF i \in errs THEN Nil ELSE results[i]
  <2>1. PICK k \in DOMAIN items : /\ items[k] = Item(i, results[i], i \in errs)
                                  /\ \A m \in DOMAIN items : items[m].id = i => m = k
    BY DEF Carries
  <2>2. /\ items[k].id = i /\ items[k].failed = (i \in errs)
        /\ items[k].result = IF i \in errs THEN Nil ELSE results[i]
    BY <2>1 DEF Item
  <2>3. CASE i \in errs
    <3>1. good(i) = {}
      BY <2>1, <2>2, <2>3
    <3> QED
      BY <2>2, <2>3, <3>1
  <2>4. CASE i \notin errs
    <3>1. good(i) = {k}
      BY <2>1, <2>2, <2>4
    <3>2. \A m \in {k} : m <= k \/ m = k
      OBVIOUS
    <3>3. last({k}) = k
      OBVIOUS
    <3> QED
      BY <2>1, <2>2, <2>4, <3>1, <3>3
  <2> QED
    BY <2>3, <2>4
<1> HIDE DEF good, last
<1> QED
  BY <1>1 DEF Batch, ReadsAs, good, last

\* Rows that have all their fields are all kept, in order (the decoders' loops).
LEMMA AllKept ==
    ASSUME NEW R, NEW rows \in Seq(R), NEW good, 1..Len(rows) \subseteq good
    PROVE  Kept(rows, good) = rows
<1> DEFINE n == Len(rows)
           Next1(f) == [m \in 0..n |-> IF m = 0 THEN <<>>
                          ELSE IF m \in good THEN Append(f[m - 1], rows[m]) ELSE f[m - 1]]
<1>1. n \in Nat /\ rows = [i \in 1..n |-> rows[i]] /\ \A i \in 1..n : rows[i] \in R
  OBVIOUS
<1>2. \E f : f = Next1(f)
  <2> DEFINE step == [m \in 1..n |-> [v \in Seq(R) |->
                          IF m \in good THEN Append(v, rows[m]) ELSE v]]
  <2>1. step \in StepsAlong(0, n, Seq(R)) /\ <<>> \in Seq(R)
    BY <1>1 DEF StepsAlong
  <2> DEFINE V == Seq(R)
             count == n
  <2> HIDE DEF step, V, count
  <2>2. PICK f \in [0..count -> V] : Follows(f, 0, count, <<>>, step)
    <3>1. 0 \in Int /\ count \in Int /\ 0 <= count /\ <<>> \in V /\ step \in StepsAlong(0, count, V)
      BY <1>1, <2>1 DEF V, count
    <3> QED
      BY <3>1, IntervalRecursion
  <2>3. \A m \in 1..n : step[m][f[m - 1]] =
            IF m \in good THEN Append(f[m - 1], rows[m]) ELSE f[m - 1]
    <3>1. ASSUME NEW m \in 1..n PROVE m - 1 \in 0..n /\ m \in 1..n
      BY <1>1
    <3> QED
      <4>1. \A m \in 1..n : f[m - 1] \in Seq(R)
        BY <2>2, <3>1 DEF V, count
      <4> QED
        BY <3>1, <4>1 DEF step
  <2>4. f = Next1(f)
    <3>1. f = [m \in 0..n |-> IF m = 0 THEN <<>> ELSE step[m][f[m - 1]]]
      BY <2>2 DEF count, Follows
    <3>2. \A m \in 0..n : f[m] = Next1(f)[m]
      <4>1. \A m \in 0..n : m # 0 => m \in 1..n
        BY <1>1
      <4> QED
        BY <2>3, <3>1, <4>1
    <3> QED
      BY <3>1, <3>2
  <2> QED
    BY <2>4
<1> DEFINE upTo == CHOOSE f : f = Next1(f)
<1>3. upTo = Next1(upTo)
  BY <1>2
<1>4. Kept(rows, good) = upTo[n]
  BY DEF Kept
<1> HIDE DEF upTo
<1> DEFINE N == {m \in Nat : m <= n => /\ upTo[m] \in Seq(R) /\ Len(upTo[m]) = m
                                       /\ \A i \in 1..m : upTo[m][i] = rows[i]}
<1>5. 0 \in N
  BY <1>1, <1>3
<1>6. ASSUME NEW m \in Nat, m \in N PROVE m + 1 \in N
  <2>1. CASE m + 1 <= n
    <3>1. /\ upTo[m] \in Seq(R) /\ Len(upTo[m]) = m
          /\ \A i \in 1..m : upTo[m][i] = rows[i]
      BY <1>1, <1>6, <2>1
    <3>2. upTo[m + 1] = Append(upTo[m], rows[m + 1]) /\ rows[m + 1] \in R
      <4>1. m + 1 \in 0..n /\ m + 1 # 0 /\ m + 1 \in good /\ (m + 1) - 1 = m
        BY <1>1, <2>1
      <4>2. upTo[m + 1] = Append(upTo[(m + 1) - 1], rows[m + 1])
        BY <1>3, <4>1
      <4> QED
        BY <1>1, <2>1, <4>1, <4>2
    <3> DEFINE before == upTo[m]
               row == rows[m + 1]
    <3>3. before \in Seq(R) /\ Len(before) = m /\ row \in R
      BY <3>1, <3>2
    <3> HIDE DEF before, row
    <3>4. /\ Append(before, row) \in Seq(R) /\ Len(Append(before, row)) = m + 1
          /\ \A i \in 1..m : Append(before, row)[i] = before[i]
          /\ Append(before, row)[m + 1] = row
      BY <3>3
    <3>5. \A i \in 1..m + 1 : i = m + 1 \/ i \in 1..m
      OBVIOUS
    <3>6. upTo[m + 1] = Append(before, row)
      BY <3>2 DEF before, row
    <3>7. \A i \in 1..m + 1 : upTo[m + 1][i] = rows[i]
      BY <3>1, <3>4, <3>5, <3>6 DEF before, row
    <3>8. upTo[m + 1] \in Seq(R) /\ Len(upTo[m + 1]) = m + 1
      BY <3>4, <3>6
    <3> QED
      BY <3>7, <3>8
  <2>2. CASE ~(m + 1 <= n)
    BY <2>2
  <2> QED
    BY <2>1, <2>2
<1> HIDE DEF N
<1>7. n \in N
  BY <1>1, <1>5, <1>6, NaturalInduction
<1>8. /\ upTo[n] \in Seq(R) /\ Len(upTo[n]) = n
      /\ \A i \in 1..n : upTo[n][i] = rows[i]
  BY <1>1, <1>7 DEF N
<1>9. upTo[n] = rows
  BY <1>1, <1>8
<1> QED
  BY <1>4, <1>9

\* The positions of the fields that something is decided by (decodeTorrents).
LEMMA FieldsByName ==
    ASSUME NEW row
    PROVE  /\ Field(row, "hash") = row[1] /\ Field(row, "downRate") = row[2]
           /\ Field(row, "state") = row[3] /\ Field(row, "active") = row[4]
           /\ Field(row, "open") = row[5] /\ Field(row, "checking") = row[6]
           /\ Field(row, "message") = row[7] /\ Field(row, "left") = row[8]
           /\ Field(row, "hashing") = row[9]
<1> DEFINE index(name) == CHOOSE i \in DOMAIN TorrentFields : TorrentFields[i] = name
<1>1. \A name : Field(row, name) = row[index(name)]
  BY DEF Field
<1>2. /\ DOMAIN TorrentFields = 1..9
      /\ TorrentFields[1] = "hash" /\ TorrentFields[2] = "downRate" /\ TorrentFields[3] = "state"
      /\ TorrentFields[4] = "active" /\ TorrentFields[5] = "open"
      /\ TorrentFields[6] = "checking" /\ TorrentFields[7] = "message"
      /\ TorrentFields[8] = "left" /\ TorrentFields[9] = "hashing"
  BY DEF TorrentFields
<1>3. ASSUME NEW i \in 1..9 PROVE index(TorrentFields[i]) = i
  <2>1. \A k \in 1..9 : TorrentFields[k] = TorrentFields[i] => k = i
    BY <1>2
  <2> QED
    BY <1>2, <2>1
<1> HIDE DEF index
<1>4. \A i \in 1..9 : index(TorrentFields[i]) = i
  BY <1>3
<1>5. /\ index("hash") = 1 /\ index("downRate") = 2 /\ index("state") = 3
      /\ index("active") = 4 /\ index("open") = 5 /\ index("checking") = 6
      /\ index("message") = 7 /\ index("left") = 8 /\ index("hashing") = 9
  BY <1>2, <1>4
<1> QED
  BY <1>1, <1>5


\* A flag of a torrent, set in some phases.
Flag(phase, S) == NumStr(IF phase \in S THEN 1 ELSE 0)

\* Read as a number it is not zero exactly when the torrent is in one of the phases.
LEMMA FlagReads ==
    ASSUME NEW phase, NEW S
    PROVE  (AsInt(Flag(phase, S)) # 0) <=> phase \in S
BY DEF Flag, AsInt, NumStr

\* A number or a text of a reply is read as what it says (asInt, asStr).
LEMMA ValuesRead ==
    ASSUME NEW v
    PROVE  /\ AsStr(Str(v)) = v /\ AsInt(Num(v)) = v /\ AsInt(NumStr(v)) = v
<1>1. /\ Str(v).json = "string" /\ Str(v).is = v /\ Num(v).json = "number" /\ Num(v).is = v
      /\ NumStr(v).json = "numeral" /\ NumStr(v).is = v
  BY DEF Str, Num, NumStr
<1> QED
  BY <1>1 DEF AsStr, AsInt

\* Each torrent's row is read as what the daemon means by it (deriveStatus,
\* isTrackerWarning, decodeTorrents).
LEMMA RowsReadRight ==
    ASSUME NEW hash, NEW phase \in Phases
    PROVE  LET row == RowOf(hash, phase)
           IN /\ DeriveStatus(row) = StatusOf(phase)
              /\ AsStr(Field(row, "hash")) = hash
              /\ AsInt(Field(row, "downRate")) =
                     IF phase \in {"leeching", "tracker down"} THEN 3 ELSE 0
              /\ Len(row) = 9
<1> DEFINE row == RowOf(hash, phase)
           shut == {"check queued", "stopped", "paused", "stopped, disk full"}
           idle == shut \cup {"checking", "stopped but open"}
           message == CASE phase = "tracker down" -> "transport"
                        [] phase = "banned" -> "failure reason"
                        [] phase \in {"disk full", "stopped, disk full"} -> "storage error"
                        [] OTHER -> ""
<1>1. row = <<Str(hash), Num(IF phase \in {"leeching", "tracker down"} THEN 3 ELSE 0),
              Flag(phase, Phases \ {"stopped", "stopped but open", "stopped, disk full"}),
              Flag(phase, Phases \ idle), Flag(phase, Phases \ shut), Flag(phase, {"checking"}),
              Str(message), Num(IF phase \in {"seeding", "banned"} THEN 0 ELSE 9),
              Flag(phase, {"check queued", "checking"})>>
  BY DEF RowOf, Flag
<1> HIDE DEF row
<1>2. Len(row) = 9
  BY <1>1
<1>3. /\ row[1] = Str(hash) /\ row[2] = Num(IF phase \in {"leeching", "tracker down"} THEN 3 ELSE 0)
      /\ row[3] = Flag(phase, Phases \ {"stopped", "stopped but open", "stopped, disk full"})
      /\ row[4] = Flag(phase, Phases \ idle) /\ row[5] = Flag(phase, Phases \ shut)
      /\ row[6] = Flag(phase, {"checking"}) /\ row[7] = Str(message)
      /\ row[8] = Num(IF phase \in {"seeding", "banned"} THEN 0 ELSE 9)
      /\ row[9] = Flag(phase, {"check queued", "checking"})
  BY <1>1
<1>f. /\ Field(row, "hash") = row[1] /\ Field(row, "downRate") = row[2]
      /\ Field(row, "state") = row[3] /\ Field(row, "active") = row[4]
      /\ Field(row, "open") = row[5] /\ Field(row, "checking") = row[6]
      /\ Field(row, "message") = row[7] /\ Field(row, "left") = row[8]
      /\ Field(row, "hashing") = row[9]
  BY FieldsByName
<1>4. AsStr(Field(row, "hash")) = hash
  <2>1. Field(row, "hash") = Str(hash)
    BY <1>3, <1>f
  <2> QED
    BY <2>1, ValuesRead
<1>5. AsInt(Field(row, "downRate")) = IF phase \in {"leeching", "tracker down"} THEN 3 ELSE 0
  <2>1. Field(row, "downRate") = Num(IF phase \in {"leeching", "tracker down"} THEN 3 ELSE 0)
    BY <1>3, <1>f
  <2> QED
    BY <2>1, ValuesRead
<1>6. /\ (AsInt(Field(row, "state")) # 0) <=>
             phase \notin {"stopped", "stopped but open", "stopped, disk full"}
      /\ (AsInt(Field(row, "active")) # 0) <=> phase \notin idle
      /\ (AsInt(Field(row, "open")) # 0) <=> phase \notin shut
      /\ (AsInt(Field(row, "checking")) # 0) <=> phase = "checking"
      /\ (AsInt(Field(row, "hashing")) # 0) <=> phase \in {"check queued", "checking"}
  <2>0. \A S : (AsInt(Flag(phase, S)) # 0) <=> phase \in S
    BY FlagReads
  <2>1. Field(row, "state") = Flag(phase, Phases \ {"stopped", "stopped but open", "stopped, disk full"})
    BY <1>3, <1>f
  <2>2. Field(row, "active") = Flag(phase, Phases \ idle)
    BY <1>3, <1>f
  <2>3. Field(row, "open") = Flag(phase, Phases \ shut)
    BY <1>3, <1>f
  <2>4. Field(row, "checking") = Flag(phase, {"checking"})
    BY <1>3, <1>f
  <2>5. Field(row, "hashing") = Flag(phase, {"check queued", "checking"})
    BY <1>3, <1>f
  <2>6. (AsInt(Field(row, "state")) # 0) <=>
             phase \in Phases \ {"stopped", "stopped but open", "stopped, disk full"}
    BY <2>0, <2>1
  <2>7. (AsInt(Field(row, "active")) # 0) <=> phase \in Phases \ idle
    BY <2>0, <2>2
  <2>8. (AsInt(Field(row, "open")) # 0) <=> phase \in Phases \ shut
    BY <2>0, <2>3
  <2>9. (AsInt(Field(row, "checking")) # 0) <=> phase \in {"checking"}
    BY <2>0, <2>4
  <2>10. (AsInt(Field(row, "hashing")) # 0) <=> phase \in {"check queued", "checking"}
    BY <2>0, <2>5
  <2> HIDE DEF shut, idle
  <2> QED
    BY <2>6, <2>7, <2>8, <2>9, <2>10
<1>7. AsStr(Field(row, "message")) = message
  <2> HIDE DEF message
  <2>1. Field(row, "message") = Str(message)
    BY <1>3, <1>f
  <2> QED
    BY <2>1, ValuesRead
<1>8. (AsInt(Field(row, "left")) # 0) <=> phase \notin {"seeding", "banned"}
  <2>1. Field(row, "left") = Num(IF phase \in {"seeding", "banned"} THEN 0 ELSE 9)
    BY <1>3, <1>f
  <2> QED
    BY <2>1, ValuesRead
<1>9. IsTrackerWarning(message) <=> message = "transport"
  BY DEF IsTrackerWarning, TrackerMessages, Rejections
<1> DEFINE is(name) == AsInt(Field(row, name)) # 0
           said == AsStr(Field(row, "message"))
<1>10. DeriveStatus(row) =
          IF is("checking") \/ is("hashing") THEN "hashing"
          ELSE IF ~is("state") THEN "stopped"
          ELSE IF said # "" /\ ~IsTrackerWarning(said) THEN "error"
          ELSE IF ~is("active") \/ ~is("open") THEN "paused"
          ELSE IF is("left") THEN "downloading" ELSE "seeding"
  BY DEF DeriveStatus
<1> DEFINE warned == message # "" /\ ~IsTrackerWarning(message)
<1>11. DeriveStatus(row) =
          IF phase \in {"check queued", "checking"} THEN "hashing"
          ELSE IF phase \in {"stopped", "stopped but open", "stopped, disk full"} THEN "stopped"
          ELSE IF warned THEN "error"
          ELSE IF phase \in idle \/ phase \in shut THEN "paused"
          ELSE IF phase \notin {"seeding", "banned"} THEN "downloading" ELSE "seeding"
  BY <1>6, <1>7, <1>8, <1>10
<1>12. warned <=> phase \in {"banned", "disk full", "stopped, disk full"}
  BY <1>9
<1>13. DeriveStatus(row) = StatusOf(phase)
  <2> HIDE DEF warned
  <2> QED
    BY <1>11, <1>12 DEF StatusOf, Phases
<1> QED
  BY <1>2, <1>4, <1>5, <1>13 DEF row

\* What a poll tells of a torrent.
Told(hash, phase) ==
    [hash |-> hash, downRate |-> IF phase \in {"leeching", "tracker down"} THEN 3 ELSE 0,
     status |-> StatusOf(phase)]

\* The torrent list of a daemon decodes to what the daemon means, torrent by torrent
\* (decodeTorrents).
LEMMA TorrentsRead ==
    ASSUME NEW phases \in Seq(Phases)
    PROVE  DecodeTorrents(List([i \in 1..Len(phases) |-> RowOf(i, phases[i])])) =
               [i \in 1..Len(phases) |-> Told(i, phases[i])]
<1> DEFINE n == Len(phases)
           rows == [i \in 1..n |-> RowOf(i, phases[i])]
           R == {RowOf(i, phases[i]) : i \in 1..n}
           good == {i \in DOMAIN rows : Len(rows[i]) >= 9}
<1>1. n \in Nat /\ \A i \in 1..n : phases[i] \in Phases
  OBVIOUS
<1>2. rows \in Seq(R) /\ Len(rows) = n /\ DOMAIN rows = 1..n
  BY <1>1
<1>3. \A i \in 1..n : rows[i] = RowOf(i, phases[i])
  OBVIOUS
<1>4. ASSUME NEW i \in 1..n
      PROVE  /\ Len(rows[i]) = 9 /\ AsStr(Field(rows[i], "hash")) = i
             /\ AsInt(Field(rows[i], "downRate")) =
                    IF phases[i] \in {"leeching", "tracker down"} THEN 3 ELSE 0
             /\ DeriveStatus(rows[i]) = StatusOf(phases[i])
  BY <1>1, <1>3, RowsReadRight
<1> HIDE DEF rows, R
<1>5. 1..Len(rows) \subseteq good
  <2>1. \A i \in 1..n : Len(rows[i]) = 9
    BY <1>4
  <2>2. ASSUME NEW i \in 1..n PROVE i \in DOMAIN rows /\ Len(rows[i]) >= 9
    <3> DEFINE width == Len(rows[i])
    <3>1. width = 9
      BY <2>1
    <3> HIDE DEF width
    <3>2. width >= 9
      BY <3>1
    <3>3. i \in DOMAIN rows
      BY <1>2
    <3> QED
      BY <3>2, <3>3 DEF width
  <2> QED
    BY <1>2, <2>2
<1>6. Kept(rows, good) = rows
  <2> HIDE DEF good
  <2> QED
    BY <1>2, <1>5, AllKept
<1>7. Len(TorrentFields) = 9
  BY DEF TorrentFields
<1>8. FullRows(rows, Len(TorrentFields)) = rows
  BY <1>6, <1>7 DEF FullRows
<1>9. List(rows).json = "list" /\ List(rows).is = rows
  BY DEF List
<1>10. DecodeTorrents(List(rows)) =
          [i \in 1..Len(rows) |-> [hash |-> AsStr(Field(rows[i], "hash")),
                                   downRate |-> AsInt(Field(rows[i], "downRate")),
                                   status |-> DeriveStatus(rows[i])]]
  BY <1>8, <1>9 DEF DecodeTorrents
<1>11. \A i \in 1..n : [hash |-> AsStr(Field(rows[i], "hash")),
                        downRate |-> AsInt(Field(rows[i], "downRate")),
                        status |-> DeriveStatus(rows[i])] = Told(i, phases[i])
  BY <1>4 DEF Told
<1>12. DecodeTorrents(List(rows)) = [i \in 1..n |-> Told(i, phases[i])]
  BY <1>2, <1>10, <1>11
<1> QED
  BY <1>12 DEF rows

\* The rate of all is three times the number of those that load, when each of them
\* loads at three (the loop that sums in Poll).
LEMMA RatesAddUp ==
    ASSUME NEW n \in Nat, NEW R, NEW torrents \in Seq(R), Len(torrents) = n, NEW S \in SUBSET (1..n),
           \A i \in 1..n : torrents[i].downRate = IF i \in S THEN 3 ELSE 0
    PROVE  SumRates(torrents) = 3 * Cardinality(S)
<1> DEFINE rate(m) == torrents[m].downRate
           Next1(f) == [m \in 0..n |-> IF m = 0 THEN 0 ELSE f[m - 1] + torrents[m].downRate]
<1>1. \E f : f = Next1(f)
  <2> DEFINE step == [m \in 1..n |-> [v \in Int |-> v + torrents[m].downRate]]
  <2>1. \A m \in 1..n : torrents[m].downRate \in Int
    OBVIOUS
  <2>2. step \in StepsAlong(0, n, Int)
    BY <2>1 DEF StepsAlong
  <2>a. \A m \in 1..n : \A v \in Int : step[m][v] = v + torrents[m].downRate
    OBVIOUS
  <2> DEFINE V == Int
             count == n
  <2> HIDE DEF step, V, count
  <2>3. PICK f \in [0..count -> V] : Follows(f, 0, count, 0, step)
    <3>1. 0 \in Int /\ count \in Int /\ 0 <= count /\ 0 \in V /\ step \in StepsAlong(0, count, V)
      BY <2>2 DEF V, count
    <3> QED
      BY <3>1, IntervalRecursion
  <2>4. \A m \in 1..n : step[m][f[m - 1]] = f[m - 1] + torrents[m].downRate
    <3>1. \A m \in 1..n : f[m - 1] \in Int
      BY <2>3 DEF V, count
    <3> QED
      BY <3>1, <2>a
  <2>5. f = Next1(f)
    <3>1. f = [m \in 0..n |-> IF m = 0 THEN 0 ELSE step[m][f[m - 1]]]
      BY <2>3 DEF count, Follows
    <3>2. \A m \in 0..n : f[m] = Next1(f)[m]
      <4>1. \A m \in 0..n : m # 0 => m \in 1..n
        OBVIOUS
      <4> QED
        BY <2>4, <3>1, <4>1
    <3> QED
      BY <3>1, <3>2
  <2> QED
    BY <2>5
<1> DEFINE upTo == CHOOSE f : f = Next1(f)
<1>2. upTo = Next1(upTo)
  BY <1>1
<1>3. SumRates(torrents) = upTo[n]
  BY DEF SumRates
<1> HIDE DEF upTo
<1> DEFINE part(m) == S \cap (1..m)
           N == {m \in Nat : m <= n => upTo[m] = 3 * Cardinality(part(m))}
<1>4. 0 \in N
  <2>1. part(0) = {}
    OBVIOUS
  <2>2. upTo[0] = 0
    BY <1>2
  <2> QED
    BY <2>1, <2>2, FS_EmptySet
<1>5. ASSUME NEW m \in Nat, m \in N, m + 1 <= n PROVE upTo[m + 1] = 3 * Cardinality(part(m + 1))
  <2>1. IsFiniteSet(part(m)) /\ Cardinality(part(m)) \in Nat
    <3>1. IsFiniteSet(1..m)
      BY FS_Interval
    <3>2. IsFiniteSet(part(m))
      BY <3>1, FS_Subset
    <3> QED
      BY <3>2, FS_CardinalityType
  <2>2. upTo[m + 1] = upTo[m] + torrents[m + 1].downRate
    <3>1. m + 1 \in 0..n /\ m + 1 # 0 /\ (m + 1) - 1 = m
      BY <1>5
    <3>2. upTo[m + 1] = upTo[(m + 1) - 1] + torrents[m + 1].downRate
      BY <1>2, <3>1
    <3> QED
      BY <3>1, <3>2
  <2>3. upTo[m] = 3 * Cardinality(part(m))
    BY <1>5
  <2>4. CASE m + 1 \in S
    <3>1. part(m + 1) = part(m) \cup {m + 1} /\ m + 1 \notin part(m)
      BY <2>4
    <3>2. torrents[m + 1].downRate = 3
      BY <1>5, <2>4
    <3> HIDE DEF part
    <3>3. Cardinality(part(m + 1)) = Cardinality(part(m)) + 1
      BY <2>1, <3>1, FS_AddElement
    <3> QED
      BY <2>1, <2>2, <2>3, <3>2, <3>3
  <2>5. CASE m + 1 \notin S
    <3>1. part(m + 1) = part(m)
      BY <2>5
    <3>2. torrents[m + 1].downRate = 0
      BY <1>5, <2>5
    <3> HIDE DEF part
    <3> QED
      BY <2>1, <2>2, <2>3, <3>1, <3>2
  <2> QED
    BY <2>4, <2>5
<1>6. \A m \in Nat : m \in N => m + 1 \in N
  BY <1>5
<1> HIDE DEF N
<1>7. n \in N
  BY <1>4, <1>6, NaturalInduction
<1>8. part(n) = S
  OBVIOUS
<1>9. upTo[n] = 3 * Cardinality(part(n))
  BY <1>7 DEF N
<1> HIDE DEF part
<1> QED
  BY <1>3, <1>8, <1>9

\* A poll's reply, if none of its items failed, is read as what the daemon told
\* (Poll).
LEMMA PollsRead ==
    ASSUME NEW phases \in Seq(Phases), NEW items \in PollReplies(phases), PollAnswer(items).ok
    PROVE  LET got == PollAnswer(items)
           IN /\ got.torrents = [i \in 1..Len(phases) |-> Told(i, phases[i])]
              /\ got.downRate = 3 * Cardinality({i \in DOMAIN phases :
                                                  phases[i] \in {"leeching", "tracker down"}})
              /\ got.downTotal = DownTotal /\ got.downLimit = DownLimit
<1> DEFINE list == List([i \in 1..Len(phases) |-> RowOf(i, phases[i])])
           results == <<list, NumStr(DownTotal), Num(DownLimit)>>
           batch == Batch(3, items)
           loading == {i \in DOMAIN phases : phases[i] \in {"leeching", "tracker down"}}
           told == [i \in 1..Len(phases) |-> Told(i, phases[i])]
<1>1. DecodeTorrents(list) = told
  BY TorrentsRead
<1> HIDE DEF list
<1>2. Len(results) = 3 /\ results \in Seq({list, NumStr(DownTotal), Num(DownLimit)})
      /\ results[1] = list /\ results[2] = NumStr(DownTotal) /\ results[3] = Num(DownLimit)
  OBVIOUS
<1>3. items \in Replies(results)
  BY DEF PollReplies, list
<1> HIDE DEF results
<1>4. PICK errs \in SUBSET (1..3) : Carries(items, results, errs)
  BY <1>2, <1>3, RepliesCarry
<1>5. /\ batch.errs = errs
      /\ \A i \in 1..3 : batch.results[i] = IF i \in errs THEN Nil ELSE results[i]
  <2>1. Len(results) \in Nat /\ errs \subseteq 1..Len(results)
    BY <1>2
  <2> HIDE DEF batch, loading, told
  <2>2. ReadsAs(Batch(Len(results), items), results, errs)
    <3>1. Carries(items, results, errs)
      BY <1>4
    <3> QED
      BY <2>1, <3>1, BatchReads
  <2> QED
    BY <1>2, <2>2 DEF batch, ReadsAs
<1> HIDE DEF batch
<1>6. errs = {}
  BY <1>5 DEF PollAnswer, Failed, batch
<1>7. /\ batch.results[1] = list /\ batch.results[2] = NumStr(DownTotal)
      /\ batch.results[3] = Num(DownLimit)
  BY <1>2, <1>5, <1>6
<1>8. PollAnswer(items) = [ok |-> TRUE, torrents |-> told, downRate |-> SumRates(told),
                           downTotal |-> DownTotal, downLimit |-> DownLimit]
  <2>1. AsInt(NumStr(DownTotal)) = DownTotal /\ AsInt(Num(DownLimit)) = DownLimit
    BY ValuesRead
  <2>2. batch.errs = {} /\ list.json = "list"
    BY <1>5, <1>6 DEF list, List
  <2> HIDE DEF told
  <2> QED
    BY <1>1, <1>7, <2>1, <2>2 DEF PollAnswer, batch
<1>9. SumRates(told) = 3 * Cardinality(loading)
  <2> DEFINE R == {Told(i, phases[i]) : i \in 1..Len(phases)}
  <2>0. DOMAIN phases = 1..Len(phases)
    OBVIOUS
  <2>1. Len(phases) \in Nat /\ told \in Seq(R) /\ Len(told) = Len(phases)
    OBVIOUS
  <2>2. loading \in SUBSET (1..Len(phases))
    BY <2>0
  <2>3. ASSUME NEW i \in 1..Len(phases)
        PROVE  told[i].downRate = IF i \in loading THEN 3 ELSE 0
    <3>1. told[i].downRate = IF phases[i] \in {"leeching", "tracker down"} THEN 3 ELSE 0
      BY DEF Told
    <3>2. i \in loading <=> phases[i] \in {"leeching", "tracker down"}
      BY <2>0
    <3> QED
      BY <3>1, <3>2
  <2> HIDE DEF told, loading, R
  <2> QED
    BY <2>1, <2>2, <2>3, RatesAddUp
<1> QED
  <2> HIDE DEF told, loading
  <2>1. /\ PollAnswer(items).torrents = told /\ PollAnswer(items).downRate = 3 * Cardinality(loading)
        /\ PollAnswer(items).downTotal = DownTotal /\ PollAnswer(items).downLimit = DownLimit
    BY <1>8, <1>9
  <2> QED
    BY <2>1 DEF told, loading

-----------------------------------------------------------------------------

\* The positions of a listing whose rows are full.
Full(listing) == {i \in DOMAIN listing : listing[i] = "full"}

\* A listing names no more rows than there are names, each of them not empty.
LEMMA ListingsAreNamed ==
    ASSUME NEW listing \in Listings
    PROVE  \E n \in Nat :
               /\ DOMAIN listing = 1..n
               /\ \A i \in 1..n : /\ listing[i] \in {"full", "short"}
                                  /\ Names[i] \in STRING /\ Names[i] # ""
<1>1. PICK n \in 0..Len(Names) : listing \in [1..n -> {"full", "short"}]
  BY DEF Listings
<1>2. Len(Names) \in Nat /\ DOMAIN Names = 1..Len(Names) /\ \A i \in 1..Len(Names) : Names[i] \in STRING
  <2>1. Names \in Seq(STRING)
    BY DaemonAssumption
  <2> QED
    BY <2>1
<1>3. \A i \in 1..n : i \in DOMAIN Names
  BY <1>2
<1>4. n \in Nat
  BY <1>2
<1> QED
  BY <1>1, <1>2, <1>3, <1>4, DaemonAssumption

\* Rows that are numbered are the full ones, each with the index the daemon counts it
\* by (the index kept by decodeFiles and decodeTrackers).
LEMMA FullRowsAreNumbered ==
    ASSUME NEW rows, NEW width, NEW S,
           S = {k \in DOMAIN rows : Len(rows[k]) >= width}
    PROVE  Numbered(rows, width) = {<<i - 1, rows[i]>> : i \in S}
BY DEF Numbered

\* Of an answer to a call for rows: when it is one, the rows were the daemon's
\* (multicallRows).
LEMMA RowsAreTheDaemons ==
    ASSUME NEW rows, NEW item \in RowReplies(rows), NEW decoded,
           RowsAnswer(item, decoded).ok
    PROVE  RowsOf(item) = rows /\ RowsAnswer(item, decoded).rows = decoded
<1>1. item = [id |-> 1, failed |-> FALSE, result |-> List(rows)]
  <2>1. \/ item = [id |-> 1, failed |-> FALSE, result |-> List(rows)]
        \/ item = [id |-> 1, failed |-> TRUE, result |-> Nil]
        \/ item = [id |-> 1, failed |-> FALSE, result |-> Str("garbage")]
    BY DEF RowReplies
  <2>2. CASE item = [id |-> 1, failed |-> TRUE, result |-> Nil]
    BY <2>2 DEF RowsAnswer, Failed
  <2>3. CASE item = [id |-> 1, failed |-> FALSE, result |-> Str("garbage")]
    <3>1. item.result.json = "string"
      BY <2>3 DEF Str
    <3> QED
      BY <3>1 DEF RowsAnswer, Failed
  <2> QED
    BY <2>1, <2>2, <2>3
<1>2. item.failed = FALSE /\ item.result.json = "list" /\ item.result.is = rows
  BY <1>1 DEF List
<1> QED
  BY <1>2 DEF RowsOf, RowsAnswer

\* A file and a tracker of a listing, as they are told.
FileTold(i) == [index |-> i - 1, path |-> Names[i], done |-> <<i, 4>>, priority |-> 1]
TrackerTold(i) ==
    [index |-> i - 1, url |-> Names[i], enabled |-> i % 2 = 1, event |-> TrackerEvent(Num(i))]

\* The files of a listing, decoded (decodeFiles).
LEMMA FilesRead ==
    ASSUME NEW listing \in Listings
    PROVE  DecodeFiles(FileRows(listing)) = {FileTold(i) : i \in Full(listing)}
<1> DEFINE rows == FileRows(listing)
           full == Full(listing)
           row(i) == <<Str(Names[i]), Num(i), NumStr(4), Num(1)>>
           told(numbered) ==
               [index |-> numbered[1], path |-> AsStr(numbered[2][1]),
                done |-> IF AsInt(numbered[2][3]) > 0
                         THEN <<AsInt(numbered[2][2]), AsInt(numbered[2][3])>> ELSE <<0, 1>>,
                priority |-> AsInt(numbered[2][4])]
<1>1. PICK n \in Nat :
          /\ DOMAIN listing = 1..n
          /\ \A i \in 1..n : /\ listing[i] \in {"full", "short"}
                             /\ Names[i] \in STRING /\ Names[i] # ""
  BY ListingsAreNamed
<1>2. DOMAIN rows = DOMAIN listing
      /\ \A i \in DOMAIN listing : rows[i] = IF listing[i] = "short" THEN Short ELSE row(i)
  BY DEF FileRows
<1>3. Len(Short) = 1
  BY DEF Short
<1>4. ASSUME NEW i \in full
      PROVE told(<<i - 1, rows[i]>>) = FileTold(i) /\ Len(rows[i]) = 4
  <2>1. rows[i] = row(i)
    BY <1>2 DEF Full
  <2>2. Len(row(i)) = 4 /\ row(i)[1] = Str(Names[i]) /\ row(i)[2] = Num(i) /\ row(i)[3] = NumStr(4)
        /\ row(i)[4] = Num(1)
    OBVIOUS
  <2> DEFINE numbered == <<i - 1, rows[i]>>
  <2>3. numbered[1] = i - 1 /\ numbered[2] = row(i)
    BY <2>1
  <2> HIDE DEF numbered, row
  <2>4. AsStr(numbered[2][1]) = Names[i]
    BY <2>2, <2>3, ValuesRead
  <2>5. AsInt(numbered[2][2]) = i
    BY <2>2, <2>3, ValuesRead
  <2>6. AsInt(numbered[2][3]) = 4
    BY <2>2, <2>3, ValuesRead
  <2>7. AsInt(numbered[2][4]) = 1
    BY <2>2, <2>3, ValuesRead
  <2>8. told(numbered) = FileTold(i)
    BY <2>3, <2>4, <2>5, <2>6, <2>7 DEF FileTold
  <2> QED
    BY <2>1, <2>2, <2>8 DEF numbered
<1>5. ASSUME NEW i \in DOMAIN listing, i \notin full PROVE ~(Len(rows[i]) >= 4)
  <2>1. rows[i] = Short
    BY <1>1, <1>2, <1>5 DEF Full
  <2> DEFINE width == Len(rows[i])
  <2>2. width = 1
    BY <1>3, <2>1
  <2> HIDE DEF width
  <2>3. ~(width >= 4)
    BY <2>2
  <2> QED
    BY <2>3 DEF width
<1>6. \A i \in full : Len(rows[i]) >= 4
  <2> TAKE i \in full
  <2> DEFINE width == Len(rows[i])
  <2>2. width = 4
    BY <1>4
  <2> HIDE DEF width
  <2>3. width >= 4
    BY <2>2
  <2> QED
    BY <2>3 DEF width
<1> HIDE DEF row, rows
<1>7. full = {k \in DOMAIN rows : Len(rows[k]) >= 4}
  <2>1. full \subseteq DOMAIN rows
    BY <1>2 DEF Full
  <2> HIDE DEF full
  <2> QED
    BY <1>2, <1>5, <1>6, <2>1
<1> HIDE DEF full
<1>8. Numbered(rows, 4) = {<<i - 1, rows[i]>> : i \in full}
  BY <1>7, FullRowsAreNumbered
<1>9. DecodeFiles(rows) = {told(numbered) : numbered \in Numbered(rows, 4)}
  BY DEF DecodeFiles
<1> HIDE DEF told
<1>10. DecodeFiles(rows) = {told(<<i - 1, rows[i]>>) : i \in full}
  BY <1>8, <1>9
<1>11. DecodeFiles(rows) = {FileTold(i) : i \in full}
  BY <1>4, <1>10
<1> QED
  BY <1>11 DEF full, rows

\* The trackers of a listing, decoded (decodeTrackers).
LEMMA TrackersRead ==
    ASSUME NEW listing \in Listings
    PROVE  DecodeTrackers(TrackerRows(listing)) = {TrackerTold(i) : i \in Full(listing)}
<1> DEFINE rows == TrackerRows(listing)
           full == Full(listing)
           row(i) == <<Str(Names[i]), NumStr(i % 2), Num(i)>>
           told(numbered) ==
               [index |-> numbered[1], url |-> AsStr(numbered[2][1]),
                enabled |-> AsInt(numbered[2][2]) # 0, event |-> TrackerEvent(numbered[2][3])]
<1>1. PICK n \in Nat :
          /\ DOMAIN listing = 1..n
          /\ \A i \in 1..n : /\ listing[i] \in {"full", "short"}
                             /\ Names[i] \in STRING /\ Names[i] # ""
  BY ListingsAreNamed
<1>2. DOMAIN rows = DOMAIN listing
      /\ \A i \in DOMAIN listing : rows[i] = IF listing[i] = "short" THEN Short ELSE row(i)
  BY DEF TrackerRows
<1>3. Len(Short) = 1
  BY DEF Short
<1>4. ASSUME NEW i \in full
      PROVE told(<<i - 1, rows[i]>>) = TrackerTold(i) /\ Len(rows[i]) = 3
  <2>1. rows[i] = row(i)
    BY <1>2 DEF Full
  <2>2. Len(row(i)) = 3 /\ row(i)[1] = Str(Names[i]) /\ row(i)[2] = NumStr(i % 2)
        /\ row(i)[3] = Num(i)
    OBVIOUS
  <2> DEFINE numbered == <<i - 1, rows[i]>>
  <2>3. numbered[1] = i - 1 /\ numbered[2] = row(i)
    BY <2>1
  <2> HIDE DEF numbered, row
  <2>4. AsStr(numbered[2][1]) = Names[i]
    BY <2>2, <2>3, ValuesRead
  <2>5. AsInt(numbered[2][2]) = i % 2
    BY <2>2, <2>3, ValuesRead
  <2>6. (AsInt(numbered[2][2]) # 0) <=> (i % 2 = 1)
    <3>1. i \in Nat
      <4>1. i \in 1..n
        BY <1>1 DEF Full
      <4>2. 1..n \subseteq Nat
        OBVIOUS
      <4> QED
        BY <4>1, <4>2
    <3> QED
      BY <2>5, <3>1
  <2>7. TrackerEvent(numbered[2][3]) = TrackerEvent(Num(i))
    BY <2>2, <2>3
  <2>8. told(numbered) = TrackerTold(i)
    BY <2>3, <2>4, <2>6, <2>7 DEF TrackerTold
  <2> QED
    BY <2>1, <2>2, <2>8 DEF numbered
<1>5. ASSUME NEW i \in DOMAIN listing, i \notin full PROVE ~(Len(rows[i]) >= 3)
  <2>1. rows[i] = Short
    BY <1>1, <1>2, <1>5 DEF Full
  <2> DEFINE width == Len(rows[i])
  <2>2. width = 1
    BY <1>3, <2>1
  <2> HIDE DEF width
  <2>3. ~(width >= 3)
    BY <2>2
  <2> QED
    BY <2>3 DEF width
<1>6. \A i \in full : Len(rows[i]) >= 3
  <2> TAKE i \in full
  <2> DEFINE width == Len(rows[i])
  <2>2. width = 3
    BY <1>4
  <2> HIDE DEF width
  <2>3. width >= 3
    BY <2>2
  <2> QED
    BY <2>3 DEF width
<1> HIDE DEF row, rows
<1>7. full = {k \in DOMAIN rows : Len(rows[k]) >= 3}
  <2>1. full \subseteq DOMAIN rows
    BY <1>2 DEF Full
  <2> HIDE DEF full
  <2> QED
    BY <1>2, <1>5, <1>6, <2>1
<1> HIDE DEF full
<1>8. Numbered(rows, 3) = {<<i - 1, rows[i]>> : i \in full}
  BY <1>7, FullRowsAreNumbered
<1>9. DecodeTrackers(rows) = {told(numbered) : numbered \in Numbered(rows, 3)}
  BY DEF DecodeTrackers
<1> HIDE DEF told
<1>10. DecodeTrackers(rows) = {told(<<i - 1, rows[i]>>) : i \in full}
  BY <1>8, <1>9
<1>11. DecodeTrackers(rows) = {TrackerTold(i) : i \in full}
  BY <1>4, <1>10
<1> QED
  BY <1>11 DEF full, rows

\* The least position of a set of them (the first tracker).
First(S) == CHOOSE i \in S : \A k \in S : i <= k

LEMMA FirstIsIn ==
    ASSUME NEW S \in SUBSET Nat, S # {}
    PROVE  First(S) \in S
<1>1. \E x \in S : \A y \in S : x <= y
  BY SmallestElement
<1> QED
  BY <1>1 DEF First

\* The host shown for a listing is that of an enabled tracker when there is one, and
\* there is none only when no row is full (primaryTrackerHost).
LEMMA HostRead ==
    ASSUME NEW listing \in Listings
    PROVE  LET host == PrimaryTrackerHost(HostRows(listing))
               full == Full(listing)
           IN /\ (host = "") <=> (full = {})
              /\ (\E i \in full : i % 2 = 0) => host \in {Names[i] : i \in {k \in full : k % 2 = 0}}
<1> DEFINE rows == HostRows(listing)
           full == Full(listing)
           even == {k \in full : k % 2 = 0}
           row(i) == <<Str(Names[i]), Num((i + 1) % 2)>>
           named == {i \in DOMAIN rows : Len(rows[i]) >= 2 /\ AsStr(rows[i][1]) # ""}
           enabled == {i \in named : AsInt(rows[i][2]) # 0}
           host == PrimaryTrackerHost(rows)
<1>1. PICK n \in Nat :
          /\ DOMAIN listing = 1..n
          /\ \A i \in 1..n : /\ listing[i] \in {"full", "short"}
                             /\ Names[i] \in STRING /\ Names[i] # ""
  BY ListingsAreNamed
<1>2. DOMAIN rows = DOMAIN listing
      /\ \A i \in DOMAIN listing : rows[i] = IF listing[i] = "short" THEN Short ELSE row(i)
  BY DEF HostRows
<1>3. Len(Short) = 1
  BY DEF Short
<1>0. full \in SUBSET Nat /\ full \subseteq DOMAIN rows
  <2>1. full \subseteq 1..n /\ full \subseteq DOMAIN listing
    BY <1>1 DEF Full
  <2>2. 1..n \subseteq Nat
    OBVIOUS
  <2> QED
    BY <1>2, <2>1, <2>2
<1>4. ASSUME NEW i \in full
      PROVE  /\ Len(rows[i]) = 2 /\ AsStr(rows[i][1]) = Names[i] /\ Names[i] # ""
             /\ AsInt(rows[i][2]) # 0 <=> i % 2 = 0
  <2>1. rows[i] = row(i)
    BY <1>2 DEF Full
  <2>2. Len(row(i)) = 2 /\ row(i)[1] = Str(Names[i]) /\ row(i)[2] = Num((i + 1) % 2)
    OBVIOUS
  <2>3. i \in Nat /\ i \in DOMAIN listing
    BY <1>0, <1>2
  <2> HIDE DEF row, rows
  <2>4. AsStr(rows[i][1]) = Names[i]
    BY <2>1, <2>2, ValuesRead
  <2>5. AsInt(rows[i][2]) = (i + 1) % 2
    BY <2>1, <2>2, ValuesRead
  <2>6. ((i + 1) % 2 # 0) <=> (i % 2 = 0)
    BY <2>3
  <2>7. Names[i] # ""
    BY <1>1, <2>3
  <2>8. Len(rows[i]) = 2
    BY <2>1, <2>2
  <2> QED
    BY <2>4, <2>5, <2>6, <2>7, <2>8
<1>5. ASSUME NEW i \in DOMAIN listing, i \notin full PROVE ~(Len(rows[i]) >= 2)
  <2>1. rows[i] = Short
    BY <1>1, <1>2, <1>5 DEF Full
  <2> DEFINE width == Len(rows[i])
  <2>2. width = 1
    BY <1>3, <2>1
  <2> HIDE DEF width
  <2>3. ~(width >= 2)
    BY <2>2
  <2> QED
    BY <2>3 DEF width
<1>6. \A i \in full : Len(rows[i]) >= 2
  <2> TAKE i \in full
  <2> DEFINE width == Len(rows[i])
  <2>2. width = 2
    BY <1>4
  <2> HIDE DEF width
  <2>3. width >= 2
    BY <2>2
  <2> QED
    BY <2>3 DEF width
<1> HIDE DEF row, rows, full
<1>7. named = full
  <2>1. \A i \in full : AsStr(rows[i][1]) # ""
    BY <1>4
  <2> QED
    BY <1>0, <1>2, <1>5, <1>6, <2>1
<1>8. enabled = even
  BY <1>4, <1>7
<1>9. host = IF enabled # {} THEN AsStr(rows[First(enabled)][1])
             ELSE IF named # {} THEN AsStr(rows[First(named)][1]) ELSE ""
  BY DEF PrimaryTrackerHost, First
<1> HIDE DEF named, enabled, host
<1>10. even \in SUBSET Nat /\ even \subseteq full
  BY <1>0
<1>11. CASE even # {}
  <2>1. First(even) \in even
    BY <1>10, <1>11, FirstIsIn
  <2>2. host = Names[First(even)]
    BY <1>4, <1>8, <1>9, <1>10, <1>11, <2>1
  <2>3. host # "" /\ full # {}
    BY <1>4, <1>10, <2>1, <2>2
  <2> QED
    BY <2>1, <2>2, <2>3 DEF host, rows, full
<1>12. CASE even = {} /\ full # {}
  <2>1. First(full) \in full
    BY <1>0, <1>12, FirstIsIn
  <2>2. host = Names[First(full)]
    BY <1>4, <1>7, <1>8, <1>9, <1>12, <2>1
  <2>3. host # ""
    BY <1>4, <2>1, <2>2
  <2>4. ~\E i \in full : i % 2 = 0
    BY <1>12
  <2> QED
    BY <1>12, <2>3, <2>4 DEF host, rows, full
<1>13. CASE full = {}
  <2>1. host = ""
    BY <1>7, <1>8, <1>9, <1>13
  <2> QED
    BY <1>13, <2>1 DEF host, rows, full
<1> QED
  BY <1>11, <1>12, <1>13

-----------------------------------------------------------------------------

\* An answer is of one of the questions, with what was made of a daemon's reply.
LEMMA AnswersComeFromReplies ==
    ASSUME NEW given \in Answers
    PROVE  \/ /\ given.asked = "poll"
              /\ given.of \in TorrentLists
              /\ \E items \in PollReplies(given.of) : given.got = PollAnswer(items)
           \/ /\ given.asked = "files"
              /\ given.of \in Listings
              /\ \E item \in RowReplies(FileRows(given.of)) :
                     given.got = RowsAnswer(item, DecodeFiles(RowsOf(item)))
           \/ /\ given.asked = "trackers"
              /\ given.of \in Listings
              /\ \E item \in RowReplies(TrackerRows(given.of)) :
                     given.got = RowsAnswer(item, DecodeTrackers(RowsOf(item)))
           \/ /\ given.asked = "host"
              /\ given.of \in Listings
              /\ given.got.host = PrimaryTrackerHost(HostRows(given.of))
           \/ given.asked = "pieces"
<1> DEFINE polls == UNION {{torrents} \X PollReplies(torrents) : torrents \in TorrentLists}
           files == UNION {{listing} \X RowReplies(FileRows(listing)) : listing \in Listings}
           trackers == UNION {{listing} \X RowReplies(TrackerRows(listing)) : listing \in Listings}
<1>1. CASE \E pair \in polls : given = [asked |-> "poll", of |-> pair[1], got |-> PollAnswer(pair[2])]
  <2>1. PICK pair \in polls : given = [asked |-> "poll", of |-> pair[1], got |-> PollAnswer(pair[2])]
    BY <1>1
  <2>2. pair[1] \in TorrentLists /\ pair[2] \in PollReplies(pair[1])
    OBVIOUS
  <2>3. given.asked = "poll" /\ given.of = pair[1] /\ given.got = PollAnswer(pair[2])
    BY <2>1
  <2> QED
    BY <2>2, <2>3
<1>2. CASE \E pair \in files : given = [asked |-> "files", of |-> pair[1],
                                       got |-> RowsAnswer(pair[2], DecodeFiles(RowsOf(pair[2])))]
  <2>1. PICK pair \in files : given = [asked |-> "files", of |-> pair[1],
                                      got |-> RowsAnswer(pair[2], DecodeFiles(RowsOf(pair[2])))]
    BY <1>2
  <2>2. pair[1] \in Listings /\ pair[2] \in RowReplies(FileRows(pair[1]))
    OBVIOUS
  <2>3. /\ given.asked = "files" /\ given.of = pair[1]
        /\ given.got = RowsAnswer(pair[2], DecodeFiles(RowsOf(pair[2])))
    BY <2>1
  <2> QED
    BY <2>2, <2>3
<1>3. CASE \E pair \in trackers :
              given = [asked |-> "trackers", of |-> pair[1],
                       got |-> RowsAnswer(pair[2], DecodeTrackers(RowsOf(pair[2])))]
  <2>1. PICK pair \in trackers :
              given = [asked |-> "trackers", of |-> pair[1],
                       got |-> RowsAnswer(pair[2], DecodeTrackers(RowsOf(pair[2])))]
    BY <1>3
  <2>2. pair[1] \in Listings /\ pair[2] \in RowReplies(TrackerRows(pair[1]))
    OBVIOUS
  <2>3. /\ given.asked = "trackers" /\ given.of = pair[1]
        /\ given.got = RowsAnswer(pair[2], DecodeTrackers(RowsOf(pair[2])))
    BY <2>1
  <2> QED
    BY <2>2, <2>3
<1>4. CASE \E listing \in Listings :
              given = [asked |-> "host", of |-> listing,
                       got |-> [ok |-> TRUE, host |-> PrimaryTrackerHost(HostRows(listing))]]
  BY <1>4
<1>5. CASE \E items \in Replies(<<Str(Pieces.bitfield), Num(Pieces.chunks)>>) :
              given = [asked |-> "pieces", of |-> <<>>, got |-> PiecesAnswer(items)]
  BY <1>5
<1> HIDE DEF polls, files, trackers
<1> QED
  BY <1>1, <1>2, <1>3, <1>4, <1>5 DEF Answers, polls, files, trackers

\* The answer of a call that has returned is one of those, and no other call has one.
Answered == answer \in Answers \cup {NoAnswer}

LEMMA OnlyAnswers == RpcSpec => []Answered
<1>1. RpcInit => Answered
  BY DEF RpcInit, Answered
<1>2. Answered /\ [RpcNext]_rpcVars => Answered'
  BY DEF RpcNext, rpcVars, Answered
<1> QED
  BY <1>1, <1>2, PTL DEF RpcSpec

\* A poll tells of every torrent of the daemon, with the status a user means and
\* with rates and limits the daemon reported, or fails (Poll, Batch).
THEOREM PollsTellEverything == RpcSpec => []PollAllOrNothing
<1>1. Answered => PollAllOrNothing
  <2> SUFFICES ASSUME Answered, answer.asked = "poll", answer.got.ok
               PROVE  LET told == answer.got.torrents
                          phases == answer.of
                      IN /\ Len(told) = Len(phases)
                         /\ \A i \in 1..Len(phases) : told[i].hash = i /\ told[i].status = StatusOf(phases[i])
                         /\ answer.got.downRate =
                               3 * Cardinality({i \in DOMAIN phases : phases[i] \in {"leeching", "tracker down"}})
                         /\ answer.got.downTotal = DownTotal /\ answer.got.downLimit = DownLimit
    BY DEF PollAllOrNothing
  <2>1. answer \in Answers
    BY DEF Answered, NoAnswer
  <2>2. /\ answer.of \in TorrentLists
        /\ \E items \in PollReplies(answer.of) : answer.got = PollAnswer(items)
    BY <2>1, AnswersComeFromReplies
  <2> DEFINE phases == answer.of
             got == answer.got
  <2>3. phases \in Seq(Phases)
    BY <2>2, DaemonAssumption
  <2>4. PICK items \in PollReplies(phases) : got = PollAnswer(items)
    BY <2>2
  <2>5. got.ok
    OBVIOUS
  <2> HIDE DEF got, phases
  <2>6. /\ got.torrents = [i \in 1..Len(phases) |-> Told(i, phases[i])]
        /\ got.downRate = 3 * Cardinality({i \in DOMAIN phases :
                                           phases[i] \in {"leeching", "tracker down"}})
        /\ got.downTotal = DownTotal /\ got.downLimit = DownLimit
    BY <2>3, <2>4, <2>5, PollsRead
  <2>7. Len(got.torrents) = Len(phases)
    <3>1. Len(phases) \in Nat
      BY <2>3
    <3>2. Len([i \in 1..Len(phases) |-> Told(i, phases[i])]) = Len(phases)
      BY <3>1
    <3> QED
      BY <2>6, <3>2
  <2>8. ASSUME NEW i \in 1..Len(phases)
        PROVE  got.torrents[i].hash = i /\ got.torrents[i].status = StatusOf(phases[i])
    <3>1. got.torrents[i] = Told(i, phases[i])
      BY <2>6
    <3>2. Told(i, phases[i]).hash = i /\ Told(i, phases[i]).status = StatusOf(phases[i])
      BY DEF Told
    <3> QED
      BY <3>1, <3>2
  <2> QED
    BY <2>6, <2>7, <2>8 DEF got, phases
<1> QED
  BY <1>1, OnlyAnswers, PTL

\* The index a file or tracker is shown with is the one the daemon knows it by, also
\* after rows that were skipped; the host shown is an enabled tracker's if there is one
\* (decodeFiles, decodeTrackers, primaryTrackerHost).
THEOREM IndexesAreTheDaemons == RpcSpec => []ListsAddressTheirItems
<1>1. Answered => ListsAddressTheirItems
  <2> SUFFICES ASSUME Answered PROVE ListsAddressTheirItems
    OBVIOUS
  <2> DEFINE listing == answer.of
             got == answer.got
             full == {i \in DOMAIN listing : listing[i] = "full"}
  <2>0. full = Full(listing)
    BY DEF Full
  <2>1. answer = NoAnswer \/ answer \in Answers
    BY DEF Answered
  <2>2. ASSUME NEW i \in full, listing \in Listings PROVE i \in Int /\ (i - 1) + 1 = i
    <3>1. PICK n \in Nat : DOMAIN listing = 1..n
      BY <2>2, ListingsAreNamed
    <3>2. i \in 1..n
      BY <3>1
    <3> QED
      BY <3>2
  <2>3. ASSUME answer.asked = "files", got.ok
        PROVE  /\ {file.index : file \in got.rows} = {i - 1 : i \in full}
               /\ \A file \in got.rows : file.path = Names[file.index + 1] /\ file.done[2] = 4
    <3>1. /\ listing \in Listings
          /\ \E item \in RowReplies(FileRows(listing)) :
                 got = RowsAnswer(item, DecodeFiles(RowsOf(item)))
      BY <2>1, <2>3, AnswersComeFromReplies DEF NoAnswer
    <3>2. PICK item \in RowReplies(FileRows(listing)) :
              got = RowsAnswer(item, DecodeFiles(RowsOf(item)))
      BY <3>1
    <3> HIDE DEF listing, got
    <3>3. got.rows = DecodeFiles(FileRows(listing))
      BY <2>3, <3>2, RowsAreTheDaemons
    <3>4. got.rows = {FileTold(i) : i \in Full(listing)}
      BY <3>1, <3>3, FilesRead
    <3>5. \A i \in full : /\ FileTold(i).index = i - 1 /\ FileTold(i).path = Names[i]
                          /\ FileTold(i).done[2] = 4
      BY DEF FileTold
    <3>6. \A i \in full : (i - 1) + 1 = i
      BY <2>2, <3>1
    <3> HIDE DEF full
    <3>7. got.rows = {FileTold(i) : i \in full}
      BY <2>0, <3>4
    <3>8. {file.index : file \in got.rows} = {i - 1 : i \in full}
      BY <3>5, <3>7
    <3>9. \A file \in got.rows : file.path = Names[file.index + 1] /\ file.done[2] = 4
      BY <3>5, <3>6, <3>7
    <3> QED
      BY <3>8, <3>9
  <2>4. ASSUME answer.asked = "trackers", got.ok
        PROVE  /\ {tracker.index : tracker \in got.rows} = {i - 1 : i \in full}
               /\ \A tracker \in got.rows :
                      /\ tracker.url = Names[tracker.index + 1]
                      /\ tracker.enabled = ((tracker.index + 1) % 2 = 1)
    <3>1. /\ listing \in Listings
          /\ \E item \in RowReplies(TrackerRows(listing)) :
                 got = RowsAnswer(item, DecodeTrackers(RowsOf(item)))
      BY <2>1, <2>4, AnswersComeFromReplies DEF NoAnswer
    <3>2. PICK item \in RowReplies(TrackerRows(listing)) :
              got = RowsAnswer(item, DecodeTrackers(RowsOf(item)))
      BY <3>1
    <3> HIDE DEF listing, got
    <3>3. got.rows = DecodeTrackers(TrackerRows(listing))
      BY <2>4, <3>2, RowsAreTheDaemons
    <3>4. got.rows = {TrackerTold(i) : i \in Full(listing)}
      BY <3>1, <3>3, TrackersRead
    <3>5. \A i \in full : /\ TrackerTold(i).index = i - 1 /\ TrackerTold(i).url = Names[i]
                          /\ TrackerTold(i).enabled = (i % 2 = 1)
      BY DEF TrackerTold
    <3>6. \A i \in full : (i - 1) + 1 = i
      BY <2>2, <3>1
    <3> HIDE DEF full
    <3>7. got.rows = {TrackerTold(i) : i \in full}
      BY <2>0, <3>4
    <3>8. {tracker.index : tracker \in got.rows} = {i - 1 : i \in full}
      BY <3>5, <3>7
    <3>9. \A tracker \in got.rows :
              /\ tracker.url = Names[tracker.index + 1]
              /\ tracker.enabled = ((tracker.index + 1) % 2 = 1)
      BY <3>5, <3>6, <3>7
    <3> QED
      BY <3>8, <3>9
  <2>5. ASSUME answer.asked = "host"
        PROVE  /\ (got.host = "") <=> (full = {})
               /\ (\E i \in full : i % 2 = 0) =>
                      got.host \in {Names[i] : i \in {k \in full : k % 2 = 0}}
    <3>1. listing \in Listings /\ got.host = PrimaryTrackerHost(HostRows(listing))
      BY <2>1, <2>5, AnswersComeFromReplies DEF NoAnswer
    <3> HIDE DEF listing, got, full
    <3> QED
      BY <2>0, <3>1, HostRead
  <2> QED
    BY <2>3, <2>4, <2>5 DEF ListsAddressTheirItems
<1> QED
  BY <1>1, OnlyAnswers, PTL

\* The calls of the client behave as ScgiClient says, whatever is read from their
\* replies: the theorems above are theorems about the client as a whole.
THEOREM ClientMakesCalls == RpcSpec => Spec
<1>1. RpcInit => Init
  BY DEF RpcInit
<1>2. [RpcNext]_rpcVars => [Next]_vars
  BY DEF RpcNext, rpcVars
<1> QED
  BY <1>1, <1>2, PTL DEF RpcSpec, Spec


-----------------------------------------------------------------------------
(* The cache of tracker hosts, for any torrents, polls and toggles.          *)
(* CacheFresh is not inductive: a commit is only as fresh as what was        *)
(* fetched, so the invariant also says that a fetched answer whose marker is *)
(* still parked is fresh.                                                    *)

Excused(h) == Toggling(h) \/ h \in missed \cup replaced

-----------------------------------------------------------------------------
\* The values of every variable stay within their types, in particular a cache
\* entry is a host, a marker or absent, never the empty host.
THEOREM CacheTypeCorrect == CacheSpec => []CacheTypeOK
<1>1. CacheInit => CacheTypeOK
  BY DEF CacheInit, CacheTypeOK, NoLocals
<1>2. CacheTypeOK /\ [CacheNext]_cacheVars => CacheTypeOK'
  <2> SUFFICES ASSUME CacheTypeOK, [CacheNext]_cacheVars PROVE CacheTypeOK'
    OBVIOUS
  <2> USE DEF CacheTypeOK, torrentsOfDaemon, flights, ghosts
  <2>1. ASSUME NEW h \in Hashes, RemoveTorrent(h) PROVE CacheTypeOK'
    BY <2>1 DEF RemoveTorrent
  <2>2. ASSUME NEW h \in Hashes, NEW host \in Hosts \cup {NoHost}, AddTorrent(h, host)
        PROVE CacheTypeOK'
    <3>1. primary' \in [Hashes -> Hosts \cup {NoHost}]
      BY <2>2 DEF AddTorrent
    <3>2. present' \subseteq Hashes /\ replaced' \subseteq Hashes
      BY <2>2 DEF AddTorrent
    <3> QED
      BY <2>2, <3>1, <3>2 DEF AddTorrent
  <2>3. ASSUME NEW f \in Flights, ListTorrents(f) PROVE CacheTypeOK'
    BY <2>3 DEF ListTorrents
  <2>4. ASSUME NEW f \in Flights, Park(f) PROVE CacheTypeOK'
    <3> DEFINE lacking == {h \in listed[f] : cache[h] = Absent}
    <3>1. cache' \in [Hashes -> Hosts \cup Flights \cup {Absent}]
      BY <2>4 DEF Park
    <3>2. missed' \subseteq Hashes /\ replaced' \subseteq Hashes
      BY <2>4 DEF Park, ForgetGhosts
    <3>3. lacking \subseteq Hashes
      OBVIOUS
    <3>4. flight' \in [Flights -> {"idle", "listed", "fetching", "fetched"}]
      BY <2>4 DEF Park, EndFlight
    <3>5. listed' \in [Flights -> SUBSET Hashes] /\ need' \in [Flights -> SUBSET Hashes]
      BY <2>4, <3>3 DEF Park, EndFlight
    <3>6. answered' \in [Flights -> [Hashes -> Hosts \cup {NoHost}]]
      BY <2>4 DEF Park, EndFlight, NoLocals
    <3> QED
      BY <2>4, <3>1, <3>2, <3>4, <3>5, <3>6 DEF Park
  <2>5. ASSUME NEW f \in Flights, NEW failed \in SUBSET Hashes, Fetch(f, failed)
        PROVE CacheTypeOK'
    BY <2>5 DEF Fetch
  <2>6. ASSUME NEW f \in Flights, Commit(f) PROVE CacheTypeOK'
    <3>1. cache' \in [Hashes -> Hosts \cup Flights \cup {Absent}]
      BY <2>6 DEF Commit
    <3>2. missed' \subseteq Hashes /\ replaced' \subseteq Hashes
      BY <2>6 DEF Commit, ForgetGhosts
    <3> QED
      BY <2>6, <3>1, <3>2 DEF Commit, EndFlight, NoLocals
  <2>7. ASSUME NEW t \in Toggles, NEW h \in Hashes, NEW host \in Hosts \cup {NoHost},
               ToggleApplied(t, h, host)
        PROVE CacheTypeOK'
    BY <2>7 DEF ToggleApplied
  <2>8. ASSUME NEW t \in Toggles, ToggleReturns(t) PROVE CacheTypeOK'
    BY <2>8 DEF ToggleReturns, ForgetGhosts
  <2>9. ASSUME NEW t \in Toggles, ToggleFails(t) PROVE CacheTypeOK'
    BY <2>9 DEF ToggleFails
  <2>10. CASE UNCHANGED cacheVars
    BY <2>10 DEF cacheVars
  <2> QED
    BY <2>1, <2>2, <2>3, <2>4, <2>5, <2>6, <2>7, <2>8, <2>9, <2>10
       DEF CacheNext, Torrents, Poll, Toggle
<1> QED
  BY <1>1, <1>2, PTL DEF CacheSpec

-----------------------------------------------------------------------------
\* Markers stay owned: a flight parks its marker as it goes out, commits or
\* clears every one it still finds before it ends, and nobody else writes it.
LEMMA StepKeepsMarkersOwned ==
    ASSUME CacheTypeOK, MarkersOwned, CacheNext
    PROVE  MarkersOwned'
<1> USE DEF MarkersOwned, CacheTypeOK, torrentsOfDaemon, flights, ghosts
<1>1. ASSUME NEW h \in Hashes, RemoveTorrent(h) PROVE MarkersOwned'
  BY <1>1 DEF RemoveTorrent
<1>2. ASSUME NEW h \in Hashes, NEW host, AddTorrent(h, host) PROVE MarkersOwned'
  BY <1>2 DEF AddTorrent
<1>3. ASSUME NEW f \in Flights, ListTorrents(f) PROVE MarkersOwned'
  BY <1>3 DEF ListTorrents
<1>4. ASSUME NEW f \in Flights, Park(f) PROVE MarkersOwned'
  <2> DEFINE lacking == {h \in listed[f] : cache[h] = Absent}
  <2>1. CASE lacking = {}
    BY <1>4, <2>1, DistinctValues DEF Park, EndFlight
  <2>2. CASE lacking # {}
    BY <1>4, <2>2, DistinctValues DEF Park
  <2> QED
    BY <2>1, <2>2
<1>5. ASSUME NEW f \in Flights, NEW failed, Fetch(f, failed) PROVE MarkersOwned'
  BY <1>5 DEF Fetch
<1>6. ASSUME NEW f \in Flights, Commit(f) PROVE MarkersOwned'
  <2> SUFFICES ASSUME NEW h \in Hashes, NEW g \in Flights, cache'[h] = g
               PROVE  flight'[g] \in {"fetching", "fetched"} /\ h \in need'[g]
    OBVIOUS
  <2>1. cache[h] = g /\ ~(h \in need[f] /\ cache[h] = f)
    BY <1>6, DistinctValues DEF Commit
  <2>2. g # f
    BY <2>1
  <2> QED
    BY <1>6, <2>1, <2>2 DEF Commit, EndFlight
<1>7. ASSUME NEW t \in Toggles, NEW h \in Hashes, NEW host, ToggleApplied(t, h, host)
      PROVE MarkersOwned'
  BY <1>7 DEF ToggleApplied
<1>8. ASSUME NEW t \in Toggles, ToggleReturns(t) PROVE MarkersOwned'
  BY <1>8, DistinctValues DEF ToggleReturns
<1>9. ASSUME NEW t \in Toggles, ToggleFails(t) PROVE MarkersOwned'
  BY <1>9 DEF ToggleFails
<1> QED
  BY <1>1, <1>2, <1>3, <1>4, <1>5, <1>6, <1>7, <1>8, <1>9 DEF CacheNext, Torrents, Poll, Toggle

\* No poll leaves its marker behind (rpc/torrents.go enrichTrackers).
THEOREM MarkersAlwaysOwned == CacheSpec => []MarkersOwned
<1>1. CacheInit => MarkersOwned
  BY DistinctValues DEF CacheInit, MarkersOwned
<1>2. CacheTypeOK /\ MarkersOwned /\ [CacheNext]_cacheVars => MarkersOwned'
  <2>1. MarkersOwned /\ UNCHANGED cacheVars => MarkersOwned'
    BY DEF cacheVars, flights, MarkersOwned
  <2> QED
    BY <2>1, StepKeepsMarkersOwned
<1> QED
  BY <1>1, <1>2, CacheTypeCorrect, PTL DEF CacheSpec

-----------------------------------------------------------------------------
\* Freshness of the cache and of the answers on their way to it, in one
\* formula: nothing the cache holds or is about to be given is a host other
\* than the daemon's, unless the torrent is excused.
Fresh == \A h \in present : StaleFor(h, primary[h]) => Excused(h)

LEMMA FreshImpliesCacheFresh ==
    ASSUME CacheTypeOK, Fresh
    PROVE  CacheFresh
BY DEF Fresh, CacheFresh, StaleFor, Excused, CacheTypeOK

\* A torrent that has lost its entry is not stale, so the ghosts may forget it.
LEMMA ForgettingIsSafe ==
    ASSUME CacheTypeOK, Fresh, ForgetGhosts, UNCHANGED <<torrentsOfDaemon, toggling>>,
           \A h \in present : StaleFor(h, primary[h])' =>
                               StaleFor(h, primary[h]) /\ cache'[h] # Absent
    PROVE  Fresh'
BY DEF Fresh, Excused, Toggling, ForgetGhosts, torrentsOfDaemon

LEMMA StepKeepsFresh ==
    ASSUME CacheTypeOK, MarkersOwned, Fresh, CacheNext
    PROVE  Fresh'
<1> USE DEF torrentsOfDaemon, flights, ghosts
<1>1. ASSUME NEW h \in Hashes, RemoveTorrent(h) PROVE Fresh'
  BY <1>1 DEF RemoveTorrent, Fresh, Excused, Toggling, StaleFor
<1>2. ASSUME NEW h \in Hashes, NEW host \in Hosts \cup {NoHost}, AddTorrent(h, host)
      PROVE Fresh'
  <2> SUFFICES ASSUME NEW k \in present', StaleFor(k, primary[k])'
               PROVE  Excused(k)'
    BY DEF Fresh
  <2>1. CASE k = h
    <3>1. primary'[h] = host
      BY <1>2 DEF AddTorrent, CacheTypeOK
    <3>2. StaleFor(h, host)
      BY <1>2, <2>1, <3>1 DEF AddTorrent, StaleFor
    <3> QED
      BY <1>2, <2>1, <3>2 DEF AddTorrent, Excused
  <2>2. CASE k # h
    <3>1. k \in present /\ primary'[k] = primary[k]
      BY <1>2, <2>2 DEF AddTorrent, CacheTypeOK
    <3>2. StaleFor(k, primary[k])
      BY <1>2, <3>1 DEF AddTorrent, StaleFor
    <3> QED
      BY <1>2, <3>1, <3>2 DEF Fresh, AddTorrent, Excused, Toggling
  <2> QED
    BY <2>1, <2>2
<1>3. ASSUME NEW f \in Flights, ListTorrents(f) PROVE Fresh'
  BY <1>3 DEF ListTorrents, Fresh, Excused, Toggling, StaleFor, CacheTypeOK
<1>4. ASSUME NEW f \in Flights, Park(f) PROVE Fresh'
  <2>1. ASSUME NEW h \in present, StaleFor(h, primary[h])'
        PROVE StaleFor(h, primary[h]) /\ cache'[h] # Absent
    <3>1. cache'[h] # Absent
      BY <2>1, DistinctValues DEF StaleFor
    <3>2. cache'[h] = f \/ cache'[h] = cache[h]
      BY <1>4, <3>1, <2>1 DEF Park, CacheTypeOK
    <3>3. flight'[f] # "fetched" /\ \A g \in Flights \ {f} : flight'[g] = flight[g] /\ answered'[g] = answered[g]
      BY <1>4 DEF Park, EndFlight, CacheTypeOK
    <3>4. cache'[h] # f
      BY <2>1, <3>3, DistinctValues DEF StaleFor
    <3>5. primary' = primary
      BY <1>4 DEF Park
    <3> QED
      BY <2>1, <3>1, <3>2, <3>3, <3>4, <3>5 DEF StaleFor
  <2> QED
    BY <1>4, <2>1, ForgettingIsSafe DEF Park
<1>5. ASSUME NEW f \in Flights, NEW failed, Fetch(f, failed) PROVE Fresh'
  <2> SUFFICES ASSUME NEW h \in present, StaleFor(h, primary[h])'
               PROVE  StaleFor(h, primary[h]) /\ UNCHANGED <<present, toggling, missed, replaced>>
    BY <1>5 DEF Fetch, Fresh, Excused, Toggling
  <2>1. answered'[f][h] \in {primary[h], NoHost}
    BY <1>5 DEF Fetch, CacheTypeOK
  <2>2. \A g \in Flights \ {f} : flight'[g] = flight[g] /\ answered'[g] = answered[g]
    BY <1>5 DEF Fetch, CacheTypeOK
  <2> QED
    BY <1>5, <2>1, <2>2 DEF Fetch, StaleFor
<1>6. ASSUME NEW f \in Flights, Commit(f) PROVE Fresh'
  <2>1. ASSUME NEW h \in present, StaleFor(h, primary[h])'
        PROVE StaleFor(h, primary[h]) /\ cache'[h] # Absent
    <3>1. cache'[h] # Absent
      BY <2>1, DistinctValues DEF StaleFor
    <3>2. flight'[f] = "idle" /\ \A g \in Flights \ {f} : flight'[g] = flight[g] /\ answered'[g] = answered[g]
      BY <1>6 DEF Commit, EndFlight, CacheTypeOK
    <3>3. primary' = primary /\ h \in Hashes
      BY <1>6 DEF Commit, CacheTypeOK
    <3>4. CASE h \in need[f] /\ cache[h] = f
      <4>1. cache'[h] = answered[f][h] /\ answered[f][h] # NoHost
        BY <1>6, <3>1, <3>3, <3>4 DEF Commit
      <4>2. answered[f][h] \in Hosts
        BY <3>3, <4>1 DEF CacheTypeOK
      <4>3. answered[f][h] # primary[h]
        BY <2>1, <3>3, <4>1, <4>2, DistinctValues DEF StaleFor
      <4> QED
        BY <1>6, <3>1, <3>4, <4>1, <4>3 DEF StaleFor, Commit
    <3>5. CASE ~(h \in need[f] /\ cache[h] = f)
      <4>1. cache'[h] = cache[h]
        BY <1>6, <3>3, <3>5 DEF Commit
      <4> QED
        BY <2>1, <3>1, <3>2, <3>3, <4>1 DEF StaleFor
    <3> QED
      BY <3>4, <3>5
  <2> QED
    BY <1>6, <2>1, ForgettingIsSafe DEF Commit
<1>7. ASSUME NEW t \in Toggles, NEW h \in Hashes, NEW host, ToggleApplied(t, h, host)
      PROVE Fresh'
  <2> SUFFICES ASSUME NEW k \in present, StaleFor(k, primary[k])' PROVE Excused(k)'
    BY <1>7 DEF Fresh, ToggleApplied
  <2>1. CASE k = h
    BY <1>7, <2>1 DEF ToggleApplied, Excused, Toggling, CacheTypeOK
  <2>2. CASE k # h
    <3>1. primary'[k] = primary[k]
      BY <1>7, <2>2 DEF ToggleApplied, CacheTypeOK
    <3>2. StaleFor(k, primary[k])
      BY <1>7, <3>1 DEF ToggleApplied, StaleFor
    <3>3. Toggling(k) => Toggling(k)'
      BY <1>7, <2>2, DistinctValues DEF Toggling, ToggleApplied, CacheTypeOK
    <3> QED
      BY <1>7, <3>2, <3>3 DEF Fresh, Excused, ToggleApplied
  <2> QED
    BY <2>1, <2>2
<1>8. ASSUME NEW t \in Toggles, ToggleReturns(t) PROVE Fresh'
  <2> SUFFICES ASSUME NEW k \in present, StaleFor(k, primary[k])' PROVE Excused(k)'
    BY <1>8 DEF Fresh, ToggleReturns
  <2>1. cache'[k] # Absent
    BY DistinctValues DEF StaleFor
  <2>2. k # toggling[t] /\ cache'[k] = cache[k]
    BY <1>8, <2>1 DEF ToggleReturns, CacheTypeOK
  <2>3. StaleFor(k, primary[k])
    BY <1>8, <2>2 DEF ToggleReturns, StaleFor
  <2>4. Toggling(k) => Toggling(k)'
    BY <1>8, <2>2 DEF Toggling, ToggleReturns, CacheTypeOK
  <2> QED
    BY <1>8, <2>1, <2>3, <2>4 DEF Fresh, Excused, ToggleReturns, ForgetGhosts
<1>9. ASSUME NEW t \in Toggles, ToggleFails(t) PROVE Fresh'
  <2> SUFFICES ASSUME NEW k \in present, StaleFor(k, primary[k])' PROVE Excused(k)'
    BY <1>9 DEF Fresh, ToggleFails
  <2>1. StaleFor(k, primary[k])
    BY <1>9 DEF ToggleFails, StaleFor
  <2>2. CASE k = toggling[t]
    BY <1>9, <2>1, <2>2 DEF ToggleFails, Excused
  <2>3. CASE k # toggling[t]
    <3>1. Toggling(k) => Toggling(k)'
      BY <1>9, <2>3 DEF Toggling, ToggleFails, CacheTypeOK
    <3> QED
      BY <1>9, <2>1, <3>1 DEF Fresh, Excused, ToggleFails
  <2> QED
    BY <2>2, <2>3
<1> QED
  BY <1>1, <1>2, <1>3, <1>4, <1>5, <1>6, <1>7, <1>8, <1>9 DEF CacheNext, Torrents, Poll, Toggle

\* A host is cached only while it is the daemon's primary tracker, whatever
\* polls overlap a toggle (rpc/torrents.go enrichTrackers, rpc/detail.go
\* SetTrackerEnabled), apart from lost replies and silently replaced torrents.
THEOREM CacheStaysFresh == CacheSpec => []CacheFresh
<1>1. CacheInit => Fresh
  BY DistinctValues DEF CacheInit, Fresh, StaleFor
<1>2. CacheTypeOK /\ MarkersOwned /\ Fresh /\ [CacheNext]_cacheVars => Fresh'
  <2>1. Fresh /\ UNCHANGED cacheVars => Fresh'
    BY DEF cacheVars, torrentsOfDaemon, flights, ghosts, Fresh, StaleFor, Excused, Toggling
  <2> QED
    BY <2>1, StepKeepsFresh
<1>3. CacheTypeOK /\ Fresh => CacheFresh
  BY FreshImpliesCacheFresh
<1> QED
  BY <1>1, <1>2, <1>3, CacheTypeCorrect, MarkersAlwaysOwned, PTL DEF CacheSpec

=============================================================================
