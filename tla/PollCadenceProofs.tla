--------------------------- MODULE PollCadenceProofs ---------------------------
(***************************************************************************)
(* Proofs about PollCadence, for any set of streams.  The invariant that   *)
(* carries them says what the hub's lock protects: who may be inside a     *)
(* callback, and what the poller's flag and the subscriber set are at each *)
(* of its steps.                                                           *)
(***************************************************************************)
EXTENDS PollCadence, TLAPS

\* One stream at a time is inside a callback, the callback agrees with the
\* subscriber set, and the flag is the one the callback is about to replace.
LockInv ==
    /\ \A a, b \in Clients : callback[a] # "none" /\ callback[b] # "none" => a = b
    /\ \A c \in Clients :
         /\ callback[c] = "first" => subs = {c} /\ ~active
         /\ callback[c] = "nudge" => subs = {c} /\ active
         /\ callback[c] = "zero"  => subs = {} /\ active
    /\ CadenceMatchesDemand

IInv == TypeOK /\ LockInv /\ NoLostNudge

-----------------------------------------------------------------------------
\* The poller starts within its types.
LEMMA InitTypeOK == Init => TypeOK
<1> SUFFICES ASSUME Init PROVE TypeOK
  OBVIOUS
<1>1. subs \subseteq Clients /\ owed \subseteq Clients
  BY DEF Init
<1>2. callback \in [Clients -> CallbackSteps]
  BY DEF Init, CallbackSteps
<1>3. active \in BOOLEAN /\ done \in BOOLEAN
  BY DEF Init
<1>4. wake \in 0..WakeCap
  BY DEF Init, WakeCap
<1>5. loop \in LoopSteps /\ armed \in {"live", "idle"}
  BY DEF Init, LoopSteps
<1> QED
  BY <1>1, <1>2, <1>3, <1>4, <1>5 DEF TypeOK

\* The poller keeps its types: in particular the nudge channel never holds
\* more than one token (poll/poller.go SetActive, run).
THEOREM TypeCorrect == Spec => []TypeOK
<1>1. Init => TypeOK
  BY InitTypeOK
<1>2. TypeOK /\ [Next]_vars => TypeOK'
  <2> SUFFICES ASSUME TypeOK, [Next]_vars PROVE TypeOK'
    OBVIOUS
  <2> USE DEF TypeOK, CallbackSteps, LoopSteps, WakeCap
  <2>1. ASSUME NEW c \in Clients, Subscribe(c) PROVE TypeOK'
    BY <2>1 DEF Subscribe
  <2>2. ASSUME NEW c \in Clients, Unsubscribe(c) PROVE TypeOK'
    BY <2>2 DEF Unsubscribe
  <2>3. ASSUME NEW c \in Clients, GoLive(c) PROVE TypeOK'
    BY <2>3 DEF GoLive
  <2>4. ASSUME NEW c \in Clients, Nudge(c) PROVE TypeOK'
    BY <2>4 DEF Nudge
  <2>5. ASSUME NEW c \in Clients, GoIdle(c) PROVE TypeOK'
    BY <2>5 DEF GoIdle
  <2>6. CASE Start \/ BeginPoll \/ PollReturns \/ PublishPoll \/ ArmTimer
    BY <2>6 DEF Start, BeginPoll, PollReturns, PublishPoll, ArmTimer
  <2>7. CASE TakeNudge
    BY <2>7 DEF TakeNudge
  <2>8. CASE TimerFires("live") \/ TimerFires("idle") \/ SeeDone
    BY <2>8 DEF TimerFires, SeeDone
  <2>9. CASE Stop
    BY <2>9 DEF Stop
  <2>10. CASE UNCHANGED vars
    BY <2>10 DEF vars
  <2> QED
    BY <2>1, <2>2, <2>3, <2>4, <2>5, <2>6, <2>7, <2>8, <2>9, <2>10 DEF Next
<1> QED
  BY <1>1, <1>2, PTL DEF Spec

-----------------------------------------------------------------------------
\* A step of the loop, or of Stop, leaves the lock's invariant alone: it writes
\* none of the variables the hub's lock protects.
LEMMA LoopKeepsLockInv ==
    ASSUME LockInv, UNCHANGED <<subs, callback, active>>
    PROVE  LockInv'
BY DEF LockInv, CadenceMatchesDemand, HubFree

\* Each hub step preserves the invariant of the lock.
LEMMA HubKeepsLockInv ==
    ASSUME TypeOK, LockInv, NEW c \in Clients,
           Subscribe(c) \/ Unsubscribe(c) \/ GoLive(c) \/ Nudge(c) \/ GoIdle(c)
    PROVE  LockInv'
<1> USE DEF LockInv, CadenceMatchesDemand, HubFree, TypeOK
<1>1. CASE Subscribe(c)
  BY <1>1 DEF Subscribe
<1>2. CASE Unsubscribe(c)
  BY <1>2 DEF Unsubscribe
<1>3. CASE GoLive(c)
  BY <1>3 DEF GoLive
<1>4. CASE Nudge(c)
  BY <1>4 DEF Nudge
<1>5. CASE GoIdle(c)
  BY <1>5 DEF GoIdle
<1> QED
  BY <1>1, <1>2, <1>3, <1>4, <1>5

\* The nudge survives every step: going live leaves the caller about to send
\* it, the send fills the channel, and only the loop's own receive empties it,
\* with which the loop leaves the select.
LEMMA StepKeepsNudge ==
    ASSUME IInv, Next
    PROVE  NoLostNudge'
<1> USE DEF NoLostNudge, NudgePending, IInv, TypeOK, WakeCap
<1>1. ASSUME NEW c \in Clients, Subscribe(c) PROVE NoLostNudge'
  BY <1>1 DEF Subscribe, HubFree
<1>2. ASSUME NEW c \in Clients, Unsubscribe(c) PROVE NoLostNudge'
  BY <1>2 DEF Unsubscribe, HubFree
<1>3. ASSUME NEW c \in Clients, GoLive(c) PROVE NoLostNudge'
  BY <1>3 DEF GoLive, LockInv
<1>4. ASSUME NEW c \in Clients, Nudge(c) PROVE NoLostNudge'
  BY <1>4 DEF Nudge
<1>5. ASSUME NEW c \in Clients, GoIdle(c) PROVE NoLostNudge'
  BY <1>5 DEF GoIdle
<1>6. CASE Start \/ BeginPoll \/ PollReturns \/ PublishPoll
  BY <1>6 DEF Start, BeginPoll, PollReturns, PublishPoll
<1>7. CASE ArmTimer
  BY <1>7 DEF ArmTimer
<1>8. CASE TakeNudge \/ TimerFires("live") \/ TimerFires("idle") \/ SeeDone
  BY <1>8 DEF TakeNudge, TimerFires, SeeDone
<1>9. CASE Stop
  BY <1>9 DEF Stop
<1> QED
  BY <1>1, <1>2, <1>3, <1>4, <1>5, <1>6, <1>7, <1>8, <1>9 DEF Next

LEMMA IInvHolds == Spec => []IInv
<1>1. Init => IInv
  <2>1. Init => LockInv
    BY DEF Init, LockInv, CadenceMatchesDemand
  <2>2. Init => NoLostNudge
    BY DEF Init, NoLostNudge
  <2> QED
    BY <2>1, <2>2, InitTypeOK DEF IInv
<1>2. TypeOK /\ TypeOK' /\ IInv /\ [Next]_vars => IInv'
  <2> SUFFICES ASSUME TypeOK, TypeOK', IInv, [Next]_vars PROVE IInv'
    OBVIOUS
  <2>1. CASE Next
    <3>1. LockInv'
      <4>1. ASSUME NEW c \in Clients,
                   Subscribe(c) \/ Unsubscribe(c) \/ GoLive(c) \/ Nudge(c) \/ GoIdle(c)
            PROVE LockInv'
        BY <4>1, HubKeepsLockInv DEF IInv
      <4>2. CASE \/ Start \/ BeginPoll \/ PollReturns \/ PublishPoll \/ ArmTimer
                 \/ TakeNudge \/ TimerFires("live") \/ TimerFires("idle") \/ SeeDone \/ Stop
        <5>1. UNCHANGED <<subs, callback, active>>
          BY <4>2 DEF Start, BeginPoll, PollReturns, PublishPoll, ArmTimer,
                      TakeNudge, TimerFires, SeeDone, Stop
        <5> QED
          BY <5>1, LoopKeepsLockInv DEF IInv
      <4> QED
        BY <2>1, <4>1, <4>2 DEF Next
    <3>2. NoLostNudge'
      BY <2>1, StepKeepsNudge
    <3> QED
      BY <3>1, <3>2 DEF IInv
  <2>2. CASE UNCHANGED vars
    BY <2>2 DEF vars, IInv, LockInv, NoLostNudge, NudgePending,
                CadenceMatchesDemand, HubFree
  <2> QED
    BY <2>1, <2>2
<1> QED
  BY <1>1, <1>2, TypeCorrect, PTL DEF Spec

\* The poller's cadence follows the hub's subscribers (sse/hub.go Subscribe,
\* Unsubscribe; poll/poller.go SetActive), however many streams come and go.
THEOREM CadenceCorrect == Spec => []CadenceMatchesDemand
<1>1. IInv => CadenceMatchesDemand
  BY DEF IInv, LockInv
<1> QED
  BY <1>1, IInvHolds, PTL

\* The loop never sleeps on the idle timer under a connected stream without a
\* nudge in, or on its way into, the channel (poll/poller.go SetActive, run).
THEOREM NudgeNeverLost == Spec => []NoLostNudge
<1>1. IInv => NoLostNudge
  BY DEF IInv
<1> QED
  BY <1>1, IInvHolds, PTL

=============================================================================
