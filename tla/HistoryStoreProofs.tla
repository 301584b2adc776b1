-------------------------- MODULE HistoryStoreProofs --------------------------
(***************************************************************************)
(* Memory mirrors the database and refreshed history is kept, for any      *)
(* number of torrents, any times, and however statements fail and rounds,  *)
(* passes and restarts overlap.                                            *)
(***************************************************************************)
EXTENDS HistoryStore, Induction

-----------------------------------------------------------------------------
(* The inductive invariant. *)

\* A round's values are in the database until a pass deletes them.
RoundIsStored ==
    /\ sampling = "idle" => pending = Nothing /\ round = None
    /\ round # None => round = lastPoll
    /\ \A s \in Series : pending[s] # None => rows[s] = pending[s] \/ s \in untold

\* While the clock has only run forward: what is exempt from collection has no
\* seen row yet or was seen at the anchor or later, and no pass works with a later anchor.
AnchorInOrder ==
    stepsBack = 0 =>
        /\ lastPoll <= clock
        /\ \A h \in inRound : seen[h] # None => seen[h] >= lastPoll
        /\ gc # "idle" => cut <= lastPoll

Inv == TypeOK /\ RoundIsStored /\ MemoryMirrorsStore /\ AnchorInOrder

-----------------------------------------------------------------------------
(* Types. *)

\* The mark of a missing value is never a value.
LEMMA NoneIsNoCount == None \notin Nat
BY DEF None

\* What a round records is a value, the totals too (Sample, write).
LEMMA ValuesAreCounts ==
    ASSUME TypeOK, NEW s \in Series
    PROVE  Value(s) \in Nat /\ Value(s) # None
<1>1. CASE s = Global
  <2> DEFINE values == [h \in present |-> counter[h]]
  <2>1. values \in [present -> Nat] /\ IsFiniteSet(present)
    BY HashesAreSane, FS_Subset DEF TypeOK
  <2> HIDE DEF values
  <2>2. SumOf(values) \in Nat
    BY <2>1, SumOfNaturals
  <2> QED
    BY <1>1, <2>2, NoneIsNoCount DEF Value, Total, values
<1>2. CASE s # Global
  BY <1>2, HashesAreSane, NoneIsNoCount DEF Value, TypeOK, Series
<1> QED
  BY <1>1, <1>2

\* New starts with typed variables.
LEMMA InitTyped == Init => TypeOK
<1> SUFFICES ASSUME Init PROVE TypeOK
  OBVIOUS
<1>1. Nothing \in [Series -> Nat \cup {None}]
  BY DEF Nothing
<1>2. clock \in Start..MaxClock /\ 0 \in 0..MaxClock /\ 0 \in 0..MaxCount
  BY TimesAreSane, HashesAreSane DEF Init
<1> QED
  BY <1>1, <1>2 DEF Init, TypeOK

\* Every step keeps the types; SampleCache takes over a typed round.
LEMMA NextTyped == TypeOK /\ RoundIsStored /\ [Next]_vars => TypeOK'
<1> SUFFICES ASSUME TypeOK, RoundIsStored, [Next]_vars PROVE TypeOK'
  OBVIOUS
<1>1. ASSUME UNCHANGED <<db, cache, sample, maintain, ghosts>>, clock' \in Start..MaxClock,
             present' \subseteq Hashes, counter' \in [Hashes -> 0..MaxCount],
             stepsBack' \in Nat
      PROVE  TypeOK'
  BY <1>1 DEF TypeOK, db, cache, sample, maintain, ghosts
<1>2. CASE Tick
  <2>1. clock' \in Start..MaxClock
    BY <1>2, TimesAreSane DEF Tick, TypeOK
  <2> QED
    BY <1>1, <1>2, <2>1 DEF Tick, TypeOK
<1>3. ASSUME NEW t \in Start..MaxClock, StepBack(t) PROVE TypeOK'
  <2>1. clock' \in Start..MaxClock
    BY <1>3, TimesAreSane DEF StepBack
  <2> QED
    BY <1>1, <1>3, <2>1 DEF StepBack, TypeOK
<1>4. ASSUME NEW h \in Hashes, Transfer(h) PROVE TypeOK'
  <2>1. counter[h] + 1 \in 0..MaxCount
    BY <1>4, HashesAreSane DEF Transfer, TypeOK
  <2>2. counter' = [counter EXCEPT ![h] = counter[h] + 1]
    BY <1>4 DEF Transfer
  <2>3. counter' \in [Hashes -> 0..MaxCount]
    BY <2>1, <2>2 DEF TypeOK
  <2> QED
    BY <1>1, <1>4, <2>3 DEF Transfer, TypeOK
<1>5. ASSUME NEW h \in Hashes, RemoveTorrent(h) PROVE TypeOK'
  BY <1>1, <1>5 DEF RemoveTorrent, TypeOK
<1>6. ASSUME NEW h \in Hashes, NEW total \in 0..MaxCount, Add(h, total) PROVE TypeOK'
  BY <1>1, <1>6 DEF Add, TypeOK
<1>7. ASSUME NEW unwritten \in SUBSET Series, NEW unsighted \in SUBSET Hashes,
             NEW stuck \in SUBSET Hashes, NEW metaFails \in BOOLEAN,
             SampleTx(unwritten, unsighted, stuck, metaFails)
      PROVE  TypeOK'
  <2>1. \A s \in Series : Value(s) \in Nat \cup {None}
    BY ValuesAreCounts
  <2>2. rows' \in [Series -> Nat \cup {None}] /\ pending' \in [Series -> Nat \cup {None}]
    BY <1>7, <2>1 DEF SampleTx, TypeOK
  <2>0. clock \in 0..MaxClock
    BY TimesAreSane DEF TypeOK
  <2>3. seen' \in [Hashes -> 0..MaxClock \cup {None}]
    BY <1>7, <2>0 DEF SampleTx, TypeOK
  <2>4. lastPoll' \in 0..MaxClock /\ round' \in 0..MaxClock \cup {None}
    BY <1>7, <2>0 DEF SampleTx, TypeOK
  <2>5. inRound' \subseteq Hashes /\ sighted' \subseteq Hashes
    BY <1>7 DEF SampleTx, TypeOK
  <2>6. sampling' = "cache" /\ UNCHANGED <<world, cache, maintain, untold>>
    BY <1>7 DEF SampleTx
  <2> QED
    BY <2>2, <2>3, <2>4, <2>5, <2>6 DEF TypeOK, world, cache, maintain
<1>8. CASE SampleCache
  <2>1. last' \in [Series -> Nat \cup {None}]
    BY <1>8 DEF SampleCache, TypeOK
  <2>2. lastSeen' \in 0..MaxClock
    BY <1>8 DEF SampleCache, TypeOK
  <2>3. pending' \in [Series -> Nat \cup {None}] /\ untold' \subseteq Hashes
        /\ sampling' = "idle" /\ round' = None
    BY <1>8 DEF SampleCache, TypeOK, Nothing
  <2> QED
    BY <1>8, <2>1, <2>2, <2>3 DEF SampleCache, TypeOK, world, db, maintain
<1>9. CASE ReadAnchor
  <2>1. cut' \in {0} \cup (1 - Grace)..MaxClock
    <3>1. lastPoll \in 1..MaxClock
      BY <1>9, TimesAreSane DEF ReadAnchor, TypeOK
    <3> QED
      BY <1>9, <3>1, TimesAreSane DEF ReadAnchor, TypeOK
  <2> QED
    BY <1>9, <2>1 DEF ReadAnchor, TypeOK, world, db, cache, sample, ghosts
<1>10. ASSUME NEW o \in Outcomes, SelectStale(o) PROVE TypeOK'
  BY <1>10 DEF SelectStale, TypeOK, world, db, cache, sample, ghosts
<1>11. ASSUME NEW o \in Outcomes, DeleteSamples(o) PROVE TypeOK'
  BY <1>11 DEF DeleteSamples, TypeOK, world, cache, sample
<1>12. ASSUME NEW o \in Outcomes, DeleteSeen(o) PROVE TypeOK'
  BY <1>12 DEF DeleteSeen, TypeOK, world, cache, sample
<1>13. CASE DropCache
  BY <1>13 DEF DropCache, TypeOK, world, db, sample, ghosts
<1>14. CASE Restart
  <2>1. 0 \in 0..MaxClock
    BY TimesAreSane
  <2> QED
    BY <1>14, <2>1 DEF Restart, TypeOK, world, db, Nothing
<1>15. CASE UNCHANGED vars
  BY <1>1, <1>15 DEF vars, world, TypeOK
<1>16. {} \in SUBSET Series /\ {} \in SUBSET Hashes /\ FALSE \in BOOLEAN
  OBVIOUS
<1> QED
  BY <1>2, <1>3, <1>4, <1>5, <1>6, <1>7, <1>8, <1>9, <1>10, <1>11, <1>12, <1>13, <1>14, <1>15,
     <1>16 DEF Next

-----------------------------------------------------------------------------
(* Every step preserves the rest. *)

Kept == RoundIsStored /\ MemoryMirrorsStore /\ AnchorInOrder

\* Nothing is cached of an empty database.
LEMMA InitKept == Init => Kept
<1> SUFFICES ASSUME Init PROVE Kept
  OBVIOUS
<1>1. \A s \in Series : last[s] = None /\ pending[s] = None
  BY DEF Init, Nothing
<1>2. RoundIsStored
  BY <1>1 DEF Init, RoundIsStored
<1>3. MemoryMirrorsStore
  BY <1>1 DEF Init, MemoryMirrorsStore, CacheMirrorsRows, ThrottleMirrorsRefresh
<1>4. AnchorInOrder
  BY TimesAreSane DEF Init, AnchorInOrder
<1> QED
  BY <1>2, <1>3, <1>4 DEF Kept

\* The transaction stores what it hands to the cache, and a round that counts puts
\* every present torrent at the new anchor.
LEMMA TxKept ==
    ASSUME TypeOK, Kept, NEW unwritten \in SUBSET Series, NEW unsighted \in SUBSET Hashes,
           NEW stuck \in SUBSET Hashes, NEW metaFails \in BOOLEAN,
           SampleTx(unwritten, unsighted, stuck, metaFails)
    PROVE  Kept'
<1> DEFINE due == clock - lastSeen >= Refresh
           news == {s \in present \cup {Global} : last[s] # Value(s)}
           written == news \ unwritten
           unseen == {h \in present : seen[h] = None}
           sown == unseen \ unsighted
           touched == sown \cup {h \in (present \ unseen) \ stuck : due}
           refreshed == due /\ stuck = {} /\ ~metaFails
<1>0. RoundIsStored /\ CacheMirrorsRows /\ ThrottleMirrorsRefresh /\ AnchorInOrder
  BY DEF Kept, MemoryMirrorsStore
<1>1. /\ sampling = "idle" /\ sampling' = "cache"
      /\ rows' = [s \in Series |-> IF s \in written THEN Value(s) ELSE rows[s]]
      /\ seen' = [h \in Hashes |-> IF h \in touched THEN clock ELSE seen[h]]
      /\ lastPoll' = IF refreshed THEN clock ELSE lastPoll
      /\ pending' = [s \in Series |-> IF s \in written THEN Value(s) ELSE None]
      /\ round' = IF refreshed THEN clock ELSE None
      /\ inRound' = IF refreshed THEN present ELSE inRound \cup sown
      /\ UNCHANGED <<clock, stepsBack, last, lastSeen, gc, cut, stale, untold>>
  BY DEF SampleTx, world, cache, maintain
<1>2. pending = Nothing /\ round = None
  BY <1>0, <1>1 DEF RoundIsStored
<1>3. clock \in Nat /\ clock # None
  BY TimesAreSane, NoneIsNoCount DEF TypeOK
<1> HIDE DEF news, written, unseen, sown, touched, refreshed
<1>4. RoundIsStored'
  BY <1>1, <1>3 DEF RoundIsStored
<1>5. CacheMirrorsRows'
  <2> SUFFICES ASSUME NEW s \in Series
               PROVE  \/ last'[s] \in {None, rows'[s]}
                      \/ pending'[s] # None
                      \/ s \in untold'
                      \/ gc' \in {"seen", "drop"} /\ s \in stale'
    BY DEF CacheMirrorsRows
  <2>1. CASE s \in written
    BY <1>1, <2>1, ValuesAreCounts
  <2>2. CASE s \notin written
    <3>1. rows'[s] = rows[s] /\ pending[s] = None
      BY <1>1, <1>2, <2>2 DEF Nothing
    <3> QED
      BY <1>0, <1>1, <3>1 DEF CacheMirrorsRows
  <2> QED
    BY <2>1, <2>2
<1>6. ThrottleMirrorsRefresh'
  BY <1>0, <1>1, <1>2, <1>3 DEF ThrottleMirrorsRefresh
<1>7. AnchorInOrder'
  <2> SUFFICES ASSUME stepsBack = 0
               PROVE  /\ lastPoll' <= clock
                      /\ \A h \in inRound' : seen'[h] # None => seen'[h] >= lastPoll'
                      /\ gc # "idle" => cut <= lastPoll'
    BY <1>1 DEF AnchorInOrder
  <2>1. /\ lastPoll <= clock
        /\ \A h \in inRound : seen[h] # None => seen[h] >= lastPoll
        /\ gc # "idle" => cut <= lastPoll
    BY <1>0 DEF AnchorInOrder
  <2>2. lastPoll \in Nat /\ cut \in Int /\ inRound \subseteq Hashes /\ present \subseteq Hashes
    BY TimesAreSane DEF TypeOK
  <2>3. lastPoll' \in Nat /\ lastPoll <= lastPoll' /\ lastPoll' <= clock
    BY <1>1, <1>3, <2>1, <2>2
  <2>4. ASSUME NEW h \in inRound' PROVE seen'[h] # None => seen'[h] >= lastPoll'
    <3>1. CASE refreshed
      <4>1. h \in present /\ h \in Hashes
        BY <1>1, <2>2, <2>4, <3>1
      <4>2. h \in touched \/ seen[h] = None
        BY <4>1, <3>1 DEF refreshed, touched, unseen
      <4> QED
        BY <1>1, <1>3, <2>3, <4>1, <4>2
    <3>2. CASE ~refreshed
      <4>1. h \in Hashes /\ lastPoll' = lastPoll
        BY <1>1, <2>2, <2>4, <3>2 DEF sown, unseen
      <4>2. CASE h \in touched
        BY <1>1, <1>3, <2>3, <4>1, <4>2
      <4>3. CASE h \notin touched
        BY <1>1, <2>1, <2>4, <3>2, <4>1, <4>3 DEF touched
      <4> QED
        BY <4>2, <4>3
    <3> QED
      BY <3>1, <3>2
  <2>5. gc # "idle" => cut <= lastPoll'
    BY <2>1, <2>2, <2>3
  <2> QED
    BY <2>3, <2>4, <2>5
<1> QED
  BY <1>4, <1>5, <1>6, <1>7 DEF Kept, MemoryMirrorsStore

\* The cache takes over what is stored, or what a pass has deleted and noted.
LEMMA CacheKept == ASSUME TypeOK, Kept, SampleCache PROVE Kept'
<1>0. RoundIsStored /\ CacheMirrorsRows /\ ThrottleMirrorsRefresh /\ AnchorInOrder
  BY DEF Kept, MemoryMirrorsStore
<1>1. /\ last' = [s \in Series |-> IF pending[s] = None THEN last[s] ELSE pending[s]]
      /\ lastSeen' = IF round = None THEN lastSeen ELSE round
      /\ sampling' = "idle" /\ pending' = Nothing /\ round' = None
      /\ untold' = {h \in untold : last'[h] \notin {rows[h], None}}
      /\ UNCHANGED <<clock, stepsBack, rows, seen, lastPoll, gc, cut, stale, inRound>>
  BY DEF SampleCache, world, db, maintain
<1>2. RoundIsStored'
  BY <1>1 DEF RoundIsStored, Nothing
<1>3. CacheMirrorsRows'
  <2> SUFFICES ASSUME NEW s \in Series
               PROVE  \/ last'[s] \in {None, rows[s]}
                      \/ s \in untold'
                      \/ gc \in {"seen", "drop"} /\ s \in stale
    BY <1>1 DEF CacheMirrorsRows
  <2>1. s \in untold => last'[s] \in {None, rows[s]} \/ s \in untold'
    BY <1>1
  <2>2. CASE pending[s] = None
    <3>1. last'[s] = last[s]
      BY <1>1, <2>2
    <3> QED
      BY <1>0, <2>1, <2>2, <3>1 DEF CacheMirrorsRows
  <2>3. CASE pending[s] # None
    <3>1. last'[s] = pending[s]
      BY <1>1, <2>3
    <3> QED
      BY <1>0, <2>1, <2>3, <3>1 DEF RoundIsStored
  <2> QED
    BY <2>2, <2>3
<1>4. ThrottleMirrorsRefresh'
  BY <1>0, <1>1 DEF ThrottleMirrorsRefresh, RoundIsStored
<1>5. AnchorInOrder'
  BY <1>0, <1>1 DEF AnchorInOrder
<1> QED
  BY <1>2, <1>3, <1>4, <1>5 DEF Kept, MemoryMirrorsStore

\* The steps of a pass that delete no samples.
LEMMA PassKept ==
    ASSUME TypeOK, Kept, NEW o \in Outcomes, ReadAnchor \/ SelectStale(o) \/ DeleteSeen(o)
    PROVE  Kept'
<1>0. RoundIsStored /\ CacheMirrorsRows /\ ThrottleMirrorsRefresh /\ AnchorInOrder
  BY DEF Kept, MemoryMirrorsStore
<1>1. UNCHANGED <<rows, lastPoll, clock, stepsBack, last, lastSeen, sampling, pending, round, untold>>
  BY DEF ReadAnchor, SelectStale, DeleteSeen, world, db, cache, sample, ghosts
<1>2. RoundIsStored' /\ ThrottleMirrorsRefresh'
  BY <1>0, <1>1 DEF RoundIsStored, ThrottleMirrorsRefresh
<1>3. CASE ReadAnchor
  <2>1. CacheMirrorsRows'
    BY <1>0, <1>1, <1>3 DEF CacheMirrorsRows, ReadAnchor
  <2>2. lastPoll \in Nat /\ clock \in Nat /\ Grace \in Nat
    BY TimesAreSane DEF TypeOK
  <2>3. cut' <= lastPoll
    BY <1>3, <2>2 DEF ReadAnchor
  <2>4. AnchorInOrder'
    BY <1>0, <1>1, <1>3, <2>3 DEF AnchorInOrder, ReadAnchor, db, ghosts
  <2> QED
    BY <1>2, <2>1, <2>4 DEF Kept, MemoryMirrorsStore
<1>4. CASE SelectStale(o)
  <2>1. CacheMirrorsRows'
    BY <1>0, <1>1, <1>4 DEF CacheMirrorsRows, SelectStale
  <2>2. AnchorInOrder'
    BY <1>0, <1>1, <1>4 DEF AnchorInOrder, SelectStale, db, ghosts
  <2> QED
    BY <1>2, <2>1, <2>2 DEF Kept, MemoryMirrorsStore
<1>5. CASE DeleteSeen(o)
  <2>1. CacheMirrorsRows'
    BY <1>0, <1>1, <1>5 DEF CacheMirrorsRows, DeleteSeen
  <2>2. AnchorInOrder'
    <3>1. \A h \in inRound' : h \in inRound /\ h \in Hashes /\ seen'[h] = seen[h]
      BY <1>5 DEF DeleteSeen, TypeOK
    <3> QED
      BY <1>0, <1>1, <1>5, <3>1 DEF AnchorInOrder, DeleteSeen
  <2> QED
    BY <1>2, <2>1, <2>2 DEF Kept, MemoryMirrorsStore
<1> QED
  BY <1>3, <1>4, <1>5

\* What is deleted will leave the cache, is on its way into it, or is noted.
LEMMA DeleteKept == ASSUME TypeOK, Kept, NEW o \in Outcomes, DeleteSamples(o) PROVE Kept'
<1> DEFINE gone == IF o = "ok" THEN {h \in Hashes : IsStale(h)} ELSE {}
<1>0. RoundIsStored /\ CacheMirrorsRows /\ ThrottleMirrorsRefresh /\ AnchorInOrder
  BY DEF Kept, MemoryMirrorsStore
<1>1. /\ gc = "samples" /\ gc' = "seen"
      /\ rows' = [s \in Series |-> IF s \in gone THEN None ELSE rows[s]]
      /\ untold' = untold \cup {h \in gone : pending[h] # None \/ h \notin stale}
      /\ UNCHANGED <<clock, stepsBack, seen, lastPoll, last, lastSeen,
                     sampling, pending, round, cut, stale, inRound>>
  BY DEF DeleteSamples, world, cache, sample
<1> HIDE DEF gone
<1>2. RoundIsStored'
  BY <1>0, <1>1 DEF RoundIsStored
<1>3. CacheMirrorsRows'
  <2> SUFFICES ASSUME NEW s \in Series
               PROVE  \/ last[s] \in {None, rows'[s]}
                      \/ pending[s] # None
                      \/ s \in untold'
                      \/ s \in stale
    BY <1>1 DEF CacheMirrorsRows
  <2>1. CASE s \in gone
    BY <1>1, <2>1
  <2>2. CASE s \notin gone
    BY <1>0, <1>1, <2>2 DEF CacheMirrorsRows
  <2> QED
    BY <2>1, <2>2
<1>4. ThrottleMirrorsRefresh' /\ AnchorInOrder'
  BY <1>0, <1>1 DEF ThrottleMirrorsRefresh, AnchorInOrder
<1> QED
  BY <1>2, <1>3, <1>4 DEF Kept, MemoryMirrorsStore

\* Every step, one by one.
LEMMA NextKept == Inv /\ [Next]_vars => Kept'
<1> SUFFICES ASSUME Inv, [Next]_vars PROVE Kept'
  OBVIOUS
<1>0. /\ TypeOK /\ RoundIsStored /\ AnchorInOrder
      /\ CacheMirrorsRows /\ ThrottleMirrorsRefresh
  BY DEF Inv, MemoryMirrorsStore
<1>1. ASSUME UNCHANGED <<db, cache, sample, maintain, ghosts>>,
             stepsBack' = 0 => stepsBack = 0 /\ clock' >= clock
      PROVE  Kept'
  <2>1. RoundIsStored' /\ MemoryMirrorsStore'
    BY <1>0, <1>1 DEF RoundIsStored, MemoryMirrorsStore, CacheMirrorsRows,
       ThrottleMirrorsRefresh, db, cache, sample, maintain, ghosts
  <2>2. AnchorInOrder'
    <3> SUFFICES ASSUME stepsBack' = 0
                 PROVE  /\ lastPoll' <= clock'
                        /\ \A h \in inRound' : seen'[h] # None => seen'[h] >= lastPoll'
                        /\ gc' # "idle" => cut' <= lastPoll'
      BY DEF AnchorInOrder
    <3>1. stepsBack = 0 /\ clock' >= clock /\ lastPoll' = lastPoll
      BY <1>1 DEF db
    <3>2. lastPoll \in Nat /\ clock \in Nat /\ lastPoll <= clock
      BY <1>0, <3>1, TimesAreSane DEF TypeOK, AnchorInOrder
    <3>3. lastPoll' <= clock'
      BY <1>0, <1>1, <3>1, <3>2, NextTyped, TimesAreSane DEF TypeOK
    <3> QED
      BY <1>0, <1>1, <3>1, <3>3 DEF AnchorInOrder, db, maintain, ghosts
  <2> QED
    BY <2>1, <2>2 DEF Kept
<1>2. CASE Tick
  BY <1>0, <1>1, <1>2, TimesAreSane DEF Tick, TypeOK
<1>3. ASSUME NEW t \in Start..MaxClock, StepBack(t) PROVE Kept'
  BY <1>0, <1>1, <1>3 DEF StepBack, TypeOK
<1>4. ASSUME NEW h \in Hashes, Transfer(h) \/ RemoveTorrent(h) PROVE Kept'
  BY <1>0, <1>1, <1>4, TimesAreSane DEF Transfer, RemoveTorrent, TypeOK
<1>5. ASSUME NEW h \in Hashes, NEW total \in 0..MaxCount, Add(h, total) PROVE Kept'
  BY <1>0, <1>1, <1>5, TimesAreSane DEF Add, TypeOK
<1>6. ASSUME NEW unwritten \in SUBSET Series, NEW unsighted \in SUBSET Hashes,
             NEW stuck \in SUBSET Hashes, NEW metaFails \in BOOLEAN,
             SampleTx(unwritten, unsighted, stuck, metaFails)
      PROVE  Kept'
  BY <1>0, <1>6, TxKept DEF Kept, MemoryMirrorsStore
<1>7. CASE SampleCache
  BY <1>0, <1>7, CacheKept DEF Kept, MemoryMirrorsStore
<1>8. ASSUME NEW o \in Outcomes, ReadAnchor \/ SelectStale(o) \/ DeleteSeen(o) PROVE Kept'
  BY <1>0, <1>8, PassKept DEF Kept, MemoryMirrorsStore
<1>9. ASSUME NEW o \in Outcomes, DeleteSamples(o) PROVE Kept'
  BY <1>0, <1>9, DeleteKept DEF Kept, MemoryMirrorsStore
<1>10. CASE DropCache
  <2>1. RoundIsStored' /\ ThrottleMirrorsRefresh' /\ AnchorInOrder'
    BY <1>0, <1>10 DEF DropCache, RoundIsStored, ThrottleMirrorsRefresh, AnchorInOrder,
       world, db, sample, ghosts
  <2>2. CacheMirrorsRows'
    BY <1>0, <1>10 DEF DropCache, CacheMirrorsRows, TypeOK, world, db, sample, ghosts
  <2> QED
    BY <2>1, <2>2 DEF Kept, MemoryMirrorsStore
<1>11. CASE Restart
  <2>1. RoundIsStored' /\ ThrottleMirrorsRefresh' /\ AnchorInOrder'
    BY <1>0, <1>11 DEF Restart, RoundIsStored, ThrottleMirrorsRefresh, AnchorInOrder,
       world, db, Nothing
  <2>2. CacheMirrorsRows'
    BY <1>11 DEF Restart, CacheMirrorsRows, Nothing
  <2> QED
    BY <2>1, <2>2 DEF Kept, MemoryMirrorsStore
<1>12. CASE UNCHANGED vars
  BY <1>0, <1>1, <1>12, TimesAreSane DEF vars, world, TypeOK
<1>13. {} \in SUBSET Series /\ {} \in SUBSET Hashes /\ FALSE \in BOOLEAN /\ "ok" \in Outcomes
  BY DEF Outcomes
<1> QED
  BY <1>2, <1>3, <1>4, <1>5, <1>6, <1>7, <1>8, <1>9, <1>10, <1>11, <1>12, <1>13 DEF Next

-----------------------------------------------------------------------------
(* Theorems. *)

\* The invariant holds in every state of Sample, maintain and restarts.
THEOREM Inductive == Spec => []Inv
<1>1. Init => Inv
  BY InitTyped, InitKept DEF Inv, Kept
<1>2. Inv /\ [Next]_vars => Inv'
  BY NextTyped, NextKept DEF Inv, Kept
<1> QED
  BY <1>1, <1>2, PTL DEF Spec

\* Type correctness.
THEOREM TypeCorrect == Spec => []TypeOK
<1>1. Inv => TypeOK
  BY DEF Inv
<1> QED
  BY <1>1, Inductive, PTL

\* store.go 343-359, 380-393, 659-667: the dedup cache and the refresh
\* throttle never run ahead of the database, whichever statements fail and
\* however a round, a pass and a restart overlap.
THEOREM MemoryAlwaysMirrors == Spec => []MemoryMirrorsStore
<1>1. Inv => MemoryMirrorsStore
  BY DEF Inv
<1> QED
  BY <1>1, Inductive, PTL

\* store.go 624-658: while the clock runs forward the collection deletes no
\* history of a torrent in the last refresh that committed, or first seen since,
\* and never that of the totals.
THEOREM RefreshedAlwaysKept == Spec => RefreshedHistoryKept
<1>1. ASSUME Inv, [Next]_vars,
             NEW s \in Series, rows[s] # None, rows'[s] = None
      PROVE  s \in Hashes \ inRound \/ stepsBack > 0
  <2>1. PICK o \in Outcomes : DeleteSamples(o)
    <3>1. ASSUME NEW unwritten \in SUBSET Series, NEW unsighted \in SUBSET Hashes,
                 NEW stuck \in SUBSET Hashes, NEW metaFails \in BOOLEAN,
                 SampleTx(unwritten, unsighted, stuck, metaFails)
          PROVE  FALSE
      BY <1>1, <3>1, ValuesAreCounts DEF SampleTx, Inv
    <3>2. rows' # rows
      BY <1>1
    <3>3. {} \in SUBSET Series /\ {} \in SUBSET Hashes /\ FALSE \in BOOLEAN
      OBVIOUS
    <3>4. ~SampleTx({}, {}, {}, FALSE)
      BY <3>1, <3>3
    <3>5. ASSUME UNCHANGED rows PROVE FALSE
      BY <3>2, <3>5
    <3>6. ~Tick /\ ~SampleCache /\ ~ReadAnchor /\ ~DropCache /\ ~Restart /\ ~UNCHANGED vars
      BY <3>5 DEF Tick, SampleCache, ReadAnchor, DropCache, Restart, vars, db
    <3>7. \A t \in Start..MaxClock : ~StepBack(t)
      BY <3>5 DEF StepBack, db
    <3>8. \A h \in Hashes : ~Transfer(h) /\ ~RemoveTorrent(h)
                            /\ \A total \in 0..MaxCount : ~Add(h, total)
      BY <3>5 DEF Transfer, RemoveTorrent, Add, db
    <3>9. \A p \in Outcomes : ~SelectStale(p) /\ ~DeleteSeen(p)
      BY <3>5 DEF SelectStale, DeleteSeen, db
    <3> QED
      BY <1>1, <3>1, <3>4, <3>6, <3>7, <3>8, <3>9 DEF Next
  <2>2. s \in Hashes /\ IsStale(s) /\ gc = "samples"
    BY <1>1, <2>1 DEF DeleteSamples
  <2>3. stepsBack \in Nat /\ lastPoll \in Nat /\ cut \in Int /\ seen[s] \in Nat \cup {None}
    BY <1>1, <2>2, TimesAreSane DEF Inv, TypeOK
  <2>4. CASE stepsBack = 0 /\ s \in inRound
    BY <1>1, <2>2, <2>3, <2>4 DEF Inv, AnchorInOrder, IsStale
  <2> QED
    BY <2>2, <2>3, <2>4
<1>2. Inv /\ [Next]_vars =>
         [\A s \in Series : (rows[s] # None /\ rows'[s] = None)
             => s \in Hashes \ inRound \/ stepsBack > 0]_vars
  BY <1>1
<1> QED
  BY <1>2, Inductive, PTL DEF Spec, RefreshedHistoryKept

=============================================================================
