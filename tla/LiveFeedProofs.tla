---------------------------- MODULE LiveFeedProofs ----------------------------
(***************************************************************************)
(* The tab's table is a published list, for any hub, and the feed is a     *)
(* Mirror.  What the server has sent and the tab not read is a trail: from *)
(* the list the tab shows, message by message, to the newest list.         *)
(***************************************************************************)
EXTENDS LiveFeedProps, TLAPS

-----------------------------------------------------------------------------
(* The wire format is lossless, for any hashes, fields and values. *)

\* A patched row is the new row when the patch carries every field in which the
\* new row differs from the one it is applied to.
LEMMA PatchDiff ==
    ASSUME NEW new \in Rows, NEW old \in Rows
    PROVE  Patch(old, DiffFrom(new, old)) = new
BY DEF Patch, DiffFrom, Rows

\* A whole row replaces whatever was there.
LEMMA PatchWhole ==
    ASSUME NEW new \in Rows, NEW old \in Rows
    PROVE  Patch(old, new) = new
BY DEF Patch, Rows

\* A row that differs nowhere is the same row.
LEMMA EmptyDiff ==
    ASSUME NEW new \in Rows, NEW old \in Rows, DOMAIN DiffFrom(new, old) = {}
    PROVE  new = old
BY DEF DiffFrom, Rows

LEMMA ListRows ==
    ASSUME NEW list \in Lists, NEW h \in DOMAIN list
    PROVE  list[h] \in Rows
BY DEF Lists

LEMMA ListEquality ==
    ASSUME NEW x \in Lists, NEW y, y = [h \in DOMAIN x |-> x[h]]
    PROVE  y = x
BY DEF Lists

\* The delta of two lists turns a table showing the first into one showing the
\* second (poll/poller.go tick against stores/torrents.svelte.ts).
THEOREM DeltaIsLossless ==
    ASSUME NEW prev \in Lists, NEW next \in Lists
    PROVE  ApplyDelta(prev, Upserts(next, prev), Removed(next, prev)) = next
<1> DEFINE ups == Upserts(next, prev)
           up == ApplyUpserts(prev, ups)
           res == ApplyDelta(prev, ups, Removed(next, prev))
<1>1. DOMAIN ups \subseteq DOMAIN next
  BY DEF Upserts
<1>2. DOMAIN next \ DOMAIN prev \subseteq DOMAIN ups
  BY DEF Upserts
<1>3. DOMAIN up = DOMAIN prev \cup DOMAIN next
  <2>1. DOMAIN up = DOMAIN prev \cup DOMAIN ups
    BY DEF ApplyUpserts
  <2> QED
    BY <1>1, <1>2, <2>1
<1>4. res = [h \in DOMAIN next |-> up[h]]
  <2>1. DOMAIN up \ Removed(next, prev) = DOMAIN next
    BY <1>3 DEF Removed
  <2> QED
    BY <2>1 DEF ApplyDelta, RemoveRows, Restrict
<1>5. ASSUME NEW h \in DOMAIN next PROVE up[h] = next[h]
  <2>0. next[h] \in Rows
    BY ListRows
  <2>1. CASE h \notin DOMAIN prev
    <3>1. h \in DOMAIN ups /\ ups[h] = next[h]
      BY <2>1, <1>2 DEF Upserts
    <3>2. up[h] = Patch(BlankRow, next[h])
      BY <2>1, <3>1 DEF ApplyUpserts, RowOf
    <3> QED
      BY <2>0, <3>2, PatchWhole, BlankRowIsRow
  <2>2. CASE h \in DOMAIN prev /\ h \in DOMAIN ups
    <3>1. ups[h] = DiffFrom(next[h], prev[h])
      BY <2>2 DEF Upserts
    <3>2. up[h] = Patch(prev[h], DiffFrom(next[h], prev[h]))
      BY <2>2, <3>1 DEF ApplyUpserts, RowOf
    <3>3. prev[h] \in Rows
      BY <2>2, ListRows
    <3> QED
      BY <2>0, <3>2, <3>3, PatchDiff
  <2>3. CASE h \in DOMAIN prev /\ h \notin DOMAIN ups
    <3>1. DOMAIN DiffFrom(next[h], prev[h]) = {}
      BY <2>3 DEF Upserts
    <3>2. up[h] = prev[h]
      BY <2>3 DEF ApplyUpserts
    <3>3. prev[h] \in Rows
      BY <2>3, ListRows
    <3> QED
      BY <2>0, <3>1, <3>2, <3>3, EmptyDiff
  <2> QED
    BY <2>1, <2>2, <2>3
<1>6. res = [h \in DOMAIN next |-> next[h]]
  BY <1>4, <1>5
<1> QED
  BY <1>6, ListEquality

\* A tab that subscribes between the hub's cache and its broadcast is given the
\* second list whole and then the delta that leads to it: the delta changes
\* nothing, as lib/sse-driver.ts assumes ("the duplicate applies harmlessly").
THEOREM DuplicateDeltaIsHarmless ==
    ASSUME NEW prev \in Lists, NEW next \in Lists
    PROVE  ApplyDelta(next, Upserts(next, prev), Removed(next, prev)) = next
<1> DEFINE ups == Upserts(next, prev)
           up == ApplyUpserts(next, ups)
           res == ApplyDelta(next, ups, Removed(next, prev))
<1>1. DOMAIN ups \subseteq DOMAIN next
  BY DEF Upserts
<1>2. DOMAIN up = DOMAIN next
  BY <1>1 DEF ApplyUpserts
<1>3. res = [h \in DOMAIN next |-> up[h]]
  <2>1. DOMAIN up \ Removed(next, prev) = DOMAIN next
    BY <1>2 DEF Removed
  <2> QED
    BY <2>1 DEF ApplyDelta, RemoveRows, Restrict
<1>4. ASSUME NEW h \in DOMAIN next PROVE up[h] = next[h]
  <2>0. next[h] \in Rows
    BY ListRows
  <2>1. CASE h \notin DOMAIN ups
    BY <2>1 DEF ApplyUpserts
  <2>2. CASE h \in DOMAIN ups
    <3>1. up[h] = Patch(next[h], ups[h])
      BY <2>2 DEF ApplyUpserts, RowOf
    <3>2. \A f \in DOMAIN ups[h] \cap Fields : ups[h][f] = next[h][f]
      BY <2>2 DEF Upserts, DiffFrom
    <3>3. Patch(next[h], ups[h]) = [f \in Fields |-> next[h][f]]
      BY <3>2 DEF Patch
    <3> QED
      BY <2>0, <3>1, <3>3 DEF Rows
  <2> QED
    BY <2>1, <2>2
<1>5. res = [h \in DOMAIN next |-> next[h]]
  BY <1>3, <1>4
<1> QED
  BY <1>5, ListEquality

\* A snapshot shows its list whatever the table showed before, so a table kept
\* across a reconnect is corrected by the first message.
THEOREM SnapshotReplaces ==
    ASSUME NEW shown \in Lists, NEW list \in Lists
    PROVE  ApplySnapshot(shown, list) = list
<1>1. ASSUME NEW h \in DOMAIN list PROVE Patch(RowOf(shown, h), list[h]) = list[h]
  <2>1. RowOf(shown, h) \in Rows
    BY ListRows, BlankRowIsRow DEF RowOf
  <2> QED
    BY <2>1, ListRows, PatchWhole
<1>2. ApplySnapshot(shown, list) = [h \in DOMAIN list |-> list[h]]
  BY <1>1 DEF ApplySnapshot
<1> QED
  BY <1>2, ListEquality

-----------------------------------------------------------------------------
(* Sequences. *)

LEMMA ConcatIsSeq ==
    ASSUME NEW M, NEW s \in Seq(M), NEW t \in Seq(M)
    PROVE  s \o t \in Seq(M) /\ Len(s \o t) = Len(s) + Len(t)
OBVIOUS

\* A message moves from one queue to the next.
LEMMA Shifted ==
    ASSUME NEW M, NEW s \in Seq(M), NEW t \in Seq(M), t # <<>>
    PROVE  Append(s, Head(t)) \o Tail(t) = s \o t
OBVIOUS

LEMMA TailOfConcat ==
    ASSUME NEW M, NEW s \in Seq(M), NEW t \in Seq(M), s # <<>>
    PROVE  Tail(s \o t) = Tail(s) \o t /\ Head(s \o t) = Head(s) /\ s \o t # <<>>
OBVIOUS

LEMMA AppendToConcat ==
    ASSUME NEW M, NEW s \in Seq(M), NEW t \in Seq(M), NEW m \in M
    PROVE  s \o Append(t, m) = Append(s \o t, m)
OBVIOUS

LEMMA EmptyConcat ==
    ASSUME NEW M, NEW t \in Seq(M)
    PROVE  <<>> \o t = t /\ <<>> \in Seq(M)
OBVIOUS

-----------------------------------------------------------------------------
(* Messages, and trails of them. *)

Seqs == 0..MaxPolls

Snapshots == {[event |-> "snapshot", seq |-> n, torrents |-> x] : n \in Seqs, x \in Lists}

Deltas == {[event |-> "delta", seq |-> n, upserts |-> Upserts(x, y), removed |-> Removed(x, y)] :
               n \in Seqs, x \in Lists, y \in Lists}

Statuses == {[event |-> "status", rtorrent |-> h] : h \in {"unknown", "up", "unreachable"}}

Msgs == Snapshots \cup Deltas \cup Statuses

\* A tab on list before of the log is on list after once it has read m.
Leads(log, m, before, after) ==
    \/ m \in Statuses /\ after = before
    \/ /\ after \in 1..Len(log) /\ before \in {0, after}
       /\ m = [event |-> "snapshot", seq |-> after, torrents |-> log[after]]
    \/ /\ after \in 2..Len(log) /\ before \in {after - 1, after}
       /\ m = [event |-> "delta", seq |-> after,
               upserts |-> Upserts(log[after], log[after - 1]),
               removed |-> Removed(log[after], log[after - 1])]

Trail(log, q, from, to) ==
    \E on \in [0..Len(q) -> Seqs] :
        /\ on[0] = from /\ on[Len(q)] = to
        /\ \A i \in 1..Len(q) : Leads(log, q[i], on[i - 1], on[i])
        /\ Newest(q, from, to)

LEMMA StatusShape ==
    ASSUME NEW m \in Statuses
    PROVE  m.event = "status" /\ ~IsData(m)
BY DEF Statuses, IsData

LEMMA LeadsShape ==
    ASSUME NEW log, NEW m, NEW before, NEW after, Leads(log, m, before, after)
    PROVE  after = IF IsData(m) THEN m.seq ELSE before
BY StatusShape DEF Leads, IsData

LEMMA NewestAppend ==
    ASSUME NEW q \in Seq(Msgs), NEW m \in Msgs, NEW from, NEW mid, NEW to,
           Newest(q, from, mid), to = IF IsData(m) THEN m.seq ELSE mid
    PROVE  Newest(Append(q, m), from, to)
<1> DEFINE r == Append(q, m)
           n == Len(q)
<1>1. n \in Nat /\ Len(r) = n + 1 /\ r[n + 1] = m /\ \A i \in 1..n : r[i] = q[i]
  OBVIOUS
<1> HIDE DEF r
<1>2. CASE IsData(m)
  <2>1. n + 1 \in 1..Len(r) /\ (n + 1 + 1)..Len(r) = {}
    BY <1>1
  <2> QED
    BY <1>1, <1>2, <2>1 DEF Newest, r
<1>3. CASE ~IsData(m)
  <2>1. \A i \in 1..Len(r) : i \in 1..n \/ i = n + 1
    BY <1>1
  <2>2. CASE mid = from /\ \A i \in 1..Len(q) : ~IsData(q[i])
    BY <1>1, <1>3, <2>1, <2>2 DEF Newest, r
  <2>3. CASE \E i \in 1..Len(q) :
                 IsData(q[i]) /\ q[i].seq = mid /\ \A j \in (i + 1)..Len(q) : ~IsData(q[j])
    <3>1. PICK i \in 1..n :
              IsData(q[i]) /\ q[i].seq = mid /\ \A j \in (i + 1)..n : ~IsData(q[j])
      BY <2>3
    <3>2. i \in 1..Len(r) /\ IsData(r[i]) /\ r[i].seq = to
      BY <1>1, <1>3, <3>1
    <3>3. \A j \in (i + 1)..Len(r) : (j \in 1..n /\ j \in (i + 1)..n) \/ j = n + 1
      BY <1>1, <3>1
    <3>4. \A j \in (i + 1)..Len(r) : ~IsData(r[j])
      BY <1>1, <1>3, <3>1, <3>3
    <3> QED
      BY <3>2, <3>4 DEF Newest, r
  <2> QED
    BY <2>2, <2>3 DEF Newest
<1> QED
  BY <1>2, <1>3

LEMMA NewestTail ==
    ASSUME NEW q \in Seq(Msgs), q # <<>>, NEW from, NEW mid, NEW to,
           Newest(q, from, to), mid = IF IsData(Head(q)) THEN Head(q).seq ELSE from
    PROVE  Newest(Tail(q), mid, to)
<1> DEFINE r == Tail(q)
           n == Len(q)
<1>1. /\ n \in Nat \ {0} /\ Len(r) = n - 1 /\ Head(q) = q[1]
      /\ \A i \in 1..(n - 1) : r[i] = q[i + 1] /\ i + 1 \in 1..n
  OBVIOUS
<1> HIDE DEF r
<1>2. CASE to = from /\ \A i \in 1..n : ~IsData(q[i])
  <2>1. ~IsData(q[1])
    BY <1>1, <1>2
  <2> QED
    BY <1>1, <1>2, <2>1 DEF Newest, r
<1>3. ASSUME NEW i \in 1..n, IsData(q[i]), q[i].seq = to,
             \A j \in (i + 1)..n : ~IsData(q[j])
      PROVE  Newest(r, mid, to)
  <2>1. CASE i = 1
    <3>1. mid = to
      BY <1>1, <1>3, <2>1
    <3>2. \A j \in 1..(n - 1) : j + 1 \in (i + 1)..n
      BY <1>1, <2>1
    <3>3. \A j \in 1..Len(r) : ~IsData(r[j])
      BY <1>1, <1>3, <3>2
    <3> QED
      BY <3>1, <3>3 DEF Newest
  <2>2. CASE i # 1
    <3>1. i - 1 \in 1..Len(r) /\ r[i - 1] = q[i]
      BY <1>1, <2>2
    <3>2. \A j \in ((i - 1) + 1)..Len(r) : j + 1 \in (i + 1)..n /\ j \in 1..(n - 1)
      BY <1>1, <2>2
    <3>3. \A j \in ((i - 1) + 1)..Len(r) : ~IsData(r[j])
      BY <1>1, <1>3, <3>2
    <3> QED
      BY <1>3, <3>1, <3>3 DEF Newest
  <2> QED
    BY <2>1, <2>2
<1> QED
  BY <1>2, <1>3 DEF Newest, r

LEMMA TrailOfNone ==
    ASSUME NEW log, NEW n \in Seqs
    PROVE  Trail(log, <<>>, n, n)
<1> DEFINE on == [i \in 0..0 |-> n]
<1>1. Len(<<>>) = 0 /\ on \in [0..0 -> Seqs] /\ on[0] = n
  OBVIOUS
<1>2. \A i \in 1..0 : Leads(log, <<>>[i], on[i - 1], on[i])
  OBVIOUS
<1> HIDE DEF on
<1> QED
  BY <1>1, <1>2 DEF Trail, Newest

LEMMA TrailAppend ==
    ASSUME NEW log, NEW q \in Seq(Msgs), NEW m \in Msgs, NEW from \in Seqs, NEW mid \in Seqs,
           NEW to \in Seqs, Trail(log, q, from, mid), Leads(log, m, mid, to)
    PROVE  Trail(log, Append(q, m), from, to)
<1>0. Newest(Append(q, m), from, to)
  BY LeadsShape, NewestAppend DEF Trail
<1>1. PICK on \in [0..Len(q) -> Seqs] :
          /\ on[0] = from /\ on[Len(q)] = mid
          /\ \A i \in 1..Len(q) : Leads(log, q[i], on[i - 1], on[i])
  BY DEF Trail
<1> DEFINE r == Append(q, m)
           more == [i \in 0..Len(r) |-> IF i = Len(r) THEN to ELSE on[i]]
<1>2. Len(q) \in Nat /\ Len(r) = Len(q) + 1
  OBVIOUS
<1>3. more \in [0..Len(r) -> Seqs]
  BY <1>2
<1>4. more[0] = from /\ more[Len(r)] = to
  BY <1>1, <1>2
<1>5. ASSUME NEW i \in 1..Len(r)
      PROVE  Leads(log, r[i], more[i - 1], more[i])
  <2>1. CASE i = Len(r)
    <3>1. r[i] = m /\ more[i] = to /\ more[i - 1] = mid
      BY <2>1, <1>1, <1>2
    <3> QED
      BY <3>1
  <2>2. CASE i # Len(r)
    <3>1. i \in 1..Len(q) /\ r[i] = q[i] /\ more[i] = on[i] /\ more[i - 1] = on[i - 1]
      BY <2>2, <1>2
    <3> QED
      BY <3>1, <1>1
  <2> QED
    BY <2>1, <2>2
<1> QED
  BY <1>0, <1>3, <1>4, <1>5 DEF Trail

LEMMA TrailTail ==
    ASSUME NEW log, NEW q \in Seq(Msgs), q # <<>>, NEW from, NEW to, Trail(log, q, from, to)
    PROVE  \E mid \in Seqs : Leads(log, Head(q), from, mid) /\ Trail(log, Tail(q), mid, to)
<1>1. PICK on \in [0..Len(q) -> Seqs] :
          /\ on[0] = from /\ on[Len(q)] = to
          /\ \A i \in 1..Len(q) : Leads(log, q[i], on[i - 1], on[i])
  BY DEF Trail
<1> DEFINE r == Tail(q)
           rest == [i \in 0..Len(r) |-> on[i + 1]]
<1>2. Len(q) \in Nat \ {0} /\ Len(r) = Len(q) - 1 /\ Head(q) = q[1]
  OBVIOUS
<1>3. rest \in [0..Len(r) -> Seqs]
  BY <1>2
<1>4. rest[0] = on[1] /\ rest[Len(r)] = to
  BY <1>1, <1>2
<1>5. ASSUME NEW i \in 1..Len(r)
      PROVE  Leads(log, r[i], rest[i - 1], rest[i])
  <2>1. i + 1 \in 1..Len(q) /\ r[i] = q[i + 1]
    BY <1>2
  <2>2. rest[i] = on[i + 1] /\ rest[i - 1] = on[i]
    BY <1>2
  <2>3. Leads(log, q[i + 1], on[(i + 1) - 1], on[i + 1])
    BY <1>1, <2>1
  <2> QED
    BY <2>1, <2>2, <2>3
<1>6. Leads(log, q[1], on[0], on[1]) /\ on[1] \in Seqs
  BY <1>1, <1>2
<1>7. Newest(r, on[1], to)
  <2>1. Newest(q, from, to)
    BY DEF Trail
  <2>2. on[1] = IF IsData(Head(q)) THEN Head(q).seq ELSE from
    BY <1>1, <1>2, <1>6, LeadsShape
  <2> QED
    BY <2>1, <2>2, NewestTail
<1>8. Trail(log, r, on[1], to)
  BY <1>3, <1>4, <1>5, <1>7 DEF Trail
<1> QED
  BY <1>1, <1>2, <1>6, <1>8

\* The log only grows, so a trail stays one.
LEMMA LeadsStays ==
    ASSUME NEW log \in Seq(Polled), NEW w \in Polled, NEW m, NEW before, NEW after,
           Leads(log, m, before, after)
    PROVE  Leads(Append(log, w), m, before, after)
<1>1. Len(Append(log, w)) = Len(log) + 1 /\ Len(log) \in Nat
  OBVIOUS
<1>2. \A n \in 1..Len(log) : Append(log, w)[n] = log[n]
  OBVIOUS
<1>3. CASE m \in Statuses /\ after = before
  BY <1>3 DEF Leads
<1>4. CASE after \in 1..Len(log)
  BY <1>1, <1>2, <1>4 DEF Leads
<1> QED
  BY <1>3, <1>4 DEF Leads

LEMMA TrailStays ==
    ASSUME NEW log \in Seq(Polled), NEW w \in Polled, NEW q \in Seq(Msgs), NEW from, NEW to,
           Trail(log, q, from, to)
    PROVE  Trail(Append(log, w), q, from, to)
BY LeadsStays DEF Trail

-----------------------------------------------------------------------------
(* What a message does to the table. *)

LEMMA PatchIsRow ==
    ASSUME NEW row \in Rows, NEW p, \A f \in DOMAIN p \cap Fields : p[f] \in Vals
    PROVE  Patch(row, p) \in Rows
BY DEF Patch, Rows

LEMMA RowOfIsRow ==
    ASSUME NEW x \in Lists, NEW h
    PROVE  RowOf(x, h) \in Rows
BY ListRows, BlankRowIsRow DEF RowOf

\* Also a delta against another list than the one shown leaves a list.
LEMMA DeltaLeavesList ==
    ASSUME NEW shown \in Lists, NEW x \in Lists, NEW y \in Lists
    PROVE  ApplyDelta(shown, Upserts(x, y), Removed(x, y)) \in Lists
<1> DEFINE ups == Upserts(x, y)
           up == ApplyUpserts(shown, ups)
           S == DOMAIN up \ Removed(x, y)
<1>1. DOMAIN ups \subseteq DOMAIN x /\ DOMAIN x \subseteq Hashes /\ DOMAIN shown \subseteq Hashes
  BY DEF Upserts, Lists
<1>2. DOMAIN up = DOMAIN shown \cup DOMAIN ups
  BY DEF ApplyUpserts
<1>3. ASSUME NEW h \in DOMAIN up PROVE up[h] \in Rows
  <2>1. CASE h \notin DOMAIN ups
    <3>1. h \in DOMAIN shown /\ up[h] = shown[h]
      BY <1>2, <2>1 DEF ApplyUpserts
    <3> QED
      BY <3>1, ListRows
  <2>2. CASE h \in DOMAIN ups
    <3>1. up[h] = Patch(RowOf(shown, h), ups[h])
      BY <1>2, <2>2 DEF ApplyUpserts
    <3>2. x[h] \in Rows
      BY <1>1, <2>2, ListRows
    <3>3. \A f \in DOMAIN ups[h] \cap Fields : ups[h][f] = x[h][f]
      BY <2>2 DEF Upserts, DiffFrom
    <3>4. \A f \in DOMAIN ups[h] \cap Fields : ups[h][f] \in Vals
      BY <3>2, <3>3 DEF Rows
    <3> QED
      BY <3>1, <3>4, PatchIsRow, RowOfIsRow
  <2> QED
    BY <2>1, <2>2
<1>4. ApplyDelta(shown, ups, Removed(x, y)) = [h \in S |-> up[h]]
  <2>1. DOMAIN up \cap S = S
    OBVIOUS
  <2> QED
    BY <2>1 DEF ApplyDelta, RemoveRows, Restrict
<1>5. [h \in S |-> up[h]] \in [S -> Rows] /\ S \in SUBSET Hashes
  BY <1>1, <1>2, <1>3
<1> QED
  BY <1>4, <1>5 DEF Lists

\* The listeners of the tab: what reading m makes of the table.
Read(shown, m) ==
    CASE m.event = "snapshot" -> ApplySnapshot(shown, m.torrents)
      [] m.event = "delta" -> ApplyDelta(shown, m.upserts, m.removed)
      [] m.event = "status" -> shown

LEMMA ReadLeavesList ==
    ASSUME NEW shown \in Lists, NEW m \in Msgs
    PROVE  Read(shown, m) \in Lists
<1>1. CASE m \in Snapshots
  <2>1. PICK n \in Seqs, x \in Lists : m = [event |-> "snapshot", seq |-> n, torrents |-> x]
    BY <1>1 DEF Snapshots
  <2>2. Read(shown, m) = ApplySnapshot(shown, x)
    BY <2>1 DEF Read
  <2> QED
    BY <2>2, SnapshotReplaces
<1>2. CASE m \in Deltas
  <2>1. PICK n \in Seqs, x \in Lists, y \in Lists :
            m = [event |-> "delta", seq |-> n, upserts |-> Upserts(x, y),
                 removed |-> Removed(x, y)]
    BY <1>2 DEF Deltas
  <2>2. Read(shown, m) = ApplyDelta(shown, Upserts(x, y), Removed(x, y))
    BY <2>1 DEF Read
  <2> QED
    BY <2>2, DeltaLeavesList
<1>3. CASE m \in Statuses
  BY <1>3 DEF Read, Statuses
<1> QED
  BY <1>1, <1>2, <1>3 DEF Msgs

LEMMA DataShape ==
    ASSUME NEW m \in Msgs, IsData(m)
    PROVE  m.seq \in Seqs
BY DEF Msgs, Snapshots, Deltas, Statuses, IsData

\* A tab that shows an entry of the log, or is promised nothing yet, shows the
\* entry the message leads to; it is the one it showed, the next, or the first.
LEMMA ReadFollows ==
    ASSUME NEW log \in Seq(Lists), NEW shown \in Lists, NEW m, NEW before \in Nat, NEW after,
           before = 0 \/ (before \in 1..Len(log) /\ shown = log[before]),
           Leads(log, m, before, after)
    PROVE  /\ after = IF IsData(m) THEN m.seq ELSE before
           /\ ~IsData(m) => Read(shown, m) = shown
           /\ IsData(m) =>
                /\ after \in 1..Len(log) /\ Read(shown, m) = log[after]
                /\ before = 0 \/ after \in {before, before + 1}
<1>1. CASE m \in Statuses /\ after = before
  BY <1>1, StatusShape DEF Read
<1>2. CASE /\ after \in 1..Len(log) /\ before \in {0, after}
           /\ m = [event |-> "snapshot", seq |-> after, torrents |-> log[after]]
  <2>1. IsData(m) /\ m.seq = after /\ Read(shown, m) = ApplySnapshot(shown, log[after])
    BY <1>2 DEF Read, IsData
  <2>2. log[after] \in Lists
    BY <1>2
  <2>3. Read(shown, m) = log[after]
    BY <2>1, <2>2, SnapshotReplaces
  <2> QED
    BY <1>2, <2>1, <2>3
<1>3. CASE /\ after \in 2..Len(log) /\ before \in {after - 1, after}
           /\ m = [event |-> "delta", seq |-> after,
                   upserts |-> Upserts(log[after], log[after - 1]),
                   removed |-> Removed(log[after], log[after - 1])]
  <2>1. /\ IsData(m) /\ m.seq = after
        /\ Read(shown, m) = ApplyDelta(shown, Upserts(log[after], log[after - 1]),
                                       Removed(log[after], log[after - 1]))
    BY <1>3 DEF Read, IsData
  <2>2. log[after] \in Lists /\ log[after - 1] \in Lists
    BY <1>3
  <2>3. shown = log[before] /\ before # 0
    BY <1>3
  <2>4. CASE before = after - 1
    BY <1>3, <2>1, <2>2, <2>3, <2>4, DeltaIsLossless
  <2>5. CASE before = after
    BY <1>3, <2>1, <2>2, <2>3, <2>5, DuplicateDeltaIsHarmless
  <2> QED
    BY <1>3, <2>4, <2>5
<1> QED
  BY <1>1, <1>2, <1>3 DEF Leads

-----------------------------------------------------------------------------
(* The inductive invariant. *)

Typed ==
    /\ pc \in {"poll", "setStatus", "castStatus", "setSnap", "cast"}
    /\ pending \in {<<>>} \cup {<<w>> : w \in Polled}
    /\ published \in Seq(Polled) /\ Len(published) <= MaxPolls
    /\ fails \in 0..UnreachableAfter /\ health \in {"unknown", "up", "unreachable"}
    /\ handler \in [Conns -> {"free", "connecting", "serving", "returned"}]
    /\ chan \in [Conns -> Seq(Msgs)] /\ wire \in [Conns -> Seq(Msgs)]
    /\ \A c \in Conns : Len(chan[c]) <= BufCap /\ Len(wire[c]) <= WireCap
    /\ killed \subseteq Conns /\ cur \in Conns \cup {NoConn}
    /\ table \in Lists /\ lastSeq \in Seqs /\ srvDown \in BOOLEAN

\* A tick under way has something to publish, room in the log for it, and has
\* published before it broadcasts.
TickInOrder ==
    /\ pc = "cast" => published # <<>>
    /\ pc = "setSnap" => pending # <<>>
    /\ pending # <<>> => Len(published) < MaxPolls

\* The hub replays the newest list.
Cached ==
    /\ published = <<>> => latestSnap = <<>>
    /\ published # <<>> => latestSnap = <<SnapshotMsg(Len(published))>>
    /\ latestStatus \in {<<>>} \cup {<<m>> : m \in Statuses}

\* A stream that is not registered has nothing in its queues.
UnservedIsEmpty ==
    \A c \in Conns : handler[c] \in {"free", "connecting"} =>
        chan[c] = <<>> /\ wire[c] = <<>> /\ c \notin killed

\* The connection of the tab exists, and has delivered nothing before it is served.
Attached ==
    cur # NoConn => handler[cur] # "free" /\ (handler[cur] = "connecting" => lastSeq = 0)

\* The newest list every stream has been sent; a stream that joined during the
\* tick may be ahead of the broadcast.
Sent == IF pc = "cast" THEN {Len(published) - 1, Len(published)} ELSE {Len(published)}

Trailing ==
    (Sound /\ handler[cur] = "serving") =>
        \E to \in Sent : Trail(published, Pipeline(cur), lastSeq, to)

Shown ==
    Sound => lastSeq = 0 \/ (lastSeq \in 1..Len(published) /\ table = published[lastSeq])

Ordered == TickInOrder /\ Cached /\ UnservedIsEmpty /\ Attached

Inv == Typed /\ Ordered /\ Trailing /\ Shown

-----------------------------------------------------------------------------
(* What the actions send. *)

LEMMA LogIsOfLists ==
    ASSUME Typed
    PROVE  published \in Seq(Lists) /\ Len(published) \in Seqs
           /\ \A n \in 1..Len(published) : published[n] \in Lists
<1>1. published \in Seq(Lists)
  BY PolledAreLists DEF Typed
<1> QED
  BY <1>1, CapsAssumption DEF Typed, Seqs

LEMMA SnapshotIsMsg ==
    ASSUME Typed, NEW n \in 1..Len(published)
    PROVE  SnapshotMsg(n) \in Msgs
<1>1. n \in Seqs /\ published[n] \in Lists
  BY LogIsOfLists, CapsAssumption DEF Typed, Seqs
<1> QED
  BY <1>1 DEF SnapshotMsg, Msgs, Snapshots

LEMMA DeltaIsMsg ==
    ASSUME Typed, NEW n \in 2..Len(published)
    PROVE  DeltaMsg(n) \in Msgs
<1>1. n \in Seqs /\ published[n] \in Lists /\ published[n - 1] \in Lists
  <2>1. n \in 1..Len(published) /\ n - 1 \in 1..Len(published)
    BY LogIsOfLists DEF Seqs
  <2> QED
    BY <2>1, LogIsOfLists, CapsAssumption DEF Typed, Seqs
<1> QED
  BY <1>1 DEF DeltaMsg, Msgs, Deltas

LEMMA StatusIsMsg ==
    ASSUME Typed
    PROVE  StatusMsg(health) \in Statuses /\ StatusMsg(health) \in Msgs
BY DEF Typed, StatusMsg, Statuses, Msgs

TickMsg == IF Len(published) = 1 THEN SnapshotMsg(Len(published)) ELSE DeltaMsg(Len(published))

\* What a tick broadcasts leads every stream to the list it has published.
LEMMA TickLeads ==
    ASSUME Typed, TickInOrder, pc = "cast"
    PROVE  /\ TickMsg \in Msgs
           /\ \A to \in Sent : Leads(published, TickMsg, to, Len(published))
<1> DEFINE seq == Len(published)
<1>1. seq \in Nat \ {0}
  BY DEF TickInOrder, Typed
<1>2. Sent = {seq - 1, seq}
  BY DEF Sent
<1>3. CASE seq = 1
  <2>1. TickMsg = SnapshotMsg(1)
    BY <1>3 DEF TickMsg
  <2>2. TickMsg \in Msgs
    BY <1>3, <2>1, SnapshotIsMsg
  <2> QED
    BY <1>2, <1>3, <2>1, <2>2 DEF Leads, SnapshotMsg
<1>4. CASE seq # 1
  <2>1. TickMsg = DeltaMsg(seq)
    BY <1>4 DEF TickMsg
  <2>2. seq \in 2..Len(published)
    <3>1. \A k \in Nat \ {0} : k # 1 => k \in 2..k
      OBVIOUS
    <3> QED
      BY <1>1, <1>4, <3>1
  <2>3. TickMsg \in Msgs
    BY <2>1, <2>2, DeltaIsMsg
  <2> QED
    BY <1>2, <2>1, <2>2, <2>3 DEF Leads, DeltaMsg
<1> QED
  BY <1>3, <1>4

\* Broadcast appends, or kills.
LEMMA BroadcastSends ==
    ASSUME Typed, UnservedIsEmpty, NEW m \in Msgs, Broadcast(m)
    PROVE  /\ chan' \in [Conns -> Seq(Msgs)] /\ killed' \subseteq Conns /\ killed \subseteq killed'
           /\ \A c \in Conns : Len(chan'[c]) <= BufCap
           /\ \A c \in Conns : handler[c] # "serving" =>
                  chan'[c] = chan[c] /\ (c \in killed' => c \in killed)
           /\ \A c \in Conns : (handler[c] = "serving" /\ c \notin killed') =>
                  chan'[c] = Append(chan[c], m)
<1> DEFINE room == {c \in Subs : Len(chan[c]) < BufCap}
<1>1. /\ chan' = [c \in Conns |-> IF c \in room THEN Append(chan[c], m) ELSE chan[c]]
      /\ killed' = killed \cup (Subs \ room)
  BY DEF Broadcast
<1>2. \A c \in Conns : chan[c] \in Seq(Msgs) /\ Len(chan[c]) <= BufCap
  BY DEF Typed
<1>3. \A c \in Conns : Append(chan[c], m) \in Seq(Msgs)
                       /\ Len(Append(chan[c], m)) = Len(chan[c]) + 1 /\ Len(chan[c]) \in Nat
  BY <1>2
<1>4. \A c \in Conns : Len(chan'[c]) <= BufCap
  <2> SUFFICES ASSUME NEW c \in Conns PROVE Len(chan'[c]) <= BufCap
    OBVIOUS
  <2>1. CASE c \in room
    <3>1. chan'[c] = Append(chan[c], m) /\ Len(chan[c]) < BufCap
      BY <1>1, <2>1
    <3> QED
      BY <1>3, <3>1, CapsAssumption
  <2>2. CASE c \notin room
    BY <1>1, <1>2, <2>2
  <2> QED
    BY <2>1, <2>2
<1>5. chan' \in [Conns -> Seq(Msgs)]
  BY <1>1, <1>2, <1>3
<1>6. killed' \subseteq Conns /\ killed \subseteq killed'
  BY <1>1 DEF Typed, Subs
<1>7. \A c \in Conns : handler[c] # "serving" =>
          chan'[c] = chan[c] /\ (c \in killed' => c \in killed)
  BY <1>1 DEF Subs
<1>8. \A c \in Conns : (handler[c] = "serving" /\ c \notin killed') =>
          chan'[c] = Append(chan[c], m)
  BY <1>1 DEF Subs
<1> QED
  BY <1>4, <1>5, <1>6, <1>7, <1>8

\* As much of a replay as a new channel has room for.
Replayed(q) == SubSeq(q, 1, IF Len(q) < BufCap THEN Len(q) ELSE BufCap)

LEMMA SubSeqWhole ==
    ASSUME NEW M, NEW q \in Seq(M)
    PROVE  SubSeq(q, 1, Len(q)) = q
OBVIOUS

LEMMA SubSeqFront ==
    ASSUME NEW M, NEW q \in Seq(M), NEW m \in M
    PROVE  SubSeq(Append(q, m), 1, Len(q)) = q
OBVIOUS

LEMMA ReplayOfNone == Replayed(<<>> \o <<>>) = <<>>
<1>1. <<>> \o <<>> = <<>> /\ Len(<<>>) = 0
  OBVIOUS
<1>2. 0 < BufCap
  BY CapsAssumption
<1>3. Replayed(<<>>) = SubSeq(<<>>, 1, 0)
  BY <1>1, <1>2 DEF Replayed
<1> QED
  BY <1>1, <1>3

LEMMA ReplayOfOne ==
    ASSUME NEW M, NEW m \in M
    PROVE  Replayed(<<m>> \o <<>>) = <<m>> /\ Replayed(<<>> \o <<m>>) = <<m>>
<1>1. <<m>> \o <<>> = <<m>> /\ <<>> \o <<m>> = <<m>> /\ Len(<<m>>) = 1
  OBVIOUS
<1>2. (IF 1 < BufCap THEN 1 ELSE BufCap) = 1
  BY CapsAssumption
<1>3. Replayed(<<m>>) = SubSeq(<<m>>, 1, 1)
  BY <1>1, <1>2 DEF Replayed
<1>4. SubSeq(<<m>>, 1, 1) = <<m>>
  <2>1. <<m>> \in Seq(M)
    OBVIOUS
  <2> QED
    BY <1>1, <2>1, SubSeqWhole
<1> QED
  BY <1>1, <1>3, <1>4

LEMMA ReplayOfTwo ==
    ASSUME NEW M, NEW m \in M, NEW s \in M
    PROVE  Replayed(<<m>> \o <<s>>) \in {<<m>>, Append(<<m>>, s)}
<1> DEFINE q == Append(<<m>>, s)
<1>1. /\ <<m>> \o <<s>> = q /\ q \in Seq(M) /\ Len(q) = 2
      /\ <<m>> \in Seq(M) /\ Len(<<m>>) = 1
  OBVIOUS
<1>2. SubSeq(q, 1, 1) = <<m>>
  BY <1>1, SubSeqFront
<1> HIDE DEF q
<1>3. (IF 2 < BufCap THEN 2 ELSE BufCap) \in {1, 2}
  BY CapsAssumption
<1>4. Replayed(q) \in {SubSeq(q, 1, 1), SubSeq(q, 1, 2)}
  BY <1>1, <1>3 DEF Replayed
<1>5. SubSeq(q, 1, 2) = q
  BY <1>1, SubSeqWhole
<1> QED
  BY <1>1, <1>2, <1>4, <1>5 DEF q

\* What a stream finds in its new channel leads from nothing to the newest list.
LEMMA ReplayLeads ==
    ASSUME Typed, Cached
    PROVE  LET q == Replayed(latestSnap \o latestStatus)
           IN  q \in Seq(Msgs) /\ Trail(published, q, 0, Len(published))
<1> DEFINE q == Replayed(latestSnap \o latestStatus)
           N == Len(published)
<1>0. N \in Seqs /\ 0 \in Seqs /\ N \in Nat
  BY LogIsOfLists, CapsAssumption DEF Seqs
<1>1. <<>> \in Seq(Msgs) /\ Trail(published, <<>>, 0, 0)
  BY <1>0, TrailOfNone
<1>2. ASSUME NEW s \in Statuses, NEW p \in Seq(Msgs), NEW to \in Seqs, Trail(published, p, 0, to)
      PROVE  s \in Msgs /\ Append(p, s) \in Seq(Msgs) /\ Trail(published, Append(p, s), 0, to)
  <2>1. s \in Msgs /\ Leads(published, s, to, to)
    BY DEF Msgs, Leads
  <2> QED
    BY <1>0, <1>2, <2>1, TrailAppend
<1>3. CASE published = <<>>
  <2>1. latestSnap = <<>> /\ N = 0
    BY <1>3 DEF Cached
  <2>2. CASE latestStatus = <<>>
    BY <1>1, <2>1, <2>2, ReplayOfNone
  <2>3. CASE latestStatus # <<>>
    <3>1. PICK s \in Statuses : latestStatus = <<s>>
      BY <2>3 DEF Cached
    <3>2. q = <<s>>
      BY <2>1, <3>1, ReplayOfOne
    <3>3. <<s>> = Append(<<>>, s)
      OBVIOUS
    <3> QED
      BY <1>0, <1>1, <1>2, <2>1, <3>2, <3>3
  <2> QED
    BY <2>2, <2>3
<1>4. CASE published # <<>>
  <2>1. PICK snap : snap = SnapshotMsg(N)
    OBVIOUS
  <2>2. latestSnap = <<snap>> /\ N \in 1..Len(published)
    BY <1>0, <1>4, <2>1 DEF Cached, Typed
  <2>3. snap \in Msgs /\ Leads(published, snap, 0, N)
    BY <2>1, <2>2, SnapshotIsMsg DEF Leads, SnapshotMsg
  <2>4. <<snap>> \in Seq(Msgs) /\ Trail(published, <<snap>>, 0, N)
    <3>1. <<snap>> = Append(<<>>, snap)
      OBVIOUS
    <3>2. <<snap>> \in Seq(Msgs)
      BY <2>3
    <3>3. Trail(published, Append(<<>>, snap), 0, N)
      BY <1>0, <1>1, <2>3, TrailAppend
    <3> QED
      BY <3>1, <3>2, <3>3
  <2>5. CASE latestStatus = <<>>
    <3>1. q = <<snap>>
      BY <2>2, <2>5, ReplayOfOne
    <3> QED
      BY <2>4, <3>1
  <2>6. CASE latestStatus # <<>>
    <3>1. PICK s \in Statuses : latestStatus = <<s>>
      BY <2>6 DEF Cached
    <3>2. /\ s \in Msgs /\ Append(<<snap>>, s) \in Seq(Msgs)
          /\ Trail(published, Append(<<snap>>, s), 0, N)
      BY <1>0, <1>2, <2>4
    <3>3. q \in {<<snap>>, Append(<<snap>>, s)}
      BY <2>2, <2>3, <3>1, <3>2, ReplayOfTwo
    <3> QED
      BY <2>4, <3>2, <3>3
  <2> QED
    BY <2>5, <2>6
<1> QED
  BY <1>3, <1>4

LEMMA ReplayFits ==
    ASSUME NEW M, NEW q \in Seq(M)
    PROVE  Len(Replayed(q)) <= BufCap
<1>1. Len(q) \in Nat /\ BufCap \in Nat
  BY CapsAssumption
<1>2. CASE Len(q) < BufCap
  <2>1. Replayed(q) = SubSeq(q, 1, Len(q))
    BY <1>2 DEF Replayed
  <2>2. Len(SubSeq(q, 1, Len(q))) = Len(q)
    BY <1>1
  <2> QED
    BY <1>1, <1>2, <2>1, <2>2
<1>3. CASE ~(Len(q) < BufCap)
  <2>1. Replayed(q) = SubSeq(q, 1, BufCap)
    BY <1>3 DEF Replayed
  <2>2. Len(SubSeq(q, 1, BufCap)) = BufCap
    BY <1>1, <1>3
  <2> QED
    BY <1>1, <2>1, <2>2
<1> QED
  BY <1>2, <1>3

-----------------------------------------------------------------------------
(* The invariant holds at first. *)

LEMMA NoListIsList == <<>> \in Lists
<1>1. <<>> \in [{} -> Rows]
  OBVIOUS
<1> QED
  BY <1>1 DEF Lists

LEMMA InitInv == Init => Inv
<1> SUFFICES ASSUME Init PROVE Inv
  OBVIOUS
<1>1. <<>> \in Seq(Msgs) /\ <<>> \in Seq(Polled) /\ Len(<<>>) = 0 /\ 0 \in Seqs
  BY CapsAssumption DEF Seqs
<1>2. Typed
  <2>1. /\ pc \in {"poll", "setStatus", "castStatus", "setSnap", "cast"}
        /\ pending = <<>> /\ published = <<>>
        /\ health \in {"unknown", "up", "unreachable"}
    BY DEF Init
  <2>2. handler \in [Conns -> {"free", "connecting", "serving", "returned"}]
    BY DEF Init
  <2>3. /\ chan \in [Conns -> Seq(Msgs)] /\ wire \in [Conns -> Seq(Msgs)]
        /\ \A c \in Conns : chan[c] = <<>> /\ wire[c] = <<>>
    BY <1>1 DEF Init
  <2>4. \A c \in Conns : Len(chan[c]) <= BufCap /\ Len(wire[c]) <= WireCap
    BY <1>1, <2>3, CapsAssumption
  <2>5. fails \in 0..UnreachableAfter /\ Len(published) <= MaxPolls
    BY <1>1, <2>1, CapsAssumption DEF Init
  <2>6. /\ killed \subseteq Conns /\ cur \in Conns \cup {NoConn}
        /\ table \in Lists /\ lastSeq \in Seqs /\ srvDown \in BOOLEAN
    BY <1>1, NoListIsList DEF Init
  <2> QED
    BY <1>1, <2>1, <2>2, <2>3, <2>4, <2>5, <2>6 DEF Typed
<1>3. Ordered
  BY <1>1 DEF Init, Ordered, TickInOrder, Cached, UnservedIsEmpty, Attached
<1>4. Trailing /\ Shown
  BY DEF Init, Trailing, Shown, Sound
<1> QED
  BY <1>2, <1>3, <1>4 DEF Inv

-----------------------------------------------------------------------------
(* Every step preserves the types. *)

LEMMA BroadcastTyped ==
    ASSUME Typed, UnservedIsEmpty, NEW m \in Msgs, Broadcast(m),
           pc' \in {"poll", "setSnap"},
           UNCHANGED <<pending, published, fails, health, handler, wire, tab>>
    PROVE  Typed'
<1>1. /\ chan' \in [Conns -> Seq(Msgs)] /\ killed' \subseteq Conns
      /\ \A c \in Conns : Len(chan'[c]) <= BufCap
  BY BroadcastSends
<1> QED
  BY <1>1 DEF Typed, tab

LEMMA NextTyped == Inv /\ [Next]_vars => Typed'
<1> SUFFICES ASSUME Inv, [Next]_vars PROVE Typed'
  OBVIOUS
<1> USE DEF Inv, Ordered
<1>1. ASSUME NEW w \in Polled, PollSucceeds(w) PROVE Typed'
  <2>1. 0 \in 0..UnreachableAfter
    BY CapsAssumption
  <2> QED
    BY <1>1, <2>1 DEF PollSucceeds, Typed, caches, server, tab
<1>2. CASE PollFails
  <2>1. fails' \in 0..UnreachableAfter
    BY <1>2, CapsAssumption DEF PollFails, Typed
  <2> QED
    BY <1>2, <2>1 DEF PollFails, Typed, caches, server, tab
<1>3. CASE SetStatus
  BY <1>3 DEF SetStatus, Typed, server, tab
<1>4. CASE CastStatus
  <2>1. Broadcast(StatusMsg(health)) /\ StatusMsg(health) \in Msgs
    BY <1>4, StatusIsMsg DEF CastStatus
  <2> QED
    BY <1>4, <2>1, BroadcastTyped DEF CastStatus
<1>5. CASE SetSnapshot
  <2>1. PICK w \in Polled : pending = <<w>>
    BY <1>5 DEF SetSnapshot, Typed, TickInOrder
  <2>2. published' = Append(published, w)
    BY <1>5, <2>1 DEF SetSnapshot, Typed
  <2>3. published' \in Seq(Polled) /\ Len(published') = Len(published) + 1
    BY <2>2 DEF Typed
  <2>4. Len(published') <= MaxPolls
    BY <2>1, <2>3, CapsAssumption DEF Typed, TickInOrder
  <2> QED
    BY <1>5, <2>3, <2>4 DEF SetSnapshot, Typed, server, tab
<1>6. CASE CastTick
  <2>1. Broadcast(TickMsg) /\ TickMsg \in Msgs
    BY <1>6, TickLeads DEF CastTick, TickMsg
  <2> QED
    BY <1>6, <2>1, BroadcastTyped DEF CastTick
<1>7. ASSUME NEW c \in Conns, Subscribe(c) PROVE Typed'
  <2>1. chan' = [chan EXCEPT ![c] = Replayed(latestSnap \o latestStatus)]
    BY <1>7 DEF Subscribe, Replayed
  <2>2. Replayed(latestSnap \o latestStatus) \in Seq(Msgs)
    BY ReplayLeads
  <2>3. latestSnap \in Seq(Msgs) /\ latestStatus \in Seq(Msgs)
    <3>1. latestSnap \in Seq(Msgs)
      <4>1. CASE published = <<>>
        BY <4>1 DEF Cached
      <4>2. CASE published # <<>>
        <5>1. Len(published) \in 1..Len(published)
          BY <4>2 DEF Typed
        <5>2. PICK snap \in Msgs : latestSnap = <<snap>>
          BY <4>2, <5>1, SnapshotIsMsg DEF Cached
        <5> QED
          BY <5>2
      <4> QED
        BY <4>1, <4>2
    <3>2. latestStatus \in Seq(Msgs)
      <4>1. CASE latestStatus = <<>>
        BY <4>1
      <4>2. CASE latestStatus # <<>>
        <5>1. PICK s \in Statuses : latestStatus = <<s>>
          BY <4>2 DEF Cached
        <5>2. s \in Msgs
          BY DEF Msgs
        <5> QED
          BY <5>1, <5>2
      <4> QED
        BY <4>1, <4>2
    <3> QED
      BY <3>1, <3>2
  <2>4. Len(Replayed(latestSnap \o latestStatus)) <= BufCap
    BY <2>3, ConcatIsSeq, ReplayFits
  <2> QED
    BY <1>7, <2>1, <2>2, <2>4 DEF Subscribe, Typed, poller, caches, tab
<1>8. ASSUME NEW c \in Conns, Deliver(c) PROVE Typed'
  <2>1. chan[c] \in Seq(Msgs) /\ wire[c] \in Seq(Msgs) /\ chan[c] # <<>>
        /\ Len(wire[c]) < WireCap /\ Len(chan[c]) <= BufCap
    BY <1>8 DEF Deliver, AtSelect, Typed
  <2>2. /\ Tail(chan[c]) \in Seq(Msgs) /\ Len(Tail(chan[c])) = Len(chan[c]) - 1
        /\ Append(wire[c], Head(chan[c])) \in Seq(Msgs)
        /\ Len(Append(wire[c], Head(chan[c]))) = Len(wire[c]) + 1
        /\ Len(chan[c]) \in Nat /\ Len(wire[c]) \in Nat
    BY <2>1
  <2>3. Len(Tail(chan[c])) <= BufCap /\ Len(Append(wire[c], Head(chan[c]))) <= WireCap
    BY <2>1, <2>2, CapsAssumption
  <2>4. /\ wire' = [wire EXCEPT ![c] = Append(wire[c], Head(chan[c]))]
        /\ chan' = [chan EXCEPT ![c] = Tail(chan[c])]
    BY <1>8 DEF Deliver
  <2>5. chan' \in [Conns -> Seq(Msgs)] /\ wire' \in [Conns -> Seq(Msgs)]
    BY <2>2, <2>4 DEF Typed
  <2>6. \A d \in Conns : Len(chan'[d]) <= BufCap /\ Len(wire'[d]) <= WireCap
    BY <2>3, <2>4 DEF Typed
  <2> QED
    BY <1>8, <2>5, <2>6 DEF Deliver, Typed, poller, tab
<1>9. ASSUME NEW c \in Conns, SeeKilled(c) PROVE Typed'
  <2>1. <<>> \in Seq(Msgs) /\ Len(<<>>) = 0
    OBVIOUS
  <2> QED
    BY <1>9, <2>1, CapsAssumption DEF SeeKilled, Typed, poller, tab
<1>10. ASSUME NEW c \in Conns, SeeGone(c) PROVE Typed'
  <2>1. <<>> \in Seq(Msgs) /\ Len(<<>>) = 0
    OBVIOUS
  <2> QED
    BY <1>10, <2>1, CapsAssumption DEF SeeGone, Typed, poller, tab
<1>11. ASSUME NEW c \in Conns, Open(c) PROVE Typed'
  <2>1. 0 \in Seqs
    BY CapsAssumption DEF Seqs
  <2> QED
    BY <1>11, <2>1 DEF Open, Typed, poller
<1>12. CASE Close
  BY <1>12 DEF Close, Typed, poller, server
<1>13. CASE SeeEnd
  BY <1>13 DEF SeeEnd, Typed, poller, server
<1>14. CASE Dispatch
  <2> DEFINE m == Head(wire[cur])
  <2>0. cur \in Conns
    BY <1>14 DEF Dispatch, Typed
  <2>1. wire[cur] \in Seq(Msgs) /\ wire[cur] # <<>> /\ Len(wire[cur]) <= WireCap
    BY <1>14, <2>0 DEF Dispatch, Typed
  <2>2. /\ m \in Msgs /\ Tail(wire[cur]) \in Seq(Msgs)
        /\ Len(Tail(wire[cur])) = Len(wire[cur]) - 1 /\ Len(wire[cur]) \in Nat
    BY <2>1
  <2>3. Len(Tail(wire[cur])) <= WireCap
    BY <2>1, <2>2, CapsAssumption
  <2>4. wire' = [wire EXCEPT ![cur] = Tail(wire[cur])]
    BY <1>14 DEF Dispatch
  <2>5. table' = Read(table, m) /\ lastSeq' = (IF IsData(m) THEN m.seq ELSE lastSeq)
    BY <1>14 DEF Dispatch, Read
  <2>6. table' \in Lists /\ lastSeq' \in Seqs
    BY <2>2, <2>5, ReadLeavesList, DataShape DEF Typed
  <2>7. srvDown' \in BOOLEAN
    BY <1>14 DEF Dispatch, Typed
  <2> QED
    BY <1>14, <2>0, <2>2, <2>3, <2>4, <2>6, <2>7 DEF Dispatch, Typed, poller, server
<1>15. CASE UNCHANGED vars
  BY <1>15 DEF Typed, vars, poller, server, tab
<1> QED
  BY <1>1, <1>2, <1>3, <1>4, <1>5, <1>6, <1>7, <1>8, <1>9, <1>10, <1>11, <1>12, <1>13, <1>14,
     <1>15 DEF Next, Poller, Handler

-----------------------------------------------------------------------------
(* Every step keeps the order of things. *)

LEMMA BroadcastOrdered ==
    ASSUME Typed, UnservedIsEmpty, NEW m \in Msgs, Broadcast(m), UNCHANGED <<handler, wire>>
    PROVE  UnservedIsEmpty'
<1>1. \A c \in Conns : handler[c] # "serving" =>
          chan'[c] = chan[c] /\ (c \in killed' => c \in killed)
  BY BroadcastSends
<1> QED
  BY <1>1 DEF UnservedIsEmpty

LEMMA NextOrdered == Inv /\ [Next]_vars => Ordered'
<1> SUFFICES ASSUME Inv, [Next]_vars PROVE Ordered'
  OBVIOUS
<1>0. Typed /\ TickInOrder /\ Cached /\ UnservedIsEmpty /\ Attached
  BY DEF Inv, Ordered
<1>1. ASSUME NEW w \in Polled, PollSucceeds(w) PROVE Ordered'
  <2>1. TickInOrder'
    BY <1>0, <1>1 DEF PollSucceeds, TickInOrder
  <2>2. Cached' /\ UnservedIsEmpty' /\ Attached'
    BY <1>0, <1>1 DEF PollSucceeds, caches, server, tab, Cached, UnservedIsEmpty, Attached,
       SnapshotMsg
  <2> QED
    BY <2>1, <2>2 DEF Ordered
<1>2. CASE PollFails
  <2>1. TickInOrder'
    BY <1>0, <1>2 DEF PollFails, TickInOrder
  <2>2. Cached' /\ UnservedIsEmpty' /\ Attached'
    BY <1>0, <1>2 DEF PollFails, caches, server, tab, Cached, UnservedIsEmpty, Attached,
       SnapshotMsg
  <2> QED
    BY <2>1, <2>2 DEF Ordered
<1>3. CASE SetStatus
  <2>1. TickInOrder'
    BY <1>0, <1>3 DEF SetStatus, TickInOrder
  <2>2. Cached'
    BY <1>0, <1>3, StatusIsMsg DEF SetStatus, Cached, SnapshotMsg
  <2>3. UnservedIsEmpty' /\ Attached'
    BY <1>0, <1>3 DEF SetStatus, server, tab, UnservedIsEmpty, Attached
  <2> QED
    BY <2>1, <2>2, <2>3 DEF Ordered
<1>4. CASE CastStatus
  <2>1. TickInOrder'
    BY <1>0, <1>4 DEF CastStatus, TickInOrder
  <2>2. Cached' /\ Attached'
    BY <1>0, <1>4 DEF CastStatus, caches, tab, Cached, Attached, SnapshotMsg
  <2>3. UnservedIsEmpty'
    BY <1>0, <1>4, StatusIsMsg, BroadcastOrdered DEF CastStatus
  <2> QED
    BY <2>1, <2>2, <2>3 DEF Ordered
<1>5. CASE SetSnapshot
  <2>1. PICK w \in Polled : pending = <<w>>
    BY <1>0, <1>5 DEF SetSnapshot, Typed, TickInOrder
  <2>2. published' = Append(published, w)
    BY <1>0, <1>5, <2>1 DEF SetSnapshot, Typed
  <2>3. published' # <<>>
    BY <1>0, <2>2 DEF Typed
  <2>4. TickInOrder'
    BY <1>0, <1>5, <2>3 DEF SetSnapshot, TickInOrder
  <2>5. Cached'
    BY <1>0, <1>5, <2>3 DEF SetSnapshot, Cached, SnapshotMsg
  <2>6. UnservedIsEmpty' /\ Attached'
    BY <1>0, <1>5 DEF SetSnapshot, server, tab, UnservedIsEmpty, Attached
  <2> QED
    BY <2>4, <2>5, <2>6 DEF Ordered
<1>6. CASE CastTick
  <2>1. Broadcast(TickMsg) /\ TickMsg \in Msgs
    BY <1>0, <1>6, TickLeads DEF CastTick, TickMsg
  <2>2. UnservedIsEmpty'
    BY <1>0, <1>6, <2>1, BroadcastOrdered DEF CastTick
  <2>3. TickInOrder' /\ Cached' /\ Attached'
    BY <1>0, <1>6 DEF CastTick, caches, tab, TickInOrder, Cached, Attached, SnapshotMsg
  <2> QED
    BY <2>2, <2>3 DEF Ordered
<1>7. ASSUME NEW c \in Conns, Subscribe(c) PROVE Ordered'
  <2>1. TickInOrder' /\ Cached'
    BY <1>0, <1>7 DEF Subscribe, poller, caches, TickInOrder, Cached, SnapshotMsg
  <2>2. UnservedIsEmpty'
    BY <1>0, <1>7 DEF Subscribe, Typed, UnservedIsEmpty
  <2>3. Attached'
    BY <1>0, <1>7 DEF Subscribe, Typed, tab, Attached
  <2> QED
    BY <2>1, <2>2, <2>3 DEF Ordered
<1>8. ASSUME NEW c \in Conns, Deliver(c) PROVE Ordered'
  <2>1. TickInOrder' /\ Cached' /\ Attached'
    BY <1>0, <1>8 DEF Deliver, poller, caches, tab, TickInOrder, Cached, Attached, SnapshotMsg
  <2>2. UnservedIsEmpty'
    BY <1>0, <1>8 DEF Deliver, AtSelect, Typed, UnservedIsEmpty
  <2> QED
    BY <2>1, <2>2 DEF Ordered
<1>9. ASSUME NEW c \in Conns, SeeKilled(c) PROVE Ordered'
  <2>1. TickInOrder' /\ Cached'
    BY <1>0, <1>9 DEF SeeKilled, poller, caches, TickInOrder, Cached, SnapshotMsg
  <2>2. UnservedIsEmpty' /\ Attached'
    BY <1>0, <1>9 DEF SeeKilled, Typed, tab, UnservedIsEmpty, Attached
  <2> QED
    BY <2>1, <2>2 DEF Ordered
<1>10. ASSUME NEW c \in Conns, SeeGone(c) PROVE Ordered'
  <2>1. TickInOrder' /\ Cached'
    BY <1>0, <1>10 DEF SeeGone, poller, caches, TickInOrder, Cached, SnapshotMsg
  <2>2. UnservedIsEmpty' /\ Attached'
    BY <1>0, <1>10 DEF SeeGone, Typed, tab, UnservedIsEmpty, Attached
  <2> QED
    BY <2>1, <2>2 DEF Ordered
<1>11. ASSUME NEW c \in Conns, Open(c) PROVE Ordered'
  <2>1. TickInOrder' /\ Cached'
    BY <1>0, <1>11 DEF Open, poller, caches, TickInOrder, Cached, SnapshotMsg
  <2>2. UnservedIsEmpty' /\ Attached'
    BY <1>0, <1>11 DEF Open, Typed, UnservedIsEmpty, Attached
  <2> QED
    BY <2>1, <2>2 DEF Ordered
<1>12. CASE Close \/ SeeEnd
  BY <1>0, <1>12 DEF Close, SeeEnd, poller, caches, server, Ordered, TickInOrder, Cached,
     UnservedIsEmpty, Attached, SnapshotMsg
<1>13. CASE Dispatch
  <2>1. TickInOrder' /\ Cached'
    BY <1>0, <1>13 DEF Dispatch, poller, caches, TickInOrder, Cached, SnapshotMsg
  <2>2. cur \in Conns /\ cur # NoConn /\ wire[cur] # <<>>
    BY <1>0, <1>13 DEF Dispatch, Typed
  <2>3. handler[cur] \notin {"free", "connecting"}
    BY <1>0, <2>2 DEF UnservedIsEmpty
  <2>4. \A c \in Conns : c # cur => wire'[c] = wire[c]
    BY <1>0, <1>13, <2>2 DEF Dispatch, Typed
  <2>5. UnservedIsEmpty' /\ Attached'
    BY <1>0, <1>13, <2>3, <2>4 DEF Dispatch, server, UnservedIsEmpty, Attached
  <2> QED
    BY <2>1, <2>5 DEF Ordered
<1>14. CASE UNCHANGED vars
  BY <1>0, <1>14 DEF vars, poller, caches, server, tab, Ordered, TickInOrder, Cached,
     UnservedIsEmpty, Attached, SnapshotMsg
<1> QED
  BY <1>1, <1>2, <1>3, <1>4, <1>5, <1>6, <1>7, <1>8, <1>9, <1>10, <1>11, <1>12, <1>13, <1>14
     DEF Next, Poller, Handler

-----------------------------------------------------------------------------
(* Every step keeps the trail, and the table on the log. *)

LEMMA SentInSeqs ==
    ASSUME Typed, TickInOrder
    PROVE  Sent \subseteq Seqs /\ Len(published) \in Sent
BY CapsAssumption DEF Typed, TickInOrder, Sent, Seqs

LEMMA Undisturbed ==
    ASSUME Trailing, Shown, UNCHANGED <<published, cur, table, lastSeq>>, Sent \subseteq Sent',
           Sound' => Sound /\ handler'[cur] = handler[cur] /\ Pipeline(cur)' = Pipeline(cur)
    PROVE  Trailing' /\ Shown'
<1>1. Shown'
  BY DEF Shown
<1>2. ASSUME Sound', handler'[cur'] = "serving"
      PROVE  \E to \in Sent' : Trail(published', Pipeline(cur)', lastSeq', to)
  <2>1. PICK to \in Sent : Trail(published, Pipeline(cur), lastSeq, to)
    BY <1>2 DEF Trailing
  <2> QED
    BY <1>2, <2>1
<1>3. Trailing'
  BY <1>2 DEF Trailing
<1> QED
  BY <1>1, <1>3

LEMMA BroadcastTrails ==
    ASSUME Inv, NEW m \in Msgs, Broadcast(m), UNCHANGED <<published, handler, wire, tab>>,
           Sent' \subseteq Seqs,
           \A to \in Sent : \E next \in Sent' : Leads(published, m, to, next)
    PROVE  Trailing' /\ Shown'
<1>0. Typed /\ TickInOrder /\ UnservedIsEmpty /\ Trailing /\ Shown
  BY DEF Inv, Ordered
<1>1. /\ \A c \in Conns : (handler[c] = "serving" /\ c \notin killed') =>
             chan'[c] = Append(chan[c], m)
      /\ killed \subseteq killed'
  BY <1>0, BroadcastSends
<1>2. cur' = cur /\ table' = table /\ lastSeq' = lastSeq /\ handler' = handler /\ wire' = wire
  BY DEF tab
<1>3. Sound' => Sound
  BY <1>1, <1>2 DEF Sound
<1>4. Shown'
  BY <1>0, <1>2, <1>3 DEF Shown
<1>5. ASSUME Sound', handler'[cur'] = "serving"
      PROVE  \E to \in Sent' : Trail(published', Pipeline(cur)', lastSeq', to)
  <2>1. cur \in Conns /\ handler[cur] = "serving" /\ cur \notin killed'
    BY <1>0, <1>2, <1>5 DEF Sound, Typed
  <2>2. PICK to \in Sent : Trail(published, Pipeline(cur), lastSeq, to)
    BY <1>0, <1>3, <1>5, <2>1 DEF Trailing
  <2>3. PICK next \in Sent' : Leads(published, m, to, next)
    OBVIOUS
  <2>4. wire[cur] \in Seq(Msgs) /\ chan[cur] \in Seq(Msgs)
    BY <1>0, <2>1 DEF Typed
  <2>5. Pipeline(cur)' = Append(Pipeline(cur), m) /\ Pipeline(cur) \in Seq(Msgs)
    <3>1. Pipeline(cur)' = wire[cur] \o Append(chan[cur], m)
      BY <1>1, <1>2, <2>1 DEF Pipeline
    <3>2. wire[cur] \o Append(chan[cur], m) = Append(wire[cur] \o chan[cur], m)
      <4>1. \A s \in Seq(Msgs), t \in Seq(Msgs) : s \o Append(t, m) = Append(s \o t, m)
        BY AppendToConcat
      <4> QED
        BY <2>4, <4>1
    <3>3. Pipeline(cur) \in Seq(Msgs)
      BY <2>4, ConcatIsSeq DEF Pipeline
    <3> QED
      BY <3>1, <3>2, <3>3 DEF Pipeline
  <2>6. to \in Seqs /\ next \in Seqs /\ lastSeq \in Seqs
    BY <1>0, SentInSeqs DEF Typed
  <2>7. Trail(published, Append(Pipeline(cur), m), lastSeq, next)
    BY <2>2, <2>3, <2>5, <2>6, TrailAppend
  <2> QED
    BY <1>2, <2>5, <2>7
<1>6. Trailing'
  BY <1>5 DEF Trailing
<1> QED
  BY <1>4, <1>6

\* What the tab reads next, on a connection the server stands by.
LEMMA DispatchReads ==
    ASSUME Inv, Dispatch
    PROVE  /\ Typed /\ cur \in Conns /\ UNCHANGED <<poller, caches, server, cur>>
           /\ Sound' <=> Sound
           /\ Sound => \E m \in Msgs, to \in Sent :
                  /\ m = Head(wire[cur]) /\ table' = Read(table, m)
                  /\ lastSeq' = IF IsData(m) THEN m.seq ELSE lastSeq
                  /\ Leads(published, m, lastSeq, lastSeq')
                  /\ Trail(published, Pipeline(cur)', lastSeq', to)
<1>0. Typed /\ UnservedIsEmpty /\ Attached /\ Trailing /\ Shown
  BY DEF Inv, Ordered
<1>1. /\ cur \in Conns /\ cur # NoConn /\ wire[cur] # <<>>
      /\ UNCHANGED <<poller, caches, server, cur>>
  BY <1>0 DEF Dispatch, Typed
<1>2. Sound' <=> Sound
  BY <1>1 DEF Sound, server
<1>3. ASSUME Sound
      PROVE  \E m \in Msgs, to \in Sent :
                  /\ m = Head(wire[cur]) /\ table' = Read(table, m)
                  /\ lastSeq' = IF IsData(m) THEN m.seq ELSE lastSeq
                  /\ Leads(published, m, lastSeq, lastSeq')
                  /\ Trail(published, Pipeline(cur)', lastSeq', to)
  <2>1. handler[cur] = "serving"
    BY <1>0, <1>1, <1>3 DEF Sound, UnservedIsEmpty, Typed
  <2>2. PICK to \in Sent : Trail(published, Pipeline(cur), lastSeq, to)
    BY <1>0, <1>3, <2>1 DEF Trailing
  <2>3. wire[cur] \in Seq(Msgs) /\ chan[cur] \in Seq(Msgs)
    BY <1>0, <1>1 DEF Typed
  <2> DEFINE m == Head(wire[cur])
  <2>4. m \in Msgs /\ Tail(wire[cur]) \in Seq(Msgs)
    BY <1>1, <2>3
  <2>5. /\ Pipeline(cur) \in Seq(Msgs) /\ Pipeline(cur) # <<>> /\ Head(Pipeline(cur)) = m
        /\ Tail(Pipeline(cur)) = Tail(wire[cur]) \o chan[cur]
    BY <1>1, <2>3, TailOfConcat, ConcatIsSeq DEF Pipeline
  <2>6. wire'[cur] = Tail(wire[cur]) /\ chan'[cur] = chan[cur] /\ cur' = cur
    BY <1>0, <1>1 DEF Dispatch, Typed, server
  <2>7. Pipeline(cur)' = Tail(Pipeline(cur))
    BY <2>5, <2>6 DEF Pipeline
  <2>8. PICK mid \in Seqs : Leads(published, m, lastSeq, mid)
                            /\ Trail(published, Tail(Pipeline(cur)), mid, to)
    BY <2>2, <2>5, TrailTail
  <2>9. table' = Read(table, m) /\ lastSeq' = (IF IsData(m) THEN m.seq ELSE lastSeq)
    BY DEF Dispatch, Read
  <2>10. published \in Seq(Lists) /\ table \in Lists /\ lastSeq \in Nat
    BY <1>0, LogIsOfLists, CapsAssumption DEF Typed, Seqs
  <2>11. lastSeq = 0 \/ (lastSeq \in 1..Len(published) /\ table = published[lastSeq])
    BY <1>0, <1>3 DEF Shown
  <2> HIDE DEF m
  <2>12. mid = lastSeq'
    BY <2>8, <2>9, <2>10, <2>11, ReadFollows
  <2> QED
    BY <2>4, <2>7, <2>8, <2>9, <2>12 DEF m
<1> QED
  BY <1>0, <1>1, <1>2, <1>3

LEMMA NextTrailing == Inv /\ [Next]_vars => Trailing' /\ Shown'
<1> SUFFICES ASSUME Inv, [Next]_vars PROVE Trailing' /\ Shown'
  OBVIOUS
<1>0. Typed /\ TickInOrder /\ Cached /\ UnservedIsEmpty /\ Attached /\ Trailing /\ Shown
  BY DEF Inv, Ordered
<1>1. ASSUME UNCHANGED <<published, server, wire, tab>>, pc # "cast", pc' # "cast"
      PROVE  Trailing' /\ Shown'
  <2>1. Sent' = Sent
    BY <1>1 DEF Sent
  <2>2. Sound' => Sound /\ handler'[cur] = handler[cur] /\ Pipeline(cur)' = Pipeline(cur)
    BY <1>1 DEF Sound, server, tab, Pipeline
  <2> QED
    BY <1>0, <1>1, <2>1, <2>2, Undisturbed DEF tab
<1>2. ASSUME NEW w \in Polled, PollSucceeds(w) PROVE Trailing' /\ Shown'
  BY <1>1, <1>2 DEF PollSucceeds
<1>3. CASE PollFails \/ SetStatus
  BY <1>1, <1>3 DEF PollFails, SetStatus
<1>4. CASE CastStatus
  <2>1. Broadcast(StatusMsg(health)) /\ StatusMsg(health) \in Msgs
        /\ StatusMsg(health) \in Statuses
    BY <1>0, <1>4, StatusIsMsg DEF CastStatus
  <2>2. Sent' = Sent
    BY <1>4 DEF CastStatus, Sent
  <2>3. \A to \in Sent : \E next \in Sent' : Leads(published, StatusMsg(health), to, next)
    BY <2>1, <2>2 DEF Leads
  <2>4. Sent' \subseteq Seqs
    BY <1>0, <2>2, SentInSeqs
  <2> QED
    BY <1>4, <2>1, <2>3, <2>4, BroadcastTrails DEF CastStatus
<1>5. CASE SetSnapshot
  <2>1. PICK w \in Polled : pending = <<w>>
    BY <1>0, <1>5 DEF SetSnapshot, Typed, TickInOrder
  <2>2. published' = Append(published, w) /\ published \in Seq(Polled)
    BY <1>0, <1>5, <2>1 DEF SetSnapshot, Typed
  <2>3. Len(published') = Len(published) + 1 /\ Len(published) \in Nat
        /\ \A n \in 1..Len(published) : published'[n] = published[n]
    BY <2>2
  <2>4. Sent = {Len(published)} /\ Len(published) \in Sent'
    BY <1>5, <2>3 DEF SetSnapshot, Sent
  <2>5. Sound' <=> Sound
    BY <1>5 DEF SetSnapshot, Sound, server, tab
  <2>6. Shown'
    BY <1>0, <1>5, <2>3, <2>5 DEF SetSnapshot, Shown, tab
  <2>7. ASSUME Sound', handler'[cur'] = "serving"
        PROVE  \E to \in Sent' : Trail(published', Pipeline(cur)', lastSeq', to)
    <3>1. cur \in Conns /\ handler[cur] = "serving" /\ Pipeline(cur)' = Pipeline(cur)
          /\ lastSeq' = lastSeq
      BY <1>0, <1>5, <2>5, <2>7 DEF SetSnapshot, Sound, Typed, server, tab, Pipeline
    <3>2. Trail(published, Pipeline(cur), lastSeq, Len(published))
      BY <1>0, <2>4, <2>5, <2>7, <3>1 DEF Trailing
    <3>3. Pipeline(cur) \in Seq(Msgs)
      BY <1>0, <3>1, ConcatIsSeq DEF Typed, Pipeline
    <3>4. Trail(published', Pipeline(cur), lastSeq, Len(published))
      BY <2>2, <3>2, <3>3, TrailStays
    <3> QED
      BY <2>4, <3>1, <3>4
  <2>8. Trailing'
    BY <2>7 DEF Trailing
  <2> QED
    BY <2>6, <2>8
<1>6. CASE CastTick
  <2>1. Broadcast(TickMsg) /\ TickMsg \in Msgs
    BY <1>0, <1>6, TickLeads DEF CastTick, TickMsg
  <2>2. Sent' = {Len(published)}
    BY <1>6 DEF CastTick, Sent
  <2>3. \A to \in Sent : \E next \in Sent' : Leads(published, TickMsg, to, next)
    BY <1>0, <1>6, <2>2, TickLeads DEF CastTick
  <2>4. Sent' \subseteq Seqs
    BY <1>0, <2>2, LogIsOfLists
  <2> QED
    BY <1>6, <2>1, <2>3, <2>4, BroadcastTrails DEF CastTick
<1>7. ASSUME NEW c \in Conns, Subscribe(c) PROVE Trailing' /\ Shown'
  <2>1. Sent' = Sent /\ published' = published /\ cur' = cur /\ lastSeq' = lastSeq
        /\ table' = table /\ wire' = wire /\ killed' = killed
    BY <1>7 DEF Subscribe, Sent, poller, tab
  <2>2. Sound' => Sound
    BY <1>0, <1>7, <2>1 DEF Subscribe, Sound, Typed
  <2>3. Shown'
    BY <1>0, <2>1, <2>2 DEF Shown
  <2>4. ASSUME Sound', handler'[cur'] = "serving"
        PROVE  \E to \in Sent' : Trail(published', Pipeline(cur)', lastSeq', to)
    <3>1. CASE c = cur
      <4>1. wire[c] = <<>> /\ lastSeq = 0
        BY <1>0, <1>7, <2>1, <2>4, <3>1 DEF Subscribe, UnservedIsEmpty, Attached, Sound
      <4>2. chan'[c] = Replayed(latestSnap \o latestStatus)
        BY <1>0, <1>7 DEF Subscribe, Replayed, Typed
      <4>3. Replayed(latestSnap \o latestStatus) \in Seq(Msgs)
            /\ Trail(published, Replayed(latestSnap \o latestStatus), 0, Len(published))
        BY <1>0, ReplayLeads
      <4>4. Pipeline(cur)' = Replayed(latestSnap \o latestStatus)
        BY <2>1, <3>1, <4>1, <4>2, <4>3, EmptyConcat DEF Pipeline
      <4> QED
        BY <1>0, <2>1, <4>1, <4>3, <4>4, SentInSeqs
    <3>2. CASE c # cur
      <4>1. cur \in Conns /\ Pipeline(cur)' = Pipeline(cur) /\ handler[cur] = "serving"
        BY <1>0, <1>7, <2>1, <2>4, <3>2 DEF Subscribe, Typed, Sound, Pipeline
      <4> QED
        BY <1>0, <2>1, <2>2, <2>4, <4>1 DEF Trailing
    <3> QED
      BY <3>1, <3>2
  <2>5. Trailing'
    BY <2>4 DEF Trailing
  <2> QED
    BY <2>3, <2>5
<1>8. ASSUME NEW c \in Conns, Deliver(c) PROVE Trailing' /\ Shown'
  <2>1. /\ Sent' = Sent /\ UNCHANGED <<published, cur, table, lastSeq>>
        /\ handler' = handler /\ killed' = killed
    BY <1>8 DEF Deliver, Sent, poller, tab
  <2>2. ASSUME NEW d \in Conns PROVE wire'[d] \o chan'[d] = wire[d] \o chan[d]
    <3>1. CASE d = c
      <4>1. /\ wire'[c] = Append(wire[c], Head(chan[c])) /\ chan'[c] = Tail(chan[c])
            /\ wire[c] \in Seq(Msgs) /\ chan[c] \in Seq(Msgs) /\ chan[c] # <<>>
        BY <1>0, <1>8 DEF Deliver, Typed
      <4> QED
        BY <3>1, <4>1, Shifted
    <3>2. CASE d # c
      BY <1>0, <1>8, <3>2 DEF Deliver, Typed
    <3> QED
      BY <3>1, <3>2
  <2>3. Sound' => Sound /\ handler'[cur] = handler[cur] /\ Pipeline(cur)' = Pipeline(cur)
    BY <1>0, <2>1, <2>2 DEF Sound, Pipeline, Typed
  <2> QED
    BY <1>0, <2>1, <2>3, Undisturbed
<1>9. ASSUME NEW c \in Conns, SeeKilled(c) PROVE Trailing' /\ Shown'
  <2>1. Sent' = Sent /\ UNCHANGED <<published, cur, table, lastSeq, wire>>
    BY <1>9 DEF SeeKilled, Sent, poller, tab
  <2>2. Sound' => Sound /\ handler'[cur] = handler[cur] /\ Pipeline(cur)' = Pipeline(cur)
    BY <1>0, <1>9, <2>1 DEF SeeKilled, Sound, Pipeline, Typed
  <2> QED
    BY <1>0, <2>1, <2>2, Undisturbed
<1>10. ASSUME NEW c \in Conns, SeeGone(c) PROVE Trailing' /\ Shown'
  <2>1. Sent' = Sent /\ UNCHANGED <<published, cur, table, lastSeq>>
    BY <1>10 DEF SeeGone, Sent, poller, tab
  <2>2. Sound' => Sound /\ handler'[cur] = handler[cur] /\ Pipeline(cur)' = Pipeline(cur)
    BY <1>0, <1>10, <2>1 DEF SeeGone, Sound, Pipeline, Typed
  <2> QED
    BY <1>0, <2>1, <2>2, Undisturbed
<1>11. ASSUME NEW c \in Conns, Open(c) PROVE Trailing' /\ Shown'
  <2>1. lastSeq' = 0 /\ cur' = c /\ handler'[c] = "connecting"
    BY <1>0, <1>11 DEF Open, Typed
  <2> QED
    BY <2>1 DEF Trailing, Shown
<1>12. CASE Close \/ SeeEnd
  BY <1>12 DEF Close, SeeEnd, Trailing, Shown, Sound
<1>13. CASE Dispatch
  <2>1. /\ cur \in Conns /\ UNCHANGED <<poller, caches, server, cur>> /\ (Sound' <=> Sound)
    BY <1>13, DispatchReads
  <2>2. Sent' = Sent /\ published' = published /\ cur' = cur
    BY <2>1 DEF Sent, poller
  <2>3. CASE ~Sound
    BY <2>1, <2>3 DEF Trailing, Shown
  <2>4. CASE Sound
    <3>1. PICK m \in Msgs, to \in Sent :
              /\ table' = Read(table, m)
              /\ lastSeq' = IF IsData(m) THEN m.seq ELSE lastSeq
              /\ Leads(published, m, lastSeq, lastSeq')
              /\ Trail(published, Pipeline(cur)', lastSeq', to)
      BY <1>13, <2>4, DispatchReads
    <3>2. Trailing'
      BY <2>2, <3>1 DEF Trailing
    <3>3. published \in Seq(Lists) /\ table \in Lists /\ lastSeq \in Nat
      BY <1>0, LogIsOfLists, CapsAssumption DEF Typed, Seqs
    <3>4. lastSeq = 0 \/ (lastSeq \in 1..Len(published) /\ table = published[lastSeq])
      BY <1>0, <2>4 DEF Shown
    <3>5. IsData(m) => lastSeq' \in 1..Len(published) /\ table' = published[lastSeq']
      BY <3>1, <3>3, <3>4, ReadFollows
    <3>6. ~IsData(m) => lastSeq' = lastSeq /\ table' = table
      BY <3>1, <3>3, <3>4, ReadFollows
    <3>7. Shown'
      BY <2>2, <3>4, <3>5, <3>6 DEF Shown
    <3> QED
      BY <3>2, <3>7
  <2> QED
    BY <2>3, <2>4
<1>14. CASE UNCHANGED vars
  <2>1. Sent' = Sent /\ UNCHANGED <<published, cur, table, lastSeq>>
    BY <1>14 DEF vars, poller, tab, Sent
  <2>2. Sound' => Sound /\ handler'[cur] = handler[cur] /\ Pipeline(cur)' = Pipeline(cur)
    BY <1>14 DEF vars, server, tab, Sound, Pipeline
  <2> QED
    BY <1>0, <2>1, <2>2, Undisturbed
<1> QED
  BY <1>2, <1>3, <1>4, <1>5, <1>6, <1>7, <1>8, <1>9, <1>10, <1>11, <1>12, <1>13, <1>14
     DEF Next, Poller, Handler

-----------------------------------------------------------------------------
(* The theorems. *)

LEMMA NextInv == Inv /\ [Next]_vars => Inv'
BY NextTyped, NextOrdered, NextTrailing DEF Inv

LEMMA Invariance == Spec => []Inv
BY InitInv, NextInv, PTL DEF Spec

\* Every variable keeps its type, whatever polls, streams and tabs do
\* (poller.tick, Hub, handleEvents, the driver's listeners).
THEOREM TypeCorrect == Spec => []TypeOK
<1>1. Inv => TypeOK
  <2> SUFFICES ASSUME Inv PROVE TypeOK
    OBVIOUS
  <2>1. Typed /\ Cached
    BY DEF Inv, Ordered
  <2>2. published \in BoundedSeq(Polled, MaxPolls)
    <3>1. published \in [1..Len(published) -> Polled] /\ Len(published) \in 0..MaxPolls
      BY <2>1, CapsAssumption DEF Typed
    <3> QED
      BY <3>1 DEF BoundedSeq, SeqOf
  <2>3. Len(latestSnap) <= 1 /\ Len(latestStatus) <= 1
    <3>1. Len(<<>>) <= 1 /\ \A m : Len(<<m>>) <= 1
      OBVIOUS
    <3>2. latestSnap = <<>> \/ \E m : latestSnap = <<m>>
      BY <2>1 DEF Cached
    <3>3. latestStatus = <<>> \/ \E m : latestStatus = <<m>>
      BY <2>1 DEF Cached
    <3> QED
      BY <3>1, <3>2, <3>3
  <2>4. DOMAIN table \subseteq Hashes /\ \A h \in DOMAIN table : table[h] \in Rows
    BY <2>1, ListRows DEF Typed, Lists
  <2> QED
    BY <2>1, <2>2, <2>3, <2>4 DEF Typed, TypeOK, Seqs
<1> QED
  BY <1>1, Invariance, PTL

\* For any hub, any channel capacity, any lists and however connections come,
\* lag and go: a tab whose connection the server stands by shows the very list
\* that was published under the number it has read last (Hub.Subscribe,
\* Hub.Broadcast, handleEvents, applySnapshot and applyDelta).
THEOREM MirrorAlwaysFaithful == Spec => []MirrorFaithful
<1>1. Inv => MirrorFaithful
  BY DEF Inv, Shown, MirrorFaithful
<1> QED
  BY <1>1, Invariance, PTL

\* For any hub and any lists: the newest list the poller has broadcast is what a
\* tab in good standing shows or is still to read (Hub.Broadcast, Hub.Subscribe).
THEOREM NothingEverMissing == Spec => []NothingMissing
<1>1. Inv => NothingMissing
  <2> SUFFICES ASSUME Inv, Sound, handler[cur] = "serving", pc # "cast"
               PROVE  Newest(Pipeline(cur), lastSeq, Len(published))
    BY DEF NothingMissing
  <2>1. Trail(published, Pipeline(cur), lastSeq, Len(published))
    BY DEF Inv, Trailing, Sent
  <2> QED
    BY <2>1 DEF Trail
<1> QED
  BY <1>1, Invariance, PTL

\* For any hub and any lists: on one connection the table never goes back in time
\* (the order of Hub.Broadcast and of the stream).
THEOREM NeverGoesBackwards == Spec => NeverBackwards
<1>1. ASSUME Inv, [Next]_vars, cur # NoConn, cur' = cur, Sound
      PROVE  lastSeq' >= lastSeq
  <2>1. Typed /\ Shown
    BY <1>1 DEF Inv
  <2>2. published \in Seq(Lists) /\ table \in Lists /\ lastSeq \in Nat
    BY <2>1, LogIsOfLists, CapsAssumption DEF Typed, Seqs
  <2>3. CASE Dispatch
    <3>1. PICK m \in Msgs : Leads(published, m, lastSeq, lastSeq')
      BY <1>1, <2>3, DispatchReads
    <3>2. lastSeq = 0 \/ (lastSeq \in 1..Len(published) /\ table = published[lastSeq])
      BY <1>1, <2>1 DEF Shown
    <3>3. /\ ~IsData(m) => lastSeq' = lastSeq
          /\ IsData(m) => lastSeq' \in 1..Len(published)
                          /\ (lastSeq = 0 \/ lastSeq' \in {lastSeq, lastSeq + 1})
      BY <2>2, <3>1, <3>2, ReadFollows
    <3> QED
      BY <2>2, <3>3
  <2>4. CASE ~Dispatch
    <3>1. lastSeq' = lastSeq
      BY <1>1, <2>4 DEF Next, Poller, Handler, PollSucceeds, PollFails, SetStatus, CastStatus,
         SetSnapshot, CastTick, Subscribe, Deliver, SeeKilled, SeeGone, Open, Close, SeeEnd,
         vars, tab
    <3> QED
      BY <2>2, <3>1
  <2> QED
    BY <2>3, <2>4
<1>2. Inv /\ [Next]_vars =>
          [(cur # NoConn /\ cur' = cur /\ Sound) => lastSeq' >= lastSeq]_vars
  BY <1>1
<1> QED
  BY <1>2, Invariance, PTL DEF Spec, NeverBackwards

-----------------------------------------------------------------------------
(* What the tab is told about rtorrent, when a channel has room for a replay. *)

\* A tab that has been told down and has q still to read will know of h.
Told(q, down, h) ==
    \/ (down <=> h = "unreachable") /\ \A i \in 1..Len(q) : IsData(q[i])
    \/ \E i \in 1..Len(q) :
           ~IsData(q[i]) /\ q[i].rtorrent = h /\ \A j \in (i + 1)..Len(q) : IsData(q[j])

\* The hub replays the last status it announced.
Announced ==
    /\ pc = "setStatus" => health # "unknown"
    /\ pc # "setStatus" =>
           latestStatus = IF health = "unknown" THEN <<>> ELSE <<StatusMsg(health)>>
    /\ (cur # NoConn /\ handler[cur] = "connecting") => srvDown = FALSE

Informed ==
    (Sound /\ handler[cur] = "serving" /\ pc \notin {"setStatus", "castStatus"}) =>
        Told(Pipeline(cur), srvDown, health)

LEMMA ToldAppendData ==
    ASSUME NEW q \in Seq(Msgs), NEW m \in Msgs, IsData(m), NEW down, NEW h, Told(q, down, h)
    PROVE  Told(Append(q, m), down, h)
<1> DEFINE r == Append(q, m)
           n == Len(q)
<1>1. n \in Nat /\ Len(r) = n + 1 /\ r[n + 1] = m /\ \A i \in 1..n : r[i] = q[i]
  OBVIOUS
<1> HIDE DEF r
<1>2. \A i \in 1..Len(r) : i \in 1..n \/ i = n + 1
  BY <1>1
<1>3. CASE (down <=> h = "unreachable") /\ \A i \in 1..n : IsData(q[i])
  <2>1. \A i \in 1..Len(r) : IsData(r[i])
    BY <1>1, <1>2, <1>3
  <2> QED
    BY <1>3, <2>1 DEF Told, r
<1>4. ASSUME NEW i \in 1..n, ~IsData(q[i]), q[i].rtorrent = h,
             \A j \in (i + 1)..n : IsData(q[j])
      PROVE  Told(r, down, h)
  <2>1. i \in 1..Len(r) /\ ~IsData(r[i]) /\ r[i].rtorrent = h
    BY <1>1, <1>4
  <2>2. \A j \in (i + 1)..Len(r) : (j \in 1..n /\ j \in (i + 1)..n) \/ j = n + 1
    BY <1>1
  <2>3. \A j \in (i + 1)..Len(r) : IsData(r[j])
    BY <1>1, <1>4, <2>2
  <2> QED
    BY <2>1, <2>3 DEF Told
<1> QED
  BY <1>3, <1>4 DEF Told, r

LEMMA ToldAppendStatus ==
    ASSUME NEW q \in Seq(Msgs), NEW m \in Statuses, NEW down
    PROVE  Told(Append(q, m), down, m.rtorrent)
<1> DEFINE r == Append(q, m)
           n == Len(q)
<1>1. n \in Nat /\ Len(r) = n + 1 /\ r[n + 1] = m
  OBVIOUS
<1>2. n + 1 \in 1..Len(r) /\ (n + 1 + 1)..Len(r) = {}
  BY <1>1
<1> HIDE DEF r
<1>3. ~IsData(r[n + 1]) /\ r[n + 1].rtorrent = m.rtorrent
  BY <1>1, StatusShape
<1> QED
  BY <1>2, <1>3 DEF Told, r

LEMMA ToldTail ==
    ASSUME NEW q \in Seq(Msgs), q # <<>>, NEW down, NEW next, NEW h, Told(q, down, h),
           IsData(Head(q)) => (next <=> down),
           ~IsData(Head(q)) => (next <=> Head(q).rtorrent = "unreachable")
    PROVE  Told(Tail(q), next, h)
<1> DEFINE r == Tail(q)
           n == Len(q)
<1>1. /\ n \in Nat \ {0} /\ Len(r) = n - 1 /\ Head(q) = q[1]
      /\ \A i \in 1..(n - 1) : r[i] = q[i + 1] /\ i + 1 \in 1..n
  OBVIOUS
<1> HIDE DEF r
<1>2. CASE (down <=> h = "unreachable") /\ \A i \in 1..n : IsData(q[i])
  <2>1. IsData(q[1]) /\ \A i \in 1..Len(r) : IsData(r[i])
    BY <1>1, <1>2
  <2>2. next <=> h = "unreachable"
    BY <1>1, <1>2, <2>1
  <2> QED
    BY <2>1, <2>2 DEF Told, r
<1>3. ASSUME NEW i \in 1..n, ~IsData(q[i]), q[i].rtorrent = h,
             \A j \in (i + 1)..n : IsData(q[j])
      PROVE  Told(r, next, h)
  <2>1. CASE i = 1
    <3>1. next <=> h = "unreachable"
      BY <1>1, <1>3, <2>1
    <3>2. \A j \in 1..(n - 1) : j + 1 \in (i + 1)..n
      BY <1>1, <2>1
    <3>3. \A j \in 1..Len(r) : IsData(r[j])
      BY <1>1, <1>3, <3>2
    <3> QED
      BY <3>1, <3>3 DEF Told
  <2>2. CASE i # 1
    <3>1. i - 1 \in 1..Len(r) /\ r[i - 1] = q[i]
      BY <1>1, <2>2
    <3>2. \A j \in ((i - 1) + 1)..Len(r) : j + 1 \in (i + 1)..n /\ j \in 1..(n - 1)
      BY <1>1, <2>2
    <3>3. \A j \in ((i - 1) + 1)..Len(r) : IsData(r[j])
      BY <1>1, <1>3, <3>2
    <3> QED
      BY <1>3, <3>1, <3>3 DEF Told
  <2> QED
    BY <2>1, <2>2
<1> QED
  BY <1>2, <1>3 DEF Told, r

LEMMA ReplayOfBoth ==
    ASSUME BufCap >= 2, NEW M, NEW m \in M, NEW s \in M
    PROVE  Replayed(<<m>> \o <<s>>) = Append(<<m>>, s)
<1> DEFINE q == Append(<<m>>, s)
<1>1. <<m>> \o <<s>> = q /\ q \in Seq(M) /\ Len(q) = 2
  OBVIOUS
<1> HIDE DEF q
<1>2. (IF 2 < BufCap THEN 2 ELSE BufCap) = 2
  BY CapsAssumption
<1>3. Replayed(q) = SubSeq(q, 1, 2)
  BY <1>1, <1>2 DEF Replayed
<1> QED
  BY <1>1, <1>3, SubSeqWhole DEF q

\* A stream that joins is told what was announced last.
LEMMA ReplayTells ==
    ASSUME BufCap >= 2, Typed, Cached, Announced, pc # "setStatus"
    PROVE  Told(Replayed(latestSnap \o latestStatus), FALSE, health)
<1>1. <<>> \in Seq(Msgs)
  OBVIOUS
<1>2. StatusMsg(health) \in Statuses /\ StatusMsg(health) \in Msgs
      /\ StatusMsg(health).rtorrent = health
  BY StatusIsMsg DEF StatusMsg
<1>3. health = "unknown" => Told(<<>>, FALSE, health)
  <2>1. Len(<<>>) = 0 /\ \A i \in 1..0 : IsData(<<>>[i])
    OBVIOUS
  <2> QED
    BY <2>1 DEF Told
<1>4. latestStatus = IF health = "unknown" THEN <<>> ELSE <<StatusMsg(health)>>
  BY DEF Announced
<1>5. CASE published = <<>>
  <2>1. latestSnap = <<>>
    BY <1>5 DEF Cached
  <2>2. CASE health = "unknown"
    BY <1>3, <1>4, <2>1, <2>2, ReplayOfNone
  <2>3. CASE health # "unknown"
    <3>1. PICK s \in Statuses : s = StatusMsg(health)
      BY <1>2
    <3>2. Replayed(latestSnap \o latestStatus) = <<s>>
      BY <1>4, <2>1, <2>3, <3>1, ReplayOfOne
    <3>3. <<s>> = Append(<<>>, s)
      OBVIOUS
    <3> QED
      BY <1>1, <1>2, <3>1, <3>2, <3>3, ToldAppendStatus
  <2> QED
    BY <2>2, <2>3
<1>6. CASE published # <<>>
  <2>1. Len(published) \in 1..Len(published)
    BY <1>6 DEF Typed
  <2>2. PICK snap \in Msgs : snap = SnapshotMsg(Len(published))
    BY <2>1, SnapshotIsMsg
  <2>3. latestSnap = <<snap>> /\ IsData(snap)
    BY <1>6, <2>2 DEF Cached, SnapshotMsg, IsData
  <2>4. <<snap>> = Append(<<>>, snap) /\ <<snap>> \in Seq(Msgs)
    OBVIOUS
  <2>5. CASE health = "unknown"
    <3>1. Replayed(latestSnap \o latestStatus) = <<snap>>
      BY <1>4, <2>3, <2>5, ReplayOfOne
    <3>2. Told(Append(<<>>, snap), FALSE, health)
      BY <1>1, <1>3, <2>3, <2>5, ToldAppendData
    <3> QED
      BY <2>4, <3>1, <3>2
  <2>6. CASE health # "unknown"
    <3>1. PICK s \in Statuses : s = StatusMsg(health) /\ s \in Msgs
      BY <1>2
    <3>2. Replayed(latestSnap \o latestStatus) = Append(<<snap>>, s)
      BY <1>4, <2>3, <2>6, <3>1, ReplayOfBoth
    <3> QED
      BY <1>2, <2>4, <3>1, <3>2, ToldAppendStatus
  <2> QED
    BY <2>5, <2>6
<1> QED
  BY <1>5, <1>6

LEMMA NextAnnounced ==
    ASSUME Inv, Announced, [Next]_vars
    PROVE  Announced'
<1>0. Typed /\ UnservedIsEmpty
  BY DEF Inv, Ordered
<1>1. ASSUME NEW w \in Polled, PollSucceeds(w) PROVE Announced'
  BY <1>1 DEF PollSucceeds, Announced, StatusMsg, caches, server, tab
<1>2. CASE PollFails
  BY <1>2 DEF PollFails, Announced, StatusMsg, caches, server, tab
<1>3. CASE SetStatus
  BY <1>3 DEF SetStatus, Announced, StatusMsg, server, tab
<1>4. CASE CastStatus \/ SetSnapshot \/ CastTick
  BY <1>4 DEF CastStatus, SetSnapshot, CastTick, Announced, StatusMsg, caches, server, tab
<1>5. ASSUME NEW c \in Conns, Subscribe(c) PROVE Announced'
  BY <1>0, <1>5 DEF Subscribe, Announced, StatusMsg, Typed, poller, caches, tab
<1>6. ASSUME NEW c \in Conns, Deliver(c) \/ SeeKilled(c) \/ SeeGone(c) PROVE Announced'
  BY <1>0, <1>6 DEF Deliver, SeeKilled, SeeGone, Announced, StatusMsg, Typed, poller, caches, tab
<1>7. ASSUME NEW c \in Conns, Open(c) PROVE Announced'
  BY <1>7 DEF Open, Announced, StatusMsg, poller, caches
<1>8. CASE Close \/ SeeEnd
  BY <1>8 DEF Close, SeeEnd, Announced, StatusMsg, poller, caches, server
<1>9. CASE Dispatch
  <2>1. handler[cur] # "connecting" /\ cur' = cur
    BY <1>0, <1>9 DEF Dispatch, UnservedIsEmpty, Typed
  <2> QED
    BY <1>9, <2>1 DEF Dispatch, Announced, StatusMsg, poller, caches, server
<1>10. CASE UNCHANGED vars
  BY <1>10 DEF vars, Announced, StatusMsg, poller, caches, server, tab
<1> QED
  BY <1>1, <1>2, <1>3, <1>4, <1>5, <1>6, <1>7, <1>8, <1>9, <1>10 DEF Next, Poller, Handler

LEMMA NextInformed ==
    ASSUME BufCap >= 2, Inv, Announced, Informed, [Next]_vars
    PROVE  Informed'
<1>0. Typed /\ TickInOrder /\ Cached /\ UnservedIsEmpty /\ Attached
  BY DEF Inv, Ordered
<1>1. ASSUME UNCHANGED <<cur, srvDown>>,
             pc' \notin {"setStatus", "castStatus"} =>
                 pc \notin {"setStatus", "castStatus"} /\ health' = health,
             Sound' => Sound /\ handler'[cur] = handler[cur] /\ Pipeline(cur)' = Pipeline(cur)
      PROVE  Informed'
  BY <1>1 DEF Informed
<1>2. ASSUME NEW m \in Msgs, Broadcast(m), UNCHANGED <<handler, wire, tab, health>>,
             m = StatusMsg(health)
             \/ (IsData(m) /\ pc \notin {"setStatus", "castStatus"})
      PROVE  Informed'
  <2>1. /\ \A c \in Conns : (handler[c] = "serving" /\ c \notin killed') =>
             chan'[c] = Append(chan[c], m)
        /\ killed \subseteq killed'
    BY <1>0, <1>2, BroadcastSends
  <2>2. Sound' => Sound
    BY <1>2, <2>1 DEF Sound, tab
  <2>3. SUFFICES ASSUME Sound', handler'[cur'] = "serving"
                 PROVE  Told(Pipeline(cur)', srvDown', health')
    BY DEF Informed
  <2>4. cur \in Conns /\ handler[cur] = "serving" /\ cur \notin killed' /\ cur' = cur
    BY <1>0, <1>2, <2>3 DEF Sound, Typed, tab
  <2>5. wire[cur] \in Seq(Msgs) /\ chan[cur] \in Seq(Msgs)
    BY <1>0, <2>4 DEF Typed
  <2>6. Pipeline(cur)' = Append(Pipeline(cur), m) /\ Pipeline(cur) \in Seq(Msgs)
    <3>1. Pipeline(cur)' = wire[cur] \o Append(chan[cur], m)
      BY <1>2, <2>1, <2>4 DEF Pipeline
    <3>2. wire[cur] \o Append(chan[cur], m) = Append(wire[cur] \o chan[cur], m)
      <4>1. \A s \in Seq(Msgs), t \in Seq(Msgs) : s \o Append(t, m) = Append(s \o t, m)
        BY AppendToConcat
      <4> QED
        BY <2>5, <4>1
    <3>3. Pipeline(cur) \in Seq(Msgs)
      BY <2>5, ConcatIsSeq DEF Pipeline
    <3> QED
      BY <3>1, <3>2, <3>3 DEF Pipeline
  <2>7. CASE m = StatusMsg(health)
    <3>1. m \in Statuses /\ m.rtorrent = health
      BY <1>0, <2>7, StatusIsMsg DEF StatusMsg
    <3>2. Told(Append(Pipeline(cur), m), srvDown', health)
      BY <2>6, <3>1, ToldAppendStatus
    <3> QED
      BY <1>2, <2>6, <3>2
  <2>8. CASE IsData(m) /\ pc \notin {"setStatus", "castStatus"}
    <3>1. Told(Pipeline(cur), srvDown, health)
      BY <2>2, <2>3, <2>4, <2>8 DEF Informed
    <3>2. Told(Append(Pipeline(cur), m), srvDown, health)
      BY <2>6, <2>8, <3>1, ToldAppendData
    <3> QED
      BY <1>2, <2>6, <3>2 DEF tab
  <2> QED
    BY <1>2, <2>7, <2>8
<1>3. ASSUME NEW w \in Polled, PollSucceeds(w) PROVE Informed'
  <2>1. Sound' => Sound /\ handler'[cur] = handler[cur] /\ Pipeline(cur)' = Pipeline(cur)
    BY <1>3 DEF PollSucceeds, Sound, server, tab, Pipeline
  <2> QED
    BY <1>1, <1>3, <2>1 DEF PollSucceeds, tab
<1>4. CASE PollFails \/ SetStatus \/ SetSnapshot
  <2>1. Sound' => Sound /\ handler'[cur] = handler[cur] /\ Pipeline(cur)' = Pipeline(cur)
    <3>1. UNCHANGED <<server, wire, tab>>
      BY <1>4 DEF PollFails, SetStatus, SetSnapshot
    <3> QED
      BY <3>1 DEF Sound, server, tab, Pipeline
  <2> QED
    BY <1>1, <1>4, <2>1 DEF PollFails, SetStatus, SetSnapshot, tab
<1>5. CASE CastStatus
  BY <1>0, <1>2, <1>5, StatusIsMsg DEF CastStatus
<1>6. CASE CastTick
  <2>1. Broadcast(TickMsg) /\ TickMsg \in Msgs
    BY <1>0, <1>6, TickLeads DEF CastTick, TickMsg
  <2>2. IsData(TickMsg)
    BY DEF TickMsg, IsData, SnapshotMsg, DeltaMsg
  <2> QED
    BY <1>2, <1>6, <2>1, <2>2 DEF CastTick
<1>7. ASSUME NEW c \in Conns, Subscribe(c) PROVE Informed'
  <2>1. /\ pc' = pc /\ health' = health /\ cur' = cur /\ srvDown' = srvDown
        /\ wire' = wire /\ killed' = killed
    BY <1>7 DEF Subscribe, poller, tab
  <2>2. CASE c # cur
    <3>1. Sound' => Sound /\ handler'[cur] = handler[cur] /\ Pipeline(cur)' = Pipeline(cur)
      BY <1>0, <1>7, <2>1, <2>2 DEF Subscribe, Typed, Sound, Pipeline
    <3> QED
      BY <1>1, <2>1, <3>1
  <2>3. CASE c = cur
    <3>1. SUFFICES ASSUME Sound', pc \notin {"setStatus", "castStatus"}
                   PROVE  Told(Pipeline(cur)', srvDown', health')
      BY <2>1 DEF Informed
    <3>2. wire[c] = <<>> /\ srvDown = FALSE
      BY <1>0, <1>7, <2>1, <2>3, <3>1 DEF Subscribe, UnservedIsEmpty, Announced, Sound
    <3>3. chan'[c] = Replayed(latestSnap \o latestStatus)
          /\ Replayed(latestSnap \o latestStatus) \in Seq(Msgs)
      BY <1>0, <1>7, ReplayLeads DEF Subscribe, Replayed, Typed
    <3>4. Pipeline(cur)' = Replayed(latestSnap \o latestStatus)
      BY <2>1, <2>3, <3>2, <3>3, EmptyConcat DEF Pipeline
    <3>5. Told(Replayed(latestSnap \o latestStatus), FALSE, health)
      BY <1>0, <3>1, ReplayTells
    <3> QED
      BY <2>1, <3>2, <3>4, <3>5
  <2> QED
    BY <2>2, <2>3
<1>8. ASSUME NEW c \in Conns, Deliver(c) PROVE Informed'
  <2>1. /\ pc' = pc /\ health' = health /\ cur' = cur /\ srvDown' = srvDown
        /\ handler' = handler /\ killed' = killed
    BY <1>8 DEF Deliver, poller, tab
  <2>2. ASSUME NEW d \in Conns PROVE wire'[d] \o chan'[d] = wire[d] \o chan[d]
    <3>1. CASE d = c
      <4>1. /\ wire'[c] = Append(wire[c], Head(chan[c])) /\ chan'[c] = Tail(chan[c])
            /\ wire[c] \in Seq(Msgs) /\ chan[c] \in Seq(Msgs) /\ chan[c] # <<>>
        BY <1>0, <1>8 DEF Deliver, Typed
      <4> QED
        BY <3>1, <4>1, Shifted
    <3>2. CASE d # c
      BY <1>0, <1>8, <3>2 DEF Deliver, Typed
    <3> QED
      BY <3>1, <3>2
  <2>3. Sound' => Sound /\ handler'[cur] = handler[cur] /\ Pipeline(cur)' = Pipeline(cur)
    BY <1>0, <2>1, <2>2 DEF Sound, Pipeline, Typed
  <2> QED
    BY <1>1, <2>1, <2>3
<1>9. ASSUME NEW c \in Conns, SeeKilled(c) \/ SeeGone(c) PROVE Informed'
  <2>1. Sound' => Sound /\ handler'[cur] = handler[cur] /\ Pipeline(cur)' = Pipeline(cur)
    <3>1. CASE SeeKilled(c)
      BY <1>0, <3>1 DEF SeeKilled, Sound, Pipeline, Typed, tab
    <3>2. CASE SeeGone(c)
      BY <1>0, <3>2 DEF SeeGone, Sound, Pipeline, Typed, tab
    <3> QED
      BY <1>9, <3>1, <3>2
  <2> QED
    BY <1>1, <1>9, <2>1 DEF SeeKilled, SeeGone, poller, tab
<1>10. ASSUME NEW c \in Conns, Open(c) PROVE Informed'
  <2>1. cur' = c /\ handler'[c] = "connecting"
    BY <1>0, <1>10 DEF Open, Typed
  <2> QED
    BY <2>1 DEF Informed
<1>11. CASE Close \/ SeeEnd
  BY <1>11 DEF Close, SeeEnd, Informed, Sound
<1>12. CASE Dispatch
  <2>1. /\ cur \in Conns /\ cur # NoConn /\ wire[cur] # <<>> /\ cur' = cur
        /\ UNCHANGED <<poller, server>>
        /\ srvDown' = (IF IsData(Head(wire[cur])) THEN srvDown
                       ELSE Head(wire[cur]).rtorrent = "unreachable")
    BY <1>0, <1>12 DEF Dispatch, Typed
  <2>2. SUFFICES ASSUME Sound', handler'[cur'] = "serving",
                        pc \notin {"setStatus", "castStatus"}
                 PROVE  Told(Pipeline(cur)', srvDown', health)
    BY <2>1 DEF Informed, poller
  <2>3. Told(Pipeline(cur), srvDown, health)
    BY <2>1, <2>2 DEF Informed, Sound, server
  <2>4. wire[cur] \in Seq(Msgs) /\ chan[cur] \in Seq(Msgs)
    BY <1>0, <2>1 DEF Typed
  <2>5. /\ Pipeline(cur) \in Seq(Msgs) /\ Pipeline(cur) # <<>>
        /\ Head(Pipeline(cur)) = Head(wire[cur])
        /\ Tail(Pipeline(cur)) = Tail(wire[cur]) \o chan[cur]
    BY <2>1, <2>4, TailOfConcat, ConcatIsSeq DEF Pipeline
  <2>6. wire'[cur] = Tail(wire[cur]) /\ chan'[cur] = chan[cur]
    BY <1>0, <1>12, <2>1 DEF Dispatch, Typed, server
  <2>7. Pipeline(cur)' = Tail(Pipeline(cur))
    BY <2>1, <2>5, <2>6 DEF Pipeline
  <2>8. Told(Tail(Pipeline(cur)), srvDown', health)
    BY <2>1, <2>3, <2>5, ToldTail
  <2> QED
    BY <2>7, <2>8
<1>13. CASE UNCHANGED vars
  <2>1. Sound' => Sound /\ handler'[cur] = handler[cur] /\ Pipeline(cur)' = Pipeline(cur)
    BY <1>13 DEF vars, server, tab, Sound, Pipeline
  <2> QED
    BY <1>1, <1>13, <2>1 DEF vars, poller, tab
<1> QED
  BY <1>3, <1>4, <1>5, <1>6, <1>7, <1>8, <1>9, <1>10, <1>11, <1>12, <1>13
     DEF Next, Poller, Handler

\* When a channel has room for a replay, a tab that has read all it was sent
\* knows whether rtorrent is reachable, also when it joined in the middle of an
\* outage (setHealth, Hub.SetStatus, Hub.Subscribe).
THEOREM HealthAlwaysKnown ==
    ASSUME BufCap >= 2
    PROVE  Spec => []HealthKnown
<1>1. Init => Announced /\ Informed
  BY DEF Init, Announced, Informed, Sound
<1>2. Inv /\ Announced /\ Informed /\ [Next]_vars => Announced' /\ Informed'
  BY NextAnnounced, NextInformed
<1>3. Inv /\ Announced /\ Informed => HealthKnown
  <2> SUFFICES ASSUME Informed, Sound, handler[cur] = "serving", wire[cur] = <<>>,
                      chan[cur] = <<>>, pc \notin {"setStatus", "castStatus"}
               PROVE  srvDown <=> health = "unreachable"
    BY DEF HealthKnown
  <2>1. Pipeline(cur) = <<>>
    BY DEF Pipeline
  <2>2. Told(<<>>, srvDown, health)
    BY <2>1 DEF Informed
  <2>3. 1..Len(<<>>) = {}
    OBVIOUS
  <2> QED
    BY <2>2, <2>3 DEF Told
<1> QED
  BY <1>1, <1>2, <1>3, Invariance, PTL DEF Spec

-----------------------------------------------------------------------------
(* The feed implements its abstraction. *)

\* The entry of the log a tab is promised to show.
At == IF Sound THEN lastSeq ELSE 0

Mirrored == Feed!Next \/ UNCHANGED <<published, table, At>>

\* A step that changes neither log nor table at most takes the promise back.
LEMMA Promised ==
    ASSUME UNCHANGED <<published, table>>, At' \in {At, 0}
    PROVE  Mirrored
<1>1. CASE At' = At
  BY <1>1 DEF Mirrored
<1>2. CASE At' = 0
  <2>1. Feed!Detach
    BY <1>2 DEF Feed!Detach, At
  <2> QED
    BY <2>1 DEF Mirrored, Feed!Next
<1> QED
  BY <1>1, <1>2

LEMMA DispatchMirrors ==
    ASSUME Inv, Dispatch
    PROVE  Mirrored
<1>0. Typed /\ Shown
  BY DEF Inv
<1>1. /\ cur \in Conns /\ published' = published /\ (Sound' <=> Sound)
  BY DispatchReads DEF poller
<1>2. CASE ~Sound
  <2>1. Feed!Drift
    BY <1>1, <1>2 DEF Feed!Drift
  <2> QED
    BY <2>1 DEF Mirrored, Feed!Next
<1>3. CASE Sound
  <2>1. PICK m \in Msgs :
            /\ table' = Read(table, m)
            /\ lastSeq' = IF IsData(m) THEN m.seq ELSE lastSeq
            /\ Leads(published, m, lastSeq, lastSeq')
    BY <1>3, DispatchReads
  <2>2. published \in Seq(Lists) /\ table \in Lists /\ lastSeq \in Nat
    BY <1>0, LogIsOfLists, CapsAssumption DEF Typed, Seqs
  <2>3. lastSeq = 0 \/ (lastSeq \in 1..Len(published) /\ table = published[lastSeq])
    BY <1>0, <1>3 DEF Shown
  <2>4. /\ ~IsData(m) => lastSeq' = lastSeq /\ table' = table
        /\ IsData(m) =>
             /\ lastSeq' \in 1..Len(published) /\ table' = published[lastSeq']
             /\ lastSeq = 0 \/ lastSeq' \in {lastSeq, lastSeq + 1}
    BY <2>1, <2>2, <2>3, ReadFollows
  <2>5. At = lastSeq /\ At' = lastSeq'
    BY <1>1, <1>3 DEF At
  <2>6. CASE lastSeq' = lastSeq /\ table' = table
    BY <1>1, <2>5, <2>6 DEF Mirrored
  <2>7. CASE /\ lastSeq = 0 /\ lastSeq' \in 1..Len(published)
             /\ table' = published[lastSeq']
    <3>1. Feed!Land(lastSeq')
      BY <1>1, <1>3, <2>7 DEF Feed!Land
    <3> QED
      BY <2>7, <3>1 DEF Mirrored, Feed!Next
  <2>8. CASE /\ lastSeq # 0 /\ lastSeq' = lastSeq + 1 /\ lastSeq' \in 1..Len(published)
             /\ table' = published[lastSeq']
    <3>1. lastSeq < Len(published)
      BY <2>2, <2>8
    <3>2. Feed!Follow
      BY <1>1, <1>3, <2>8, <3>1 DEF Feed!Follow
    <3> QED
      BY <3>2 DEF Mirrored, Feed!Next
  <2> QED
    BY <2>3, <2>4, <2>6, <2>7, <2>8
<1> QED
  BY <1>2, <1>3

LEMMA NextMirrors == Inv /\ [Next]_vars => [Feed!Next]_(Feed!vars)
<1> SUFFICES ASSUME Inv, [Next]_vars PROVE Mirrored
  BY DEF Feed!vars, At, Mirrored
<1>0. Typed /\ TickInOrder /\ UnservedIsEmpty
  BY DEF Inv, Ordered
<1>1. ASSUME UNCHANGED <<published, table, cur, lastSeq>>, Sound' => Sound PROVE Mirrored
  BY <1>1, Promised DEF At
<1>2. ASSUME NEW m \in Msgs, Broadcast(m), UNCHANGED <<published, handler, tab>> PROVE Mirrored
  <2>1. killed \subseteq killed'
    BY <1>0, <1>2, BroadcastSends
  <2>2. Sound' => Sound
    BY <1>2, <2>1 DEF Sound, tab
  <2> QED
    BY <1>1, <1>2, <2>2 DEF tab
<1>3. ASSUME NEW w \in Polled, PollSucceeds(w) PROVE Mirrored
  BY <1>1, <1>3 DEF PollSucceeds, Sound, server, tab
<1>4. CASE PollFails \/ SetStatus
  BY <1>1, <1>4 DEF PollFails, SetStatus, Sound, server, tab
<1>5. CASE CastStatus
  BY <1>0, <1>2, <1>5, StatusIsMsg DEF CastStatus
<1>6. CASE SetSnapshot
  <2>1. PICK w \in Polled : pending = <<w>>
    BY <1>0, <1>6 DEF SetSnapshot, Typed, TickInOrder
  <2>2. published' = Append(published, w)
    BY <1>0, <1>6, <2>1 DEF SetSnapshot, Typed
  <2>3. Feed!Publish(w)
    BY <1>6, <2>2 DEF SetSnapshot, server, tab, Sound, Feed!Publish
  <2> QED
    BY <2>3 DEF Mirrored, Feed!Next
<1>7. CASE CastTick
  <2>1. Broadcast(TickMsg) /\ TickMsg \in Msgs
    BY <1>0, <1>7, TickLeads DEF CastTick, TickMsg
  <2> QED
    BY <1>2, <1>7, <2>1 DEF CastTick
<1>8. ASSUME NEW c \in Conns, Subscribe(c) PROVE Mirrored
  BY <1>0, <1>1, <1>8 DEF Subscribe, Typed, Sound, poller, tab
<1>9. ASSUME NEW c \in Conns, Deliver(c) PROVE Mirrored
  BY <1>1, <1>9 DEF Deliver, Sound, poller, tab
<1>10. ASSUME NEW c \in Conns, SeeKilled(c) PROVE Mirrored
  BY <1>0, <1>1, <1>10 DEF SeeKilled, Typed, Sound, poller, tab
<1>11. ASSUME NEW c \in Conns, SeeGone(c) PROVE Mirrored
  BY <1>0, <1>1, <1>11 DEF SeeGone, Typed, Sound, poller, tab
<1>12. ASSUME NEW c \in Conns, Open(c) PROVE Mirrored
  BY <1>12, Promised DEF Open, Sound, poller, At
<1>13. CASE Close \/ SeeEnd
  BY <1>13, Promised DEF Close, SeeEnd, Sound, poller, At
<1>14. CASE Dispatch
  BY <1>14, DispatchMirrors
<1>15. CASE UNCHANGED vars
  BY <1>1, <1>15 DEF vars, poller, server, tab, Sound
<1> QED
  BY <1>3, <1>4, <1>5, <1>6, <1>7, <1>8, <1>9, <1>10, <1>11, <1>12, <1>13, <1>14, <1>15
     DEF Next, Poller, Handler

\* The feed keeps the promise of Mirror: a tab lands on an entry of the log and
\* follows it entry by entry, whatever the hub drops, kills and replays.
THEOREM FeedImplementsMirror == Spec => FeedIsMirror
<1>1. Init => Feed!Init
  BY DEF Init, Sound, Feed!Init
<1> QED
  BY <1>1, Invariance, NextMirrors, PTL DEF Spec, FeedIsMirror, Feed!Spec

=============================================================================
