-------------------------- MODULE HistoryTiersProofs --------------------------
(***************************************************************************)
(* What a store's files and tiers hold, for every chain of tiers, every    *)
(* number of torrents and every length of time: what an upgrade may lose,  *)
(* a pass leaves the last values and the whole averages, a chart shows no  *)
(* more than was transferred, and rebuilt totals are sums.                 *)
(***************************************************************************)
EXTENDS HistoryTiers, Induction

-----------------------------------------------------------------------------
(* Opening the database. *)

\* What a file is, field by field: its tables are those of its version, a table of
\* somebody else's is as it was found and stops it from going on, and rows are
\* missing only from the old rate table or, once the fourth migration has passed,
\* from the recent totals.
FileType ==
    [version : 0..SchemaVersion + 1, since : 0..SchemaVersion + 1, samples : Found,
     found : Found, rows : SUBSET Rows,
     seen : {"none", "lastSeen", "firstSeen"}, metrics : BOOLEAN, meta : BOOLEAN]
Tables(version, table, seen, metrics, meta) ==
    /\ version > 0 => /\ seen = IF version >= 2 THEN "firstSeen" ELSE "lastSeen"
                      /\ metrics <=> version >= 3
                      /\ meta <=> version >= 5
    /\ version = 0 => /\ ~metrics /\ ~meta
                      /\ seen = IF table = "counters" THEN "lastSeen" ELSE "none"
    /\ version > 0 => table \notin {"none", "rates"}
    /\ version > 1 => table # "foreign"
    /\ version > 3 => table # "keyed"
Origin(table, found) ==
    /\ table # "counters" => found = table
    /\ found \in {"foreign", "keyed", "alike"} => table = found
Losses(version, since, found, rows) ==
    /\ since <= version
    /\ found # "rates" => "others" \in rows
    /\ found # "rates" /\ since < 4 /\ version >= 4 => "recentTotals" \notin rows
    /\ found # "rates" /\ (since >= 4 \/ version < 4) => "recentTotals" \in rows
Walked(f) ==
    /\ f \in FileType
    /\ Tables(f.version, f.samples, f.seen, f.metrics, f.meta)
    /\ Origin(f.samples, f.found)
    /\ Losses(f.version, f.since, f.found, f.rows)

SchemaInv ==
    /\ Walked(file)
    /\ opening = "ready" => file.version = SchemaVersion

\* The version is stamped last.
LEMMA Stamped ==
    ASSUME NEW g \in FileType, NEW v \in 1..5, Tables(v, g.samples, g.seen, g.metrics, g.meta),
           Origin(g.samples, g.found), Losses(v, g.since, g.found, g.rows)
    PROVE  Walked([g EXCEPT !.version = v])
<1> DEFINE h == [g EXCEPT !.version = v]
<1>1. /\ h \in FileType /\ h.version = v /\ h.since = g.since /\ h.samples = g.samples
      /\ h.found = g.found /\ h.rows = g.rows /\ h.seen = g.seen /\ h.metrics = g.metrics
      /\ h.meta = g.meta
  BY DEF FileType, SchemaVersion
<1> HIDE DEF h
<1>2. Walked(h)
  BY <1>1 DEF Walked
<1> QED
  BY <1>2 DEF h

LEMMA FoundFilesAreWalked == \A f \in Files : Walked(f)
<1>1. ASSUME NEW table \in Found PROVE Walked(Holding(table))
  <2> DEFINE f == Holding(table)
             first == IF table = "counters" THEN "lastSeen" ELSE "none"
  <2>1. /\ f.version = 0 /\ f.since = 0 /\ f.samples = table /\ f.found = table /\ f.rows = Rows
        /\ f.seen = first /\ f.metrics = FALSE /\ f.meta = FALSE
    BY DEF Holding
  <2>2. f \in FileType
    BY DEF Holding, FileType, SchemaVersion
  <2>3. Tables(0, table, first, FALSE, FALSE)
    BY DEF Tables
  <2>4. Origin(table, table) /\ Losses(0, 0, table, Rows)
    BY DEF Origin, Losses, Rows
  <2> HIDE DEF f, first
  <2>5. Walked(f)
    BY <2>1, <2>2, <2>3, <2>4 DEF Walked
  <2> QED
    BY <2>5 DEF f
<1>2. ASSUME NEW v \in 1..SchemaVersion + 1
      PROVE  Walked([Holding("counters") EXCEPT !.version = v, !.since = v, !.metrics = v >= 3,
                         !.meta = v >= 5, !.seen = IF v >= 2 THEN "firstSeen" ELSE "lastSeen"])
  <2> DEFINE column == IF v >= 2 THEN "firstSeen" ELSE "lastSeen"
             later == v >= 3
             latest == v >= 5
             f == [Holding("counters") EXCEPT !.version = v, !.since = v, !.metrics = later,
                       !.meta = latest, !.seen = column]
  <2>1. Tables(v, "counters", column, later, latest)
    BY DEF Tables, SchemaVersion
  <2>2. Origin("counters", "counters") /\ Losses(v, v, "counters", Rows)
    BY DEF Origin, Losses, Rows, SchemaVersion
  <2>3. column \in {"none", "lastSeen", "firstSeen"} /\ v \in 0..SchemaVersion + 1
    BY DEF SchemaVersion
  <2>4. later \in BOOLEAN /\ latest \in BOOLEAN
    BY <2>3 DEF SchemaVersion
  <2>5. Holding("counters") \in FileType
    BY DEF Holding, FileType, SchemaVersion, Found, WithKey
  <2> HIDE DEF column, later, latest
  <2>6. f \in FileType
    BY <2>3, <2>4, <2>5 DEF FileType
  <2>7. /\ f.version = v /\ f.since = v /\ f.samples = "counters" /\ f.found = "counters"
        /\ f.rows = Rows /\ f.seen = column /\ f.metrics = later /\ f.meta = latest
    BY DEF Holding
  <2> HIDE DEF f
  <2>8. Walked(f)
    BY <2>1, <2>2, <2>6, <2>7 DEF Walked
  <2> QED
    BY <2>8 DEF f, column, later, latest
<1> QED
  BY <1>1, <1>2 DEF Files

\* A migration that is committed leaves a file as its new version says (migrate and
\* the migrations).
LEMMA MigrationWalks ==
    ASSUME NEW f, Walked(f), f.version < SchemaVersion, Applies(f, f.version + 1)
    PROVE  Walked([Migrated(f, f.version + 1) EXCEPT !.version = f.version + 1])
<1>0. /\ f \in FileType /\ Tables(f.version, f.samples, f.seen, f.metrics, f.meta)
      /\ Origin(f.samples, f.found) /\ Losses(f.version, f.since, f.found, f.rows)
  BY DEF Walked
<1>1. /\ f.version \in 0..4 /\ f.since \in 0..6 /\ f.metrics \in BOOLEAN /\ f.meta \in BOOLEAN
  BY <1>0 DEF FileType, SchemaVersion
<1>2. CASE f.version = 0
  <2> DEFINE kept == IF LegacySamples(f) THEN [f EXCEPT !.samples = "none", !.rows = {}] ELSE f
             g == [kept EXCEPT !.samples = IF @ = "none" THEN "counters" ELSE @,
                               !.seen = IF @ = "none" THEN "lastSeen" ELSE @]
  <2>1. Migrated(f, 1) = g
    BY DEF Migrated
  <2>2. LegacySamples(f) <=> f.samples = "rates"
    BY DEF LegacySamples, WithKey, WithCounts, WithRes
  <2>3. /\ kept \in FileType /\ kept.seen = f.seen /\ kept.metrics = f.metrics
        /\ kept.meta = f.meta /\ kept.found = f.found /\ kept.since = f.since
        /\ kept.samples = IF f.samples = "rates" THEN "none" ELSE f.samples
        /\ kept.rows = IF f.samples = "rates" THEN {} ELSE f.rows
    BY <1>0, <2>2 DEF FileType, Found
  <2> HIDE DEF kept
  <2>4. /\ g \in FileType /\ g.metrics = kept.metrics /\ g.meta = kept.meta
        /\ g.samples = (IF kept.samples = "none" THEN "counters" ELSE kept.samples)
        /\ g.seen = (IF kept.seen = "none" THEN "lastSeen" ELSE kept.seen)
        /\ g.found = kept.found /\ g.since = kept.since /\ g.rows = kept.rows
    BY <2>3 DEF FileType, Found, WithKey
  <2> HIDE DEF g
  <2>5. Tables(1, g.samples, g.seen, g.metrics, g.meta)
    BY <1>0, <1>1, <1>2, <2>3, <2>4 DEF Tables
  <2>6. Origin(g.samples, g.found)
    BY <1>0, <2>3, <2>4 DEF Origin
  <2>7. Losses(1, g.since, g.found, g.rows)
    BY <1>0, <1>1, <1>2, <2>3, <2>4 DEF Losses, Origin
  <2>8. g \in FileType /\ 1 \in 1..5
    BY <2>4
  <2>9. Walked([g EXCEPT !.version = 1])
    BY ONLY <2>5, <2>6, <2>7, <2>8, Stamped
  <2> QED
    BY <1>2, <2>1, <2>9
<1>3. CASE f.version = 1
  <2> DEFINE g == [f EXCEPT !.seen = "firstSeen"]
  <2>1. Migrated(f, 2) = g
    BY DEF Migrated
  <2>2. /\ g \in FileType /\ g.since = f.since /\ g.samples = f.samples
        /\ g.found = f.found /\ g.rows = f.rows
        /\ g.seen = "firstSeen" /\ g.metrics = f.metrics /\ g.meta = f.meta
    BY <1>0 DEF FileType
  <2> HIDE DEF g
  <2>3. Tables(2, g.samples, g.seen, g.metrics, g.meta)
    BY <1>0, <1>1, <1>3, <2>2 DEF Tables, Applies, WithKey
  <2>4. Losses(2, g.since, g.found, g.rows)
    BY <1>0, <1>1, <1>3, <2>2 DEF Losses
  <2>5. g \in FileType /\ 2 \in 1..5 /\ Origin(g.samples, g.found)
    BY <1>0, <2>2
  <2>6. Walked([g EXCEPT !.version = 2])
    BY ONLY <2>3, <2>4, <2>5, Stamped
  <2> QED
    BY <1>3, <2>1, <2>6
<1>4. CASE f.version = 2
  <2> DEFINE g == [f EXCEPT !.metrics = TRUE]
  <2>1. Migrated(f, 3) = g
    BY DEF Migrated
  <2>2. /\ g \in FileType /\ g.since = f.since /\ g.samples = f.samples
        /\ g.found = f.found /\ g.rows = f.rows
        /\ g.seen = f.seen /\ g.metrics = TRUE /\ g.meta = f.meta
    BY <1>0 DEF FileType
  <2> HIDE DEF g
  <2>3. Tables(3, g.samples, g.seen, g.metrics, g.meta)
    BY <1>0, <1>1, <1>4, <2>2 DEF Tables
  <2>4. Losses(3, g.since, g.found, g.rows)
    BY <1>0, <1>1, <1>4, <2>2 DEF Losses
  <2>5. g \in FileType /\ 3 \in 1..5 /\ Origin(g.samples, g.found)
    BY <1>0, <2>2
  <2>6. Walked([g EXCEPT !.version = 3])
    BY ONLY <2>3, <2>4, <2>5, Stamped
  <2> QED
    BY <1>4, <2>1, <2>6
<1>5. CASE f.version = 3
  <2> DEFINE g == [f EXCEPT !.rows = f.rows \ {"recentTotals"}]
  <2>1. Migrated(f, 4) = g
    BY DEF Migrated
  <2>2. /\ g \in FileType /\ g.since = f.since /\ g.samples = f.samples
        /\ g.found = f.found /\ g.rows = f.rows \ {"recentTotals"}
        /\ g.seen = f.seen /\ g.metrics = f.metrics /\ g.meta = f.meta
    BY <1>0 DEF FileType
  <2> HIDE DEF g
  <2>3. Tables(4, g.samples, g.seen, g.metrics, g.meta)
    BY <1>0, <1>1, <1>5, <2>2 DEF Tables, Applies, WithKey, WithRes
  <2>4. Losses(4, g.since, g.found, g.rows)
    BY <1>0, <1>1, <1>5, <2>2 DEF Losses
  <2>5. g \in FileType /\ 4 \in 1..5 /\ Origin(g.samples, g.found)
    BY <1>0, <2>2
  <2>6. Walked([g EXCEPT !.version = 4])
    BY ONLY <2>3, <2>4, <2>5, Stamped
  <2> QED
    BY <1>5, <2>1, <2>6
<1>6. CASE f.version = 4
  <2> DEFINE g == [f EXCEPT !.meta = TRUE]
  <2>1. Migrated(f, 5) = g
    BY DEF Migrated
  <2>2. /\ g \in FileType /\ g.since = f.since /\ g.samples = f.samples
        /\ g.found = f.found /\ g.rows = f.rows
        /\ g.seen = f.seen /\ g.metrics = f.metrics /\ g.meta = TRUE
    BY <1>0 DEF FileType
  <2> HIDE DEF g
  <2>3. Tables(5, g.samples, g.seen, g.metrics, g.meta)
    BY <1>0, <1>1, <1>6, <2>2 DEF Tables
  <2>4. Losses(5, g.since, g.found, g.rows)
    BY <1>0, <1>1, <1>6, <2>2 DEF Losses
  <2>5. g \in FileType /\ 5 \in 1..5 /\ Origin(g.samples, g.found)
    BY <1>0, <2>2
  <2>6. Walked([g EXCEPT !.version = 5])
    BY ONLY <2>3, <2>4, <2>5, Stamped
  <2> QED
    BY <1>6, <2>1, <2>6
<1> QED
  BY <1>1, <1>2, <1>3, <1>4, <1>5, <1>6

LEMMA StepKeepsSchema == SchemaInv /\ [TiersNext]_allVars => SchemaInv'
<1> SUFFICES ASSUME SchemaInv, [TiersNext]_allVars PROVE SchemaInv'
  OBVIOUS
<1>1. ASSUME UNCHANGED schemaVars PROVE SchemaInv'
  BY <1>1 DEF SchemaInv, schemaVars
<1>2. CASE Open
  BY <1>2 DEF Open, SchemaInv
<1>3. CASE Migrate
  <2>1. opening' # "ready"
    BY <1>3 DEF Migrate
  <2>2. CASE UNCHANGED file
    BY <2>1, <2>2 DEF SchemaInv
  <2>3. CASE /\ Applies(file, file.version + 1)
             /\ file' = [Migrated(file, file.version + 1) EXCEPT !.version = file.version + 1]
    <3>1. file.version < SchemaVersion /\ Walked(file)
      BY <1>3 DEF Migrate, SchemaInv
    <3> QED
      BY <2>1, <2>3, <3>1, MigrationWalks DEF SchemaInv
  <2> QED
    BY <1>3, <2>2, <2>3 DEF Migrate
<1>4. CASE Probe
  BY <1>4 DEF Probe, SchemaInv
<1>5. CASE Reopen
  BY <1>5 DEF Reopen, SchemaInv
<1> QED
  BY <1>1, <1>2, <1>3, <1>4, <1>5 DEF TiersNext, Start, Stop, World, Store, allVars

\* Whatever died in between, a file has exactly what its version says and a store in
\* use has it all.  Rows that were found are lost by dropping the old rate table and
\* by trimming the recent totals, and by nothing else (migrate's transactions,
\* legacySamples, New's probe).
THEOREM UpgradesAreSafe == TiersSpec => []UpgradeIsSafe
<1>1. TiersInit => SchemaInv
  BY FoundFilesAreWalked DEF TiersInit, SchemaInit, SchemaInv
<1>2. SchemaInv => UpgradeIsSafe
  <2> SUFFICES ASSUME SchemaInv PROVE UpgradeIsSafe
    OBVIOUS
  <2> DEFINE v == file.version
  <2>1. /\ file \in FileType /\ Tables(v, file.samples, file.seen, file.metrics, file.meta)
        /\ Origin(file.samples, file.found) /\ Losses(v, file.since, file.found, file.rows)
    BY DEF SchemaInv, Walked
  <2>2. /\ file.metrics \in BOOLEAN /\ file.meta \in BOOLEAN /\ v \in 0..6
        /\ file.since \in 0..6 /\ file.samples \in Found /\ file.found \in Found
        /\ file.rows \in SUBSET Rows
    BY <2>1 DEF FileType, SchemaVersion
  <2>3. ASSUME v > 0
        PROVE  /\ file.seen = IF v >= 2 THEN "firstSeen" ELSE "lastSeen"
               /\ file.metrics = (v >= 3)
               /\ file.meta = (v >= 5)
    <3>1. /\ file.seen = IF v >= 2 THEN "firstSeen" ELSE "lastSeen"
          /\ file.metrics <=> v >= 3
          /\ file.meta <=> v >= 5
      BY <2>1, <2>3 DEF Tables
    <3> QED
      BY <2>2, <3>1
  <2>4. ASSUME opening = "ready"
        PROVE  v = SchemaVersion /\ file.samples = IF file.found = "alike" THEN "alike" ELSE "counters"
    <3>1. v = 5
      BY <2>4 DEF SchemaInv, SchemaVersion
    <3>2. file.samples \in {"counters", "alike"}
      BY <2>1, <2>2, <3>1 DEF Tables, Found, WithKey
    <3> QED
      BY <2>1, <3>1, <3>2 DEF Origin, SchemaVersion
  <2>5. /\ "others" \notin file.rows => file.found = "rates"
        /\ file.found # "rates" =>
               ("recentTotals" \notin file.rows <=> (file.since < 4 /\ v >= 4))
    BY <2>1, <2>2 DEF Losses
  <2>6. ASSUME file.found \in {"foreign", "keyed"}
        PROVE  file.rows = Rows /\ v < 4
    <3>1. v < 4
      BY <2>1, <2>2, <2>6 DEF Tables, Origin
    <3> QED
      BY <2>2, <2>5, <2>6, <3>1 DEF Rows
  <2> QED
    BY <2>3, <2>4, <2>5, <2>6 DEF UpgradeIsSafe
<1> QED
  BY <1>1, <1>2, StepKeepsSchema, PTL DEF TiersSpec

-----------------------------------------------------------------------------
(* Buckets. *)

Sizes == Nat \ {0}

LEMMA BucketBounds ==
    ASSUME NEW ts \in Int, NEW size \in Sizes
    PROVE  /\ Bucket(ts, size) \in Int /\ Bucket(ts, size) <= ts /\ ts < Bucket(ts, size) + size
           /\ ts \in Nat => Bucket(ts, size) \in Nat
<1>1. /\ ts \div size \in Int /\ (ts \div size) * size <= ts
      /\ ts < (ts \div size) * size + size
  BY DEF Sizes
<1>2. (ts \div size) * size \in Int
  BY <1>1 DEF Sizes
<1>3. ts \in Nat => (ts \div size) * size \in Nat
  <2>1. ts \in Nat => ts \div size \in Nat
    BY DEF Sizes
  <2>2. ASSUME NEW c \in Nat PROVE c * size \in Nat
    BY DEF Sizes
  <2> QED
    BY <2>1, <2>2
<1> QED
  BY <1>1, <1>2, <1>3 DEF Bucket

\* A multiple of the size is the bucket of all that lies less than a size above it.
LEMMA BucketIs ==
    ASSUME NEW ts \in Int, NEW size \in Sizes, NEW c \in Int, c * size <= ts, ts < c * size + size
    PROVE  Bucket(ts, size) = c * size
<1>1. ts \div size = c
  BY DEF Sizes
<1> QED
  BY <1>1 DEF Bucket

LEMMA BucketMonotone ==
    ASSUME NEW a \in Int, NEW b \in Int, a <= b, NEW size \in Sizes
    PROVE  Bucket(a, size) <= Bucket(b, size)
<1> DEFINE x == a \div size
           y == b \div size
<1>1. x \in Int /\ y \in Int /\ x * size <= a /\ b < y * size + size
  BY DEF Sizes
<1>2. x * size < y * size + size
  <2>1. x * size \in Int /\ y * size + size \in Int
    BY <1>1 DEF Sizes
  <2> HIDE DEF x, y
  <2> QED
    BY <1>1, <2>1
<1> HIDE DEF x, y
<1>3. x < y + 1
  <2>1. ASSUME y + 1 <= x PROVE FALSE
    <3>1. (y + 1) * size <= x * size
      BY <1>1, <2>1 DEF Sizes
    <3>2. (y + 1) * size = y * size + size
      BY <1>1 DEF Sizes
    <3> QED
      BY <1>1, <1>2, <3>1, <3>2 DEF Sizes
  <2> QED
    BY <1>1, <2>1
<1>4. x * size <= y * size
  BY <1>1, <1>3 DEF Sizes
<1> QED
  BY <1>4 DEF Bucket, x, y

\* Buckets of one size do not overlap.
LEMMA BucketsApart ==
    ASSUME NEW a \in Int, NEW b \in Int, NEW size \in Sizes, Bucket(a, size) < Bucket(b, size)
    PROVE  Bucket(a, size) + size <= Bucket(b, size)
<1>1. Bucket(a, size) \in Int /\ Bucket(b, size) \in Int /\ Bucket(b, size) <= b
      /\ b < Bucket(b, size) + size /\ a < Bucket(a, size) + size
  BY BucketBounds
<1> DEFINE x == a \div size
           y == b \div size
<1>2. x \in Int /\ y \in Int /\ Bucket(a, size) = x * size /\ Bucket(b, size) = y * size
  BY DEF Sizes, Bucket
<1> HIDE DEF x, y
<1>3. x + 1 <= y
  <2>1. ASSUME y <= x PROVE FALSE
    <3>1. y * size <= x * size
      BY <1>2, <2>1 DEF Sizes
    <3> QED
      BY <1>1, <1>2, <3>1
  <2> QED
    BY <1>2, <2>1
<1>4. (x + 1) * size <= y * size /\ (x + 1) * size = x * size + size
  BY <1>2, <1>3 DEF Sizes
<1> QED
  BY <1>2, <1>4

\* A bucket of a multiple size is made of whole smaller ones.
LEMMA BucketOfBucket ==
    ASSUME NEW ts \in Int, NEW small \in Sizes, NEW size \in Sizes, size % small = 0
    PROVE  /\ Bucket(Bucket(ts, small), size) = Bucket(ts, size)
           /\ Bucket(ts, small) + small <= Bucket(ts, size) + size
<1>1. PICK k \in Int : size = k * small
  <2>1. (size \div small) \in Int /\ size = (size \div small) * small
    BY DEF Sizes
  <2> QED
    BY <2>1
<1> DEFINE c == ts \div size
           u == Bucket(ts, small)
           d == c * k
<1>2. c \in Int /\ Bucket(ts, size) = c * size
  BY DEF Sizes, Bucket
<1>3. c * size <= ts /\ ts < c * size + size
  BY <1>2, BucketBounds
<1> HIDE DEF c
<1>4. d \in Int /\ c * size = d * small
  <2>1. c * (k * small) = (c * k) * small
    BY <1>2 DEF Sizes
  <2> QED
    BY <1>1, <1>2, <2>1
<1>5. u \in Int /\ u <= ts /\ ts < u + small
  BY BucketBounds
<1>6. d * small = Bucket(d * small, small) /\ d * small \in Int
  <2>1. d * small \in Int /\ d * small <= d * small /\ d * small < d * small + small
    BY <1>4 DEF Sizes
  <2> HIDE DEF d
  <2> QED
    BY <1>4, <2>1, BucketIs
<1>7. c * size <= u
  <2>1. Bucket(d * small, small) <= Bucket(ts, small)
    BY <1>3, <1>4, <1>6, BucketMonotone
  <2> QED
    BY <1>4, <1>6, <2>1
<1>8. u < c * size + size /\ c * size \in Int
  BY <1>2, <1>3, <1>5 DEF Sizes
<1>9. Bucket(u, size) = c * size
  <2> HIDE DEF u
  <2> QED
    BY <1>2, <1>5, <1>7, <1>8, BucketIs
<1>10. u + small <= c * size + size
  <2> DEFINE top == c * size + size
             e == d + k
  <2>1. e \in Int /\ top = e * small /\ top \in Int
    <3>1. (d + k) * small = d * small + k * small
      BY <1>4 DEF Sizes
    <3> QED
      BY <1>1, <1>2, <1>4, <3>1 DEF Sizes
  <2>2. Bucket(top, small) = top
    <3>1. e * small <= top /\ top < e * small + small
      BY <2>1 DEF Sizes
    <3> HIDE DEF top, e
    <3> QED
      BY <2>1, <3>1, BucketIs
  <2>3. u < top
    BY <1>8
  <2> HIDE DEF top
  <2>4. Bucket(ts, small) + small <= Bucket(top, small)
    BY <1>5, <2>1, <2>2, <2>3, BucketsApart
  <2> QED
    BY <2>2, <2>4 DEF top
<1> QED
  BY <1>2, <1>9, <1>10

LEMMA BucketOfOne == \A ts \in Int : Bucket(ts, 1) = ts
<1>1. ASSUME NEW ts \in Int PROVE Bucket(ts, 1) = ts
  <2>1. 1 \in Sizes /\ ts * 1 <= ts /\ ts < ts * 1 + 1 /\ ts * 1 = ts
    BY DEF Sizes
  <2> QED
    BY <2>1, BucketIs
<1> QED
  BY <1>1

-----------------------------------------------------------------------------
(* Rows, and rolling them up. *)

RowsUpTo(c) == UNION {[S -> Int] : S \in SUBSET (0..c)}

LEMMA RowsAre ==
    ASSUME NEW c, NEW rows \in RowsUpTo(c)
    PROVE  /\ rows = [ts \in DOMAIN rows |-> rows[ts]]
           /\ DOMAIN rows \in SUBSET (0..c) /\ DOMAIN rows \in SUBSET Int
           /\ \A ts \in DOMAIN rows : ts \in 0..c /\ ts \in Int /\ rows[ts] \in Int
<1>1. PICK S \in SUBSET (0..c) : rows \in [S -> Int]
  BY DEF RowsUpTo
<1> QED
  BY <1>1

LEMMA RowsAgain ==
    ASSUME NEW c, NEW S \in SUBSET (0..c), NEW rows \in [S -> Int]
    PROVE  rows \in RowsUpTo(c)
BY DEF RowsUpTo

LEMMA MaxIs ==
    ASSUME NEW T \in SUBSET Int, NEW m \in T, \A y \in T : y <= m
    PROVE  Max(T) = m
<1>1. \A y \in T : m >= y
  OBVIOUS
<1>2. \A x \in T : (\A y \in T : x >= y) => x = m
  OBVIOUS
<1> QED
  BY <1>1, <1>2 DEF Max

LEMMA MaxExists ==
    ASSUME NEW c \in Nat, NEW T \in SUBSET (0..c), T # {}
    PROVE  T \in SUBSET Int /\ Max(T) \in T /\ \A y \in T : y <= Max(T)
<1>1. T \in SUBSET Int
  OBVIOUS
<1>2. PICK m \in T : \A y \in T : y <= m
  <2>1. T \in SUBSET Int /\ T # {} /\ c \in Int /\ \A y \in T : y <= c
    OBVIOUS
  <2>2. \E m \in T : \A y \in T : y <= m
    BY ONLY <2>1, GreatestElement
  <2> QED
    BY <2>2
<1> QED
  BY <1>1, <1>2, MaxIs

\* Of the recent rows of a bucket the last one is kept.
LEMMA LastIsKept ==
    ASSUME NEW rows, DOMAIN rows \in SUBSET Int, NEW size \in Sizes, NEW from \in Int
    PROVE  /\ DOMAIN LastPerBucket(rows, size, from) =
                  {Bucket(ts, size) : ts \in {ts \in DOMAIN rows : ts >= from}}
           /\ \A m \in DOMAIN rows :
                  /\ m >= from
                  /\ \A ts \in DOMAIN rows :
                         (ts >= from /\ Bucket(ts, size) = Bucket(m, size)) => ts <= m
                  => LastPerBucket(rows, size, from)[Bucket(m, size)] = rows[m]
<1> DEFINE recent == {ts \in DOMAIN rows : ts >= from}
           in(b) == {ts \in recent : Bucket(ts, size) = b}
<1>1. LastPerBucket(rows, size, from) =
          [b \in {Bucket(ts, size) : ts \in recent} |-> rows[Max(in(b))]]
  BY DEF LastPerBucket
<1>2. ASSUME NEW m \in DOMAIN rows, m >= from,
             \A ts \in DOMAIN rows : (ts >= from /\ Bucket(ts, size) = Bucket(m, size)) => ts <= m
      PROVE  LastPerBucket(rows, size, from)[Bucket(m, size)] = rows[m]
  <2>1. m \in recent /\ m \in in(Bucket(m, size))
    BY <1>2
  <2>2. \A y \in in(Bucket(m, size)) : y <= m
    BY <1>2
  <2>3. in(Bucket(m, size)) \in SUBSET Int
    OBVIOUS
  <2> HIDE DEF in, recent
  <2>4. Max(in(Bucket(m, size))) = m
    BY <2>1, <2>2, <2>3, MaxIs
  <2> QED
    BY <1>1, <2>1, <2>4
<1> QED
  BY <1>1, <1>2

LEMMA LastType ==
    ASSUME NEW c \in Nat, NEW rows \in RowsUpTo(c), NEW size \in Sizes, NEW from \in Int
    PROVE  LastPerBucket(rows, size, from) \in RowsUpTo(c)
<1> DEFINE recent == {ts \in DOMAIN rows : ts >= from}
           in(b) == {ts \in recent : Bucket(ts, size) = b}
           keys == {Bucket(ts, size) : ts \in recent}
<1>1. LastPerBucket(rows, size, from) = [b \in keys |-> rows[Max(in(b))]]
  BY DEF LastPerBucket
<1>2. \A ts \in DOMAIN rows : ts \in 0..c /\ rows[ts] \in Int
  BY RowsAre
<1>3. \A ts \in recent : Bucket(ts, size) \in 0..c
  <2>1. ASSUME NEW ts \in recent PROVE Bucket(ts, size) \in 0..c
    <3>1. ts \in 0..c /\ ts \in Int /\ ts \in Nat
      BY <1>2
    <3>2. Bucket(ts, size) \in Nat /\ Bucket(ts, size) <= ts
      BY <3>1, BucketBounds
    <3> QED
      BY <3>1, <3>2
  <2> QED
    BY <2>1
<1>4. ASSUME NEW b \in keys PROVE rows[Max(in(b))] \in Int
  <2>1. in(b) \in SUBSET (0..c) /\ in(b) # {}
    BY <1>2
  <2>2. Max(in(b)) \in in(b)
    <3> HIDE DEF in
    <3> QED
      BY <2>1, MaxExists
  <2> QED
    BY <1>2, <2>2
<1>5. keys \in SUBSET (0..c)
  BY <1>3
<1> HIDE DEF keys, in
<1>6. [b \in keys |-> rows[Max(in(b))]] \in [keys -> Int]
  BY <1>4
<1> QED
  BY <1>1, <1>5, <1>6, RowsAgain

LEMMA AverageType ==
    ASSUME NEW c \in Nat, NEW rows \in RowsUpTo(c), NEW size \in Sizes, NEW from \in Int
    PROVE  AveragePerBucket(rows, size, from) \in RowsUpTo(c)
<1> DEFINE recent == {ts \in DOMAIN rows : ts >= Bucket(from, size)}
           in(b) == {ts \in recent : Bucket(ts, size) = b}
           keys == {Bucket(ts, size) : ts \in recent}
           average(b) == SumOf([ts \in in(b) |-> rows[ts]]) \div Cardinality(in(b))
<1>1. AveragePerBucket(rows, size, from) = [b \in keys |-> average(b)]
  BY DEF AveragePerBucket
<1>2. \A ts \in DOMAIN rows : ts \in 0..c /\ rows[ts] \in Int
  BY RowsAre
<1>3. \A ts \in recent : Bucket(ts, size) \in 0..c
  <2>1. ASSUME NEW ts \in recent PROVE Bucket(ts, size) \in 0..c
    <3>1. ts \in 0..c /\ ts \in Int /\ ts \in Nat
      BY <1>2
    <3>2. Bucket(ts, size) \in Nat /\ Bucket(ts, size) <= ts
      BY <3>1, BucketBounds
    <3> QED
      BY <3>1, <3>2
  <2> QED
    BY <2>1
<1>4. ASSUME NEW b \in keys PROVE average(b) \in Int
  <2> DEFINE D == in(b)
             values == [ts \in D |-> rows[ts]]
  <2>1. D \in SUBSET (0..c) /\ D # {}
    BY <1>2
  <2>2. IsFiniteSet(0..c)
    BY FS_Interval
  <2>3. \A ts \in D : rows[ts] \in Int
    BY <1>2
  <2> HIDE DEF D
  <2>4. IsFiniteSet(D) /\ Cardinality(D) \in Nat
    BY <2>1, <2>2, FS_Subset, FS_CardinalityType
  <2>5. Cardinality(D) # 0
    BY <2>1, <2>4, FS_EmptySet
  <2>6. values \in [D -> Int]
    BY <2>3
  <2> HIDE DEF values
  <2>7. SumOf(values) \in Int
    BY <2>4, <2>6, SumType
  <2>8. SumOf(values) \div Cardinality(D) \in Int
    BY <2>4, <2>5, <2>7
  <2> QED
    BY <2>8 DEF values, D
<1>5. keys \in SUBSET (0..c)
  BY <1>3
<1> HIDE DEF keys, average
<1>6. [b \in keys |-> average(b)] \in [keys -> Int]
  BY <1>4
<1> QED
  BY <1>1, <1>5, <1>6, RowsAgain

LEMMA OverType ==
    ASSUME NEW c, NEW new \in RowsUpTo(c), NEW rows \in RowsUpTo(c)
    PROVE  Over(new, rows) \in RowsUpTo(c)
<1> DEFINE keys == DOMAIN new \cup DOMAIN rows
           value(ts) == IF ts \in DOMAIN new THEN new[ts] ELSE rows[ts]
<1>1. keys \in SUBSET (0..c) /\ \A ts \in keys : value(ts) \in Int
  <2>1. DOMAIN new \in SUBSET (0..c) /\ DOMAIN rows \in SUBSET (0..c)
    BY RowsAre
  <2>2. \A ts \in DOMAIN new : new[ts] \in Int
    BY RowsAre
  <2>3. \A ts \in DOMAIN rows : rows[ts] \in Int
    BY RowsAre
  <2> QED
    BY <2>1, <2>2, <2>3
<1>2. Over(new, rows) = [ts \in keys |-> value(ts)]
  BY DEF Over
<1> HIDE DEF keys, value
<1>3. [ts \in keys |-> value(ts)] \in [keys -> Int]
  BY <1>1
<1> QED
  BY <1>1, <1>2, <1>3, RowsAgain

\* The tables that a store is built with fit together, if no silence is longer than
\* ten minutes (tiers, rollups and gaugeRollups): the theorems below are about them too.
THEOREM StoreTiersFit == Fit(StoreTiers, StoreWindow, StoreGaugeWindow, 600)
<1>1. /\ Len(StoreTiers) = 4 /\ DOMAIN StoreTiers = 1..4
      /\ StoreTiers \in Seq([bucket : Nat \ {0}, retain : Nat])
  BY DEF StoreTiers
<1>2. StoreWindow \in [1..4 -> Nat] /\ StoreGaugeWindow \in [1..4 -> Nat]
  BY DEF StoreWindow, StoreGaugeWindow
<1>3. /\ StoreTiers[1].bucket = 1 /\ StoreTiers[1].retain = 900
      /\ StoreTiers[2].bucket = 60 /\ StoreTiers[2].retain = 86400
      /\ StoreTiers[3].bucket = 3600 /\ StoreTiers[3].retain = 604800
      /\ StoreTiers[4].bucket = 86400 /\ StoreTiers[4].retain = 31536000
  BY DEF StoreTiers
<1>4. \A i \in 1..4 : StoreTiers[i].retain >= StoreTiers[i].bucket
  BY <1>3
<1>5. ASSUME NEW i \in 2..4
      PROVE  /\ StoreTiers[i].bucket % StoreTiers[i - 1].bucket = 0
             /\ StoreGaugeWindow[i] + StoreTiers[i].bucket <= StoreTiers[i - 1].retain
             /\ StoreWindow[i] >= 600 + StoreTiers[i - 1].bucket - 1
             /\ StoreGaugeWindow[i] >= 600
  <2>1. CASE i = 2
    BY <1>3, <2>1 DEF StoreWindow, StoreGaugeWindow
  <2>2. CASE i = 3
    BY <1>3, <2>2 DEF StoreWindow, StoreGaugeWindow
  <2>3. CASE i = 4
    BY <1>3, <2>3 DEF StoreWindow, StoreGaugeWindow
  <2> QED
    BY <2>1, <2>2, <2>3
<1> QED
  BY <1>1, <1>2, <1>3, <1>4, <1>5 DEF Fit

\* What fits together, spelled out for the tiers at hand.
LEMMA TiersAreSane ==
    /\ Tiers \in Seq([bucket : Nat \ {0}, retain : Nat]) /\ Len(Tiers) >= 1
    /\ Window \in [DOMAIN Tiers -> Nat] /\ GaugeWindow \in [DOMAIN Tiers -> Nat]
    /\ MaxSilence \in Nat
    /\ Tiers[1].bucket = 1
    /\ \A i \in DOMAIN Tiers : Tiers[i].retain >= Tiers[i].bucket
    /\ \A i \in 2..Len(Tiers) :
           /\ Tiers[i].bucket % Tiers[i - 1].bucket = 0
           /\ GaugeWindow[i] + Tiers[i].bucket <= Tiers[i - 1].retain
           /\ Window[i] >= MaxSilence + Tiers[i - 1].bucket - 1
           /\ GaugeWindow[i] >= MaxSilence
BY TiersFit DEF Fit

LEMMA TierSizes ==
    /\ Len(Tiers) \in Nat /\ Len(Tiers) >= 1 /\ DOMAIN Tiers = 1..Len(Tiers)
    /\ \A i \in 1..Len(Tiers) : Tiers[i].bucket \in Sizes /\ Tiers[i].retain \in Nat
    /\ Coarsest = Len(Tiers) /\ Finest = 1
<1>1. Tiers \in Seq([bucket : Nat \ {0}, retain : Nat]) /\ Len(Tiers) >= 1
  BY TiersAreSane
<1>2. Len(Tiers) \in Nat /\ DOMAIN Tiers = 1..Len(Tiers)
  BY <1>1
<1>3. \A i \in 1..Len(Tiers) : Tiers[i] \in [bucket : Nat \ {0}, retain : Nat]
  <2> DEFINE T == [bucket : Nat \ {0}, retain : Nat]
  <2> HIDE DEF T
  <2>1. Tiers \in Seq(T)
    BY <1>1 DEF T
  <2>2. \A i \in 1..Len(Tiers) : Tiers[i] \in T
    BY <2>1
  <2> QED
    BY <2>2 DEF T
<1> QED
  BY <1>1, <1>2, <1>3 DEF Coarsest, Finest, Sizes

\* One rollup, and the whole chain: each tier from the finer one.
RollInto(kind, tiers, window, i, fine) ==
    Over(Roll(kind, fine, Tiers[i].bucket, clock - window[i]), tiers[i])
IsChain(r, V, kind, tiers, window) ==
    /\ r \in [DOMAIN Tiers -> V] /\ r[1] = tiers[1]
    /\ \A i \in 2..Len(Tiers) : r[i] = RollInto(kind, tiers, window, i, r[i - 1])

LEMMA RolledUpIs ==
    ASSUME NEW V, NEW kind, NEW tiers, NEW window, tiers[1] \in V,
           \A i \in 2..Len(Tiers) : \A g \in V : RollInto(kind, tiers, window, i, g) \in V
    PROVE  IsChain(RolledUp(kind, tiers, window), V, kind, tiers, window)
<1> DEFINE N == Len(Tiers)
           next(i, g) == RollInto(kind, tiers, window, i, g)
           first == tiers[1]
           Body(f) == [i \in DOMAIN Tiers |-> IF i = Finest THEN first ELSE next(i, f[i - 1])]
           step == [i \in 2..N |-> [g \in V |-> next(i, g)]]
<1>0. N \in Nat /\ 1 <= N /\ DOMAIN Tiers = 1..N /\ Finest = 1 /\ 1 + 1 = 2
  BY TierSizes
<1>1. RolledUp(kind, tiers, window) = CHOOSE e : e = Body(e)
  BY <1>0 DEF RolledUp, RollInto
<1>2. \A i \in 2..N : \A g \in V : next(i, g) \in V
  OBVIOUS
<1> HIDE DEF next, first, N
<1>3. step \in StepsAlong(1, N, V) /\ \A i \in 2..N : \A g \in V : step[i][g] = next(i, g)
  BY <1>0, <1>2 DEF StepsAlong
<1> HIDE DEF step
<1>4. PICK f \in [1..N -> V] : Follows(f, 1, N, first, step)
  <2>1. 1 \in Int /\ N \in Int /\ 1 <= N /\ first \in V /\ step \in StepsAlong(1, N, V)
    BY <1>0, <1>3 DEF first
  <2> QED
    BY <2>1, IntervalRecursion
<1>5. f = Body(f)
  <2>1. f = [i \in 1..N |-> IF i = 1 THEN first ELSE step[i][f[i - 1]]]
    BY <1>4 DEF Follows
  <2>2. \A i \in 1..N : i # 1 => i \in 2..N /\ i - 1 \in 1..N
    BY <1>0
  <2>3. \A i \in 1..N : i # 1 => step[i][f[i - 1]] = next(i, f[i - 1])
    BY <1>3, <2>2
  <2> QED
    BY <1>0, <2>1, <2>3
<1> DEFINE r == CHOOSE e : e = Body(e)
<1>6. r = Body(r)
  BY <1>5
<1> HIDE DEF r
<1>7. r[1] = first /\ \A i \in 2..N : r[i] = next(i, r[i - 1])
  <2>1. \A i \in 1..N : r[i] = IF i = 1 THEN first ELSE next(i, r[i - 1])
    BY <1>0, <1>6
  <2>2. 1 \in 1..N /\ \A i \in 2..N : i \in 1..N /\ i # 1
    BY <1>0
  <2> QED
    BY <2>1, <2>2
<1>8. \A i \in 1..N : r[i] \in V
  <2> DEFINE S == {n \in Nat : n + 1 <= N => r[n + 1] \in V}
  <2>1. 0 \in S
    BY <1>7 DEF first
  <2>2. ASSUME NEW n \in Nat, n \in S PROVE n + 1 \in S
    <3> SUFFICES ASSUME n + 1 + 1 <= N PROVE r[n + 1 + 1] \in V
      OBVIOUS
    <3>1. n + 1 <= N /\ n + 1 + 1 \in 2..N /\ (n + 1 + 1) - 1 = n + 1
      BY <1>0
    <3>2. r[n + 1] \in V
      BY <2>2, <3>1
    <3> QED
      BY <1>2, <1>7, <3>1, <3>2
  <2> HIDE DEF S
  <2>3. Nat \subseteq S
    BY <2>1, <2>2, NaturalInduction
  <2>4. ASSUME NEW i \in 1..N PROVE r[i] \in V
    <3>1. i - 1 \in Nat /\ (i - 1) + 1 = i /\ (i - 1) + 1 <= N
      BY <1>0
    <3> QED
      BY <2>3, <3>1 DEF S
  <2> QED
    BY <2>4
<1>9. r \in [DOMAIN Tiers -> V]
  <2>1. r = [i \in 1..N |-> r[i]]
    BY <1>0, <1>6
  <2> QED
    BY <1>0, <1>8, <2>1
<1> QED
  BY <1>1, <1>7, <1>9 DEF r, next, first, N, IsChain

LEMMA WholeIs ==
    ASSUME NEW V, NEW rows \in V,
           \A i \in 2..Len(Tiers) : \A g \in V : AveragePerBucket(g, Tiers[i].bucket, 0) \in V
    PROVE  /\ WholeAverages(rows) \in [DOMAIN Tiers -> V]
           /\ WholeAverages(rows)[1] = rows
           /\ \A i \in 2..Len(Tiers) :
                  WholeAverages(rows)[i] =
                      AveragePerBucket(WholeAverages(rows)[i - 1], Tiers[i].bucket, 0)
<1> DEFINE N == Len(Tiers)
           next(i, g) == AveragePerBucket(g, Tiers[i].bucket, 0)
           Body(f) == [i \in DOMAIN Tiers |-> IF i = Finest THEN rows ELSE next(i, f[i - 1])]
           step == [i \in 2..N |-> [g \in V |-> next(i, g)]]
<1>0. N \in Nat /\ 1 <= N /\ DOMAIN Tiers = 1..N /\ Finest = 1 /\ 1 + 1 = 2
  BY TierSizes
<1>1. WholeAverages(rows) = CHOOSE e : e = Body(e)
  BY <1>0 DEF WholeAverages
<1>2. \A i \in 2..N : \A g \in V : next(i, g) \in V
  OBVIOUS
<1> HIDE DEF next, N
<1>3. step \in StepsAlong(1, N, V) /\ \A i \in 2..N : \A g \in V : step[i][g] = next(i, g)
  BY <1>0, <1>2 DEF StepsAlong
<1> HIDE DEF step
<1>4. PICK f \in [1..N -> V] : Follows(f, 1, N, rows, step)
  <2>1. 1 \in Int /\ N \in Int /\ 1 <= N /\ rows \in V /\ step \in StepsAlong(1, N, V)
    BY <1>0, <1>3
  <2> QED
    BY <2>1, IntervalRecursion
<1>5. f = Body(f)
  <2>1. f = [i \in 1..N |-> IF i = 1 THEN rows ELSE step[i][f[i - 1]]]
    BY <1>4 DEF Follows
  <2>2. \A i \in 1..N : i # 1 => i \in 2..N /\ i - 1 \in 1..N
    BY <1>0
  <2>3. \A i \in 1..N : i # 1 => step[i][f[i - 1]] = next(i, f[i - 1])
    BY <1>3, <2>2
  <2> QED
    BY <1>0, <2>1, <2>3
<1> DEFINE r == CHOOSE e : e = Body(e)
<1>6. r = Body(r)
  BY <1>5
<1> HIDE DEF r
<1>7. r[1] = rows /\ \A i \in 2..N : r[i] = next(i, r[i - 1])
  <2>1. \A i \in 1..N : r[i] = IF i = 1 THEN rows ELSE next(i, r[i - 1])
    BY <1>0, <1>6
  <2>2. 1 \in 1..N /\ \A i \in 2..N : i \in 1..N /\ i # 1
    BY <1>0
  <2> QED
    BY <2>1, <2>2
<1>8. \A i \in 1..N : r[i] \in V
  <2> DEFINE S == {n \in Nat : n + 1 <= N => r[n + 1] \in V}
  <2>1. 0 \in S
    BY <1>7
  <2>2. ASSUME NEW n \in Nat, n \in S PROVE n + 1 \in S
    <3> SUFFICES ASSUME n + 1 + 1 <= N PROVE r[n + 1 + 1] \in V
      OBVIOUS
    <3>1. n + 1 <= N /\ n + 1 + 1 \in 2..N /\ (n + 1 + 1) - 1 = n + 1
      BY <1>0
    <3>2. r[n + 1] \in V
      BY <2>2, <3>1
    <3> QED
      BY <1>2, <1>7, <3>1, <3>2
  <2> HIDE DEF S
  <2>3. Nat \subseteq S
    BY <2>1, <2>2, NaturalInduction
  <2>4. ASSUME NEW i \in 1..N PROVE r[i] \in V
    <3>1. i - 1 \in Nat /\ (i - 1) + 1 = i /\ (i - 1) + 1 <= N
      BY <1>0
    <3> QED
      BY <2>3, <3>1 DEF S
  <2> QED
    BY <2>4
<1>9. r \in [DOMAIN Tiers -> V]
  <2>1. r = [i \in 1..N |-> r[i]]
    BY <1>0, <1>6
  <2> QED
    BY <1>0, <1>8, <2>1
<1> QED
  BY <1>1, <1>7, <1>9 DEF r, next, N

-----------------------------------------------------------------------------
(* The last values. *)

\* The rows of a tier that was rolled up, and then dropped, at some instant: the
\* finest has them all since then, a coarse one the last of each bucket.
Since(all, from) == [ts \in {u \in DOMAIN all : u >= from} |-> all[ts]]
IsLast(all, size, upTo, m) ==
    /\ m \in DOMAIN all /\ m <= upTo
    /\ \A ts \in DOMAIN all : (ts <= upTo /\ Bucket(ts, size) = Bucket(m, size)) => ts <= m
HoldsLast(rows, all, size, from, upTo) ==
    /\ \A b \in DOMAIN rows :
           b >= from /\ \E ts \in DOMAIN all : ts <= upTo /\ Bucket(ts, size) = b
    /\ \A m : (IsLast(all, size, upTo, m) /\ Bucket(m, size) >= from) =>
                  (Bucket(m, size) \in DOMAIN rows /\ rows[Bucket(m, size)] = all[m])

\* The same in the middle of a pass, when rows that are due to be dropped are still
\* there: from the first row on nothing is missing.
CaughtUpTo(rows, all, size, from, upTo) ==
    /\ \A b \in DOMAIN rows : \E ts \in DOMAIN all : Bucket(ts, size) = b
    /\ \A m : (IsLast(all, size, upTo, m)
               /\ (Bucket(m, size) >= from \/ \E u \in DOMAIN rows : u <= Bucket(m, size)))
                  => (Bucket(m, size) \in DOMAIN rows /\ rows[Bucket(m, size)] = all[m])

\* Rolled up from a finer tier that has caught up, a tier has caught up, if the rows
\* since the last pass lie within the window and the finer tier's retention.
LEMMA RollCatchesUp ==
    ASSUME NEW c \in Nat, NEW q \in Int, NEW all \in RowsUpTo(c),
           NEW fine \in RowsUpTo(c), NEW old \in RowsUpTo(c),
           NEW small \in Sizes, NEW size \in Sizes, size % small = 0,
           NEW fineFrom \in Int, NEW since \in Int, NEW oldFrom \in Int, NEW newFrom \in Int,
           oldFrom <= newFrom, since + small <= q + 2, fineFrom + small <= q + 2,
           CaughtUpTo(fine, all, small, fineFrom, c), HoldsLast(old, all, size, oldFrom, q)
    PROVE  CaughtUpTo(Over(LastPerBucket(fine, size, since), old), all, size, newFrom, c)
<1> DEFINE rolled == LastPerBucket(fine, size, since)
           new == Over(rolled, old)
<1>1. /\ \A ts \in DOMAIN all : ts \in Int /\ ts <= c
      /\ DOMAIN fine \in SUBSET Int /\ \A b \in DOMAIN old : b \in Int
  <2>1. \A ts \in DOMAIN all : ts \in 0..c
    BY RowsAre
  <2>2. DOMAIN fine \in SUBSET Int /\ DOMAIN old \in SUBSET Int
    BY RowsAre
  <2> QED
    BY <2>1, <2>2
<1>2. /\ DOMAIN rolled = {Bucket(ts, size) : ts \in {ts \in DOMAIN fine : ts >= since}}
      /\ \A m \in DOMAIN fine :
             /\ m >= since
             /\ \A ts \in DOMAIN fine :
                    (ts >= since /\ Bucket(ts, size) = Bucket(m, size)) => ts <= m
             => rolled[Bucket(m, size)] = fine[m]
  BY <1>1, LastIsKept
<1> HIDE DEF rolled
<1>3. DOMAIN new = DOMAIN rolled \cup DOMAIN old
      /\ \A b \in DOMAIN new : new[b] = IF b \in DOMAIN rolled THEN rolled[b] ELSE old[b]
  BY DEF Over
<1> HIDE DEF new
<1>4. ASSUME NEW v \in DOMAIN fine
      PROVE  \E ts \in DOMAIN all : Bucket(ts, small) = v /\ Bucket(v, size) = Bucket(ts, size)
  <2>1. PICK ts \in DOMAIN all : Bucket(ts, small) = v
    BY DEF CaughtUpTo
  <2> QED
    BY <1>1, <2>1, BucketOfBucket
<1>5. ASSUME NEW b \in DOMAIN new PROVE \E ts \in DOMAIN all : Bucket(ts, size) = b
  <2>1. CASE b \in DOMAIN old
    BY <2>1 DEF HoldsLast
  <2>2. CASE b \in DOMAIN rolled
    <3>1. PICK v \in DOMAIN fine : Bucket(v, size) = b
      BY <1>2, <2>2
    <3> QED
      BY <1>4, <3>1
  <2> QED
    BY <1>3, <2>1, <2>2
<1>6. ASSUME NEW m, IsLast(all, size, c, m),
             Bucket(m, size) >= newFrom \/ \E k \in DOMAIN new : k <= Bucket(m, size)
      PROVE  Bucket(m, size) \in DOMAIN new /\ new[Bucket(m, size)] = all[m]
  <2> DEFINE u == Bucket(m, small)
             b == Bucket(m, size)
  <2>1. m \in DOMAIN all /\ m \in Int /\ \A ts \in DOMAIN all : Bucket(ts, size) = b => ts <= m
    BY <1>1, <1>6 DEF IsLast
  <2>2. u \in Int /\ u <= m /\ m < u + small /\ b \in Int /\ Bucket(u, size) = b
    BY <2>1, BucketBounds, BucketOfBucket
  <2>3. IsLast(all, small, c, m)
    <3>1. ASSUME NEW ts \in DOMAIN all, Bucket(ts, small) = Bucket(m, small) PROVE ts <= m
      <4>1. Bucket(ts, size) = Bucket(Bucket(ts, small), size)
        BY <1>1, BucketOfBucket
      <4>2. Bucket(ts, size) = b
        BY <2>2, <3>1, <4>1
      <4> QED
        BY <2>1, <4>2
    <3> QED
      BY <1>1, <2>1, <3>1 DEF IsLast
  <2> HIDE DEF u, b
  <2>4. ASSUME NEW v \in DOMAIN fine, Bucket(v, size) = b PROVE v <= u
    <3>1. PICK ts \in DOMAIN all : Bucket(ts, small) = v /\ Bucket(v, size) = Bucket(ts, size)
      BY <1>4
    <3>2. ts \in Int /\ ts <= m
      BY <1>1, <2>1, <2>4, <3>1
    <3>3. Bucket(ts, small) <= Bucket(m, small)
      BY <2>1, <3>2, BucketMonotone
    <3> QED
      BY <3>1, <3>3 DEF u
  <2>5. ASSUME u >= since, u >= fineFrom \/ \E v \in DOMAIN fine : v <= u
        PROVE  b \in DOMAIN rolled /\ rolled[b] = all[m]
    <3>1. u \in DOMAIN fine /\ fine[u] = all[m]
      BY <2>3, <2>5 DEF CaughtUpTo, u
    <3>2. rolled[Bucket(u, size)] = fine[u]
      BY <1>2, <2>2, <2>4, <2>5, <3>1
    <3>3. Bucket(u, size) \in DOMAIN rolled
      BY <1>2, <2>5, <3>1
    <3> QED
      BY <2>2, <3>1, <3>2, <3>3
  <2>6. ASSUME NEW v \in DOMAIN fine, v >= since, v <= u
        PROVE  b \in DOMAIN rolled /\ rolled[b] = all[m]
    <3>1. v \in Int /\ u >= since
      BY <1>1, <2>2, <2>6
    <3> QED
      BY <2>5, <2>6, <3>1
  <2>7. ASSUME b \in DOMAIN rolled PROVE rolled[b] = all[m]
    <3>1. PICK v \in DOMAIN fine : v >= since /\ Bucket(v, size) = b
      BY <1>2, <2>7
    <3> QED
      BY <2>4, <2>6, <3>1
  <2>8. ASSUME b \notin DOMAIN rolled PROVE b \in DOMAIN old /\ old[b] = all[m]
    <3>1. m <= q
      <4>1. ASSUME m > q PROVE FALSE
        <5>1. u >= since /\ u >= fineFrom
          BY <2>1, <2>2, <4>1 DEF Sizes
        <5> QED
          BY <2>5, <2>8, <5>1
      <4> QED
        BY <2>1, <4>1
    <3>2. IsLast(all, size, q, m)
      BY <1>6, <2>1, <3>1 DEF IsLast, b
    <3>3. b >= oldFrom
      <4>1. CASE b >= newFrom
        BY <2>2, <4>1
      <4>2. ASSUME NEW k \in DOMAIN old, k <= b PROVE b >= oldFrom
        <5>1. k \in Int /\ k >= oldFrom
          BY <1>1 DEF HoldsLast
        <5> QED
          BY <2>2, <4>2, <5>1
      <4>3. ASSUME NEW k \in DOMAIN rolled, k <= b PROVE FALSE
        <5>1. PICK v \in DOMAIN fine : v >= since /\ Bucket(v, size) = k
          BY <1>2
        <5>2. v \in Int /\ k \in Int
          <6>1. v \in Int
            BY <1>1
          <6> QED
            BY <5>1, <6>1, BucketBounds
        <5>3. v <= u
          <6>1. ASSUME u <= v PROVE FALSE
            <7>1. Bucket(u, size) <= Bucket(v, size)
              BY <2>2, <5>2, <6>1, BucketMonotone
            <7>2. k = b
              BY <2>2, <4>3, <5>1, <5>2, <7>1
            <7> QED
              BY <2>8, <4>3, <7>2
          <6> QED
            BY <2>2, <5>2, <6>1
        <5> QED
          BY <2>6, <2>8, <5>1, <5>3
      <4> QED
        BY <1>3, <1>6, <4>1, <4>2, <4>3 DEF b
    <3> QED
      BY <3>2, <3>3 DEF HoldsLast, b
  <2>9. b \in DOMAIN new /\ new[b] = all[m]
    BY <1>3, <2>7, <2>8
  <2> QED
    BY <2>9 DEF b
<1> QED
  BY <1>5, <1>6 DEF CaughtUpTo, new, rolled

LEMMA SinceType ==
    ASSUME NEW c, NEW rows \in RowsUpTo(c), NEW from
    PROVE  Since(rows, from) \in RowsUpTo(c)
<1>1. DOMAIN rows \in SUBSET (0..c) /\ \A ts \in DOMAIN rows : rows[ts] \in Int
  BY RowsAre
<1> DEFINE S == {u \in DOMAIN rows : u >= from}
<1>2. S \in SUBSET (0..c) /\ \A ts \in S : rows[ts] \in Int
  BY <1>1
<1>3. Since(rows, from) = [ts \in S |-> rows[ts]]
  BY DEF Since
<1> HIDE DEF S
<1>4. [ts \in S |-> rows[ts]] \in [S -> Int]
  BY <1>2
<1> QED
  BY <1>2, <1>3, <1>4, RowsAgain

\* The windows and retentions of a tier and of the finer one reach behind the last pass.
LEMMA WindowsReach ==
    ASSUME NEW c \in Int, NEW q \in Int, c <= q + MaxSilence + 1, NEW i \in 2..Len(Tiers)
    PROVE  /\ i \in 1..Len(Tiers) /\ i - 1 \in 1..Len(Tiers)
           /\ Tiers[i].bucket \in Sizes /\ Tiers[i - 1].bucket \in Sizes
           /\ Tiers[i].bucket % Tiers[i - 1].bucket = 0
           /\ Tiers[i].retain \in Nat /\ Tiers[i - 1].retain \in Nat
           /\ Window[i] \in Nat /\ GaugeWindow[i] \in Nat
           /\ (c - Window[i]) + Tiers[i - 1].bucket <= q + 2
           /\ (c - Tiers[i - 1].retain) + Tiers[i - 1].bucket <= q + 2
           /\ c - GaugeWindow[i] <= q + 1
           /\ GaugeWindow[i] + Tiers[i].bucket <= Tiers[i - 1].retain
<1>1. i \in 1..Len(Tiers) /\ i - 1 \in 1..Len(Tiers) /\ i \in DOMAIN Tiers
  BY TierSizes
<1> DEFINE size == Tiers[i].bucket
           small == Tiers[i - 1].bucket
           retain == Tiers[i - 1].retain
           window == Window[i]
           gaugeWindow == GaugeWindow[i]
<1>2. size \in Sizes /\ small \in Sizes /\ retain \in Nat /\ Tiers[i].retain \in Nat
  BY <1>1, TierSizes
<1>3. window \in Nat /\ gaugeWindow \in Nat /\ MaxSilence \in Nat
  BY <1>1, TiersAreSane
<1>4. /\ size % small = 0 /\ gaugeWindow + size <= retain
      /\ window >= MaxSilence + small - 1 /\ gaugeWindow >= MaxSilence
  BY TiersAreSane
<1> HIDE DEF size, small, retain, window, gaugeWindow
<1>5. small <= size
  BY <1>2, <1>4 DEF Sizes
<1>6. (c - window) + small <= q + 2 /\ c - gaugeWindow <= q + 1
  BY <1>2, <1>3, <1>4 DEF Sizes
<1>7. (c - retain) + small <= q + 2
  BY <1>2, <1>3, <1>4, <1>5 DEF Sizes
<1> QED
  BY <1>1, <1>2, <1>3, <1>4, <1>6, <1>7 DEF size, small, retain, window, gaugeWindow

LEMMA FinestCaughtUp ==
    ASSUME NEW c \in Nat, NEW q \in Int, q <= c, NEW all \in RowsUpTo(c), NEW retain \in Nat
    PROVE  CaughtUpTo(Since(all, q - retain), all, 1, c - retain, c)
<1> DEFINE rows == Since(all, q - retain)
<1>1. \A ts \in DOMAIN all : ts \in Int /\ Bucket(ts, 1) = ts
  BY RowsAre, BucketOfOne
<1>2. DOMAIN rows = {u \in DOMAIN all : u >= q - retain} /\ \A u \in DOMAIN rows : rows[u] = all[u]
  BY DEF Since
<1> HIDE DEF rows
<1>3. ASSUME NEW m, IsLast(all, 1, c, m), Bucket(m, 1) >= c - retain \/ \E u \in DOMAIN rows : u <= Bucket(m, 1)
      PROVE  Bucket(m, 1) \in DOMAIN rows /\ rows[Bucket(m, 1)] = all[m]
  <2>1. m \in DOMAIN all /\ m \in Int /\ Bucket(m, 1) = m
    BY <1>1, <1>3 DEF IsLast
  <2>2. m >= q - retain
    <3>1. CASE m >= c - retain
      BY <2>1, <3>1
    <3>2. ASSUME NEW u \in DOMAIN rows, u <= m PROVE m >= q - retain
      <4>1. u \in Int /\ u >= q - retain
        BY <1>1, <1>2
      <4> QED
        BY <2>1, <3>2, <4>1
    <3> QED
      BY <1>3, <2>1, <3>1, <3>2
  <2> QED
    BY <1>2, <2>1, <2>2
<1> QED
  BY <1>1, <1>2, <1>3 DEF CaughtUpTo, rows

\* What is due is dropped, no more.
LEMMA DropHolds ==
    ASSUME NEW c \in Nat, NEW all \in RowsUpTo(c), NEW rows, NEW size, NEW from,
           CaughtUpTo(rows, all, size, from, c)
    PROVE  HoldsLast(Since(rows, from), all, size, from, c)
<1> DEFINE held == Since(rows, from)
<1>1. DOMAIN held = {u \in DOMAIN rows : u >= from} /\ \A u \in DOMAIN held : held[u] = rows[u]
  BY DEF Since
<1> HIDE DEF held
<1>2. \A ts \in DOMAIN all : ts <= c
  <2>1. \A ts \in DOMAIN all : ts \in 0..c
    BY RowsAre
  <2> QED
    BY <2>1
<1>3. ASSUME NEW b \in DOMAIN held
      PROVE  b >= from /\ \E ts \in DOMAIN all : ts <= c /\ Bucket(ts, size) = b
  BY <1>1, <1>2 DEF CaughtUpTo
<1>4. ASSUME NEW m, IsLast(all, size, c, m), Bucket(m, size) >= from
      PROVE  Bucket(m, size) \in DOMAIN held /\ held[Bucket(m, size)] = all[m]
  <2>1. Bucket(m, size) \in DOMAIN rows /\ rows[Bucket(m, size)] = all[m]
    BY <1>4 DEF CaughtUpTo
  <2> QED
    BY <1>1, <1>4, <2>1
<1> QED
  BY <1>3, <1>4 DEF HoldsLast, held

LEMMA SinceTwice ==
    ASSUME NEW c, NEW all \in RowsUpTo(c), NEW early \in Int, NEW late \in Int, early <= late
    PROVE  Since(Since(all, early), late) = Since(all, late)
<1>1. \A ts \in DOMAIN all : ts \in Int
  BY RowsAre
<1> DEFINE rows == Since(all, early)
<1>2. DOMAIN rows = {u \in DOMAIN all : u >= early} /\ \A u \in DOMAIN rows : rows[u] = all[u]
  BY DEF Since
<1> HIDE DEF rows
<1>3. {u \in DOMAIN rows : u >= late} = {u \in DOMAIN all : u >= late}
  BY <1>1, <1>2
<1>4. \A u \in {u \in DOMAIN all : u >= late} : rows[u] = all[u]
  BY <1>2, <1>3
<1>5. [ts \in {u \in DOMAIN rows : u >= late} |-> rows[ts]]
          = [ts \in {u \in DOMAIN all : u >= late} |-> all[ts]]
  BY <1>3, <1>4
<1> QED
  BY <1>5 DEF Since, rows

\* What the tiers of a series hold since the pass at q.
TiersHold(tiers, all, q) ==
    /\ tiers[Finest] = Since(all, q - Tiers[Finest].retain)
    /\ \A i \in 2..Coarsest :
           HoldsLast(tiers[i], all, Tiers[i].bucket, q - Tiers[i].retain, q)

LEMMA RolledUpType ==
    ASSUME clock \in Nat, NEW kind, NEW tiers \in [DOMAIN Tiers -> RowsUpTo(clock)],
           NEW window \in [DOMAIN Tiers -> Nat]
    PROVE  IsChain(RolledUp(kind, tiers, window), RowsUpTo(clock), kind, tiers, window)
<1> DEFINE V == RowsUpTo(clock)
<1>1. tiers[1] \in V
  BY TierSizes
<1>2. ASSUME NEW i \in 2..Len(Tiers), NEW g \in V
      PROVE  RollInto(kind, tiers, window, i, g) \in V
  <2> DEFINE size == Tiers[i].bucket
             from == clock - window[i]
             rolled == Roll(kind, g, size, from)
  <2>1. i \in DOMAIN Tiers /\ size \in Sizes /\ from \in Int /\ tiers[i] \in V
    BY TierSizes
  <2> HIDE DEF size, from
  <2>2. rolled \in V
    BY <2>1, LastType, AverageType DEF Roll
  <2> HIDE DEF rolled, V
  <2>3. Over(rolled, tiers[i]) \in V
    BY <2>1, <2>2, OverType DEF V
  <2> QED
    BY <2>3 DEF rolled, size, from, RollInto
<1> HIDE DEF V
<1>3. IsChain(RolledUp(kind, tiers, window), V, kind, tiers, window)
  BY <1>1, <1>2, RolledUpIs
<1> QED
  BY <1>3 DEF V

LEMMA RolledUpCatchesUp ==
    ASSUME clock \in Nat, NEW q \in Int, q <= clock, clock <= q + MaxSilence + 1,
           NEW all \in RowsUpTo(clock), NEW tiers \in [DOMAIN Tiers -> RowsUpTo(clock)],
           TiersHold(tiers, all, q)
    PROVE  \A i \in 1..Len(Tiers) :
               CaughtUpTo(RolledUp("counter", tiers, Window)[i], all, Tiers[i].bucket,
                          clock - Tiers[i].retain, clock)
<1> DEFINE r == RolledUp("counter", tiers, Window)
           N == Len(Tiers)
           Claim(i) == CaughtUpTo(r[i], all, Tiers[i].bucket, clock - Tiers[i].retain, clock)
           S == {n \in Nat : n + 1 <= N => Claim(n + 1)}
<1>0. N \in Nat /\ 1 <= N /\ DOMAIN Tiers = 1..N /\ Finest = 1 /\ Coarsest = N
      /\ Tiers[1].retain \in Nat /\ Tiers[1].bucket = 1
  BY TierSizes, TiersAreSane
<1>1. IsChain(r, RowsUpTo(clock), "counter", tiers, Window)
  <2>1. Window \in [DOMAIN Tiers -> Nat]
    BY TiersAreSane
  <2> QED
    BY <2>1, RolledUpType
<1> HIDE DEF r
<1>2. Claim(1)
  <2>1. r[1] = Since(all, q - Tiers[1].retain)
    BY <1>0, <1>1 DEF TiersHold, IsChain
  <2> QED
    BY <1>0, <2>1, FinestCaughtUp
<1>3. ASSUME NEW i \in 2..N, Claim(i - 1) PROVE Claim(i)
  <2>1. /\ i \in 1..N /\ i - 1 \in 1..N
        /\ Tiers[i].bucket \in Sizes /\ Tiers[i - 1].bucket \in Sizes
        /\ Tiers[i].bucket % Tiers[i - 1].bucket = 0
        /\ Tiers[i].retain \in Nat /\ Tiers[i - 1].retain \in Nat /\ Window[i] \in Nat
        /\ (clock - Window[i]) + Tiers[i - 1].bucket <= q + 2
        /\ (clock - Tiers[i - 1].retain) + Tiers[i - 1].bucket <= q + 2
    <3>1. clock \in Int /\ q \in Int /\ clock <= q + MaxSilence + 1 /\ i \in 2..Len(Tiers)
      OBVIOUS
    <3> QED
      BY ONLY <3>1, WindowsReach
  <2>2. HoldsLast(tiers[i], all, Tiers[i].bucket, q - Tiers[i].retain, q)
    BY <1>0 DEF TiersHold
  <2>3. r[i - 1] \in RowsUpTo(clock) /\ tiers[i] \in RowsUpTo(clock)
    BY <1>0, <1>1, <2>1 DEF IsChain
  <2>4. r[i] = Over(LastPerBucket(r[i - 1], Tiers[i].bucket, clock - Window[i]), tiers[i])
    BY <1>1 DEF Roll, RollInto, IsChain
  <2> DEFINE size == Tiers[i].bucket
             small == Tiers[i - 1].bucket
             fineFrom == clock - Tiers[i - 1].retain
             since == clock - Window[i]
             oldFrom == q - Tiers[i].retain
             newFrom == clock - Tiers[i].retain
             fine == r[i - 1]
             old == tiers[i]
  <2>5. fineFrom \in Int /\ since \in Int /\ oldFrom \in Int /\ newFrom \in Int
        /\ oldFrom <= newFrom /\ since + small <= q + 2 /\ fineFrom + small <= q + 2
    <3> DEFINE coarse == Tiers[i].retain
               fineRetain == Tiers[i - 1].retain
               window == Window[i]
    <3>1. /\ coarse \in Nat /\ fineRetain \in Nat /\ window \in Nat /\ small \in Sizes
          /\ (clock - window) + small <= q + 2 /\ (clock - fineRetain) + small <= q + 2
      BY ONLY <2>1
    <3>2. fineFrom = clock - fineRetain /\ since = clock - window
          /\ oldFrom = q - coarse /\ newFrom = clock - coarse
      BY ONLY <3>1
    <3> HIDE DEF fineFrom, since, oldFrom, newFrom, coarse, fineRetain, window, small
    <3> QED
      BY <3>1, <3>2 DEF Sizes
  <2>6. size \in Sizes /\ small \in Sizes /\ size % small = 0
    BY <2>1
  <2>7. CaughtUpTo(fine, all, small, fineFrom, clock) /\ HoldsLast(old, all, size, oldFrom, q)
    BY <1>3, <2>2
  <2>8. fine \in RowsUpTo(clock) /\ old \in RowsUpTo(clock)
    BY <2>3
  <2> HIDE DEF size, small, fineFrom, since, oldFrom, newFrom, fine, old
  <2>9. CaughtUpTo(Over(LastPerBucket(fine, size, since), old), all, size, newFrom, clock)
    BY <2>5, <2>6, <2>7, <2>8, RollCatchesUp
  <2> QED
    BY <2>4, <2>9 DEF size, small, fineFrom, since, oldFrom, newFrom, fine, old
<1> HIDE DEF Claim
<1>4. 0 \in S
  BY <1>2
<1>5. ASSUME NEW n \in Nat, n \in S PROVE n + 1 \in S
  <2> SUFFICES ASSUME n + 1 + 1 <= N PROVE Claim(n + 1 + 1)
    OBVIOUS
  <2>1. n + 1 <= N /\ n + 1 + 1 \in 2..N /\ (n + 1 + 1) - 1 = n + 1
    BY <1>0
  <2>2. Claim(n + 1)
    BY <1>5, <2>1
  <2> QED
    BY <1>3, <2>1, <2>2
<1> HIDE DEF S
<1>6. Nat \subseteq S
  BY <1>4, <1>5, NaturalInduction
<1>7. ASSUME NEW i \in 1..N PROVE Claim(i)
  <2>1. i - 1 \in Nat /\ (i - 1) + 1 = i /\ (i - 1) + 1 <= N
    BY <1>0
  <2> QED
    BY <1>6, <2>1 DEF S
<1> QED
  BY <1>7 DEF Claim, N, r

\* A pass rolls everything up before it drops anything.
LEMMA PassHolds ==
    ASSUME clock \in Nat, NEW q \in Int, q <= clock, clock <= q + MaxSilence + 1,
           NEW all \in RowsUpTo(clock), NEW tiers \in [DOMAIN Tiers -> RowsUpTo(clock)],
           TiersHold(tiers, all, q)
    PROVE  /\ Retained(RolledUp("counter", tiers, Window)) \in [DOMAIN Tiers -> RowsUpTo(clock)]
           /\ TiersHold(Retained(RolledUp("counter", tiers, Window)), all, clock)
<1> DEFINE r == RolledUp("counter", tiers, Window)
<1>0. DOMAIN Tiers = 1..Len(Tiers) /\ Finest = 1 /\ Coarsest = Len(Tiers) /\ Len(Tiers) >= 1
      /\ Len(Tiers) \in Nat /\ Tiers[1].retain \in Nat
  BY TierSizes
<1>1. r \in [DOMAIN Tiers -> RowsUpTo(clock)] /\ r[1] = tiers[1]
  <2>1. Window \in [DOMAIN Tiers -> Nat]
    BY TiersAreSane
  <2>2. IsChain(r, RowsUpTo(clock), "counter", tiers, Window)
    BY <2>1, RolledUpType
  <2> QED
    BY <2>2 DEF IsChain
<1>2. \A i \in 1..Len(Tiers) :
          CaughtUpTo(r[i], all, Tiers[i].bucket, clock - Tiers[i].retain, clock)
  BY RolledUpCatchesUp
<1> HIDE DEF r
<1>3. Retained(r) = [i \in DOMAIN Tiers |-> Since(r[i], clock - Tiers[i].retain)]
  BY DEF Retained, Since
<1>4. Retained(r) \in [DOMAIN Tiers -> RowsUpTo(clock)]
  <2>1. \A i \in DOMAIN Tiers : Since(r[i], clock - Tiers[i].retain) \in RowsUpTo(clock)
    BY <1>1, SinceType
  <2> QED
    BY <1>3, <2>1
<1>5. Retained(r)[1] = Since(all, clock - Tiers[1].retain)
  <2>1. r[1] = Since(all, q - Tiers[1].retain)
    BY <1>0, <1>1 DEF TiersHold
  <2>2. q - Tiers[1].retain \in Int /\ clock - Tiers[1].retain \in Int
        /\ q - Tiers[1].retain <= clock - Tiers[1].retain
    BY <1>0
  <2>3. Since(Since(all, q - Tiers[1].retain), clock - Tiers[1].retain)
            = Since(all, clock - Tiers[1].retain)
    BY <2>2, SinceTwice
  <2> QED
    BY <1>0, <1>3, <2>1, <2>3
<1>6. ASSUME NEW i \in 2..Len(Tiers)
      PROVE  HoldsLast(Retained(r)[i], all, Tiers[i].bucket, clock - Tiers[i].retain, clock)
  <2>1. i \in 1..Len(Tiers)
    BY <1>0
  <2>2. HoldsLast(Since(r[i], clock - Tiers[i].retain), all, Tiers[i].bucket,
                  clock - Tiers[i].retain, clock)
    BY <1>2, <2>1, DropHolds
  <2> QED
    BY <1>0, <1>3, <2>1, <2>2
<1> QED
  BY <1>0, <1>4, <1>5, <1>6 DEF TiersHold, r

-----------------------------------------------------------------------------
(* The averages. *)

Mean(rows, S) == SumOf([ts \in S |-> rows[ts]]) \div Cardinality(S)
InBucket(rows, size, b) == {ts \in DOMAIN rows : Bucket(ts, size) = b}
Aligned(rows, size) == \A ts \in DOMAIN rows : Bucket(ts, size) = ts

\* A tier of gauges has the rows of all buckets that were over at the last pass and
\* are to be kept, as they would be if nothing was ever dropped.
HoldsWhole(rows, whole, size, from, upTo) ==
    /\ DOMAIN rows \subseteq DOMAIN whole
    /\ \A b \in DOMAIN whole :
           (b + size <= upTo + 1 /\ b >= from) => (b \in DOMAIN rows /\ rows[b] = whole[b])

LEMMA BucketTwice ==
    ASSUME NEW ts \in Int, NEW size \in Sizes
    PROVE  Bucket(Bucket(ts, size), size) = Bucket(ts, size)
<1>1. size % size = 0
  BY DEF Sizes
<1> QED
  BY <1>1, BucketOfBucket

\* A floored cutoff takes a bucket whole or not at all.
LEMMA AverageIs ==
    ASSUME NEW rows, DOMAIN rows \in SUBSET Int, NEW size \in Sizes, NEW from \in Int
    PROVE  /\ DOMAIN AveragePerBucket(rows, size, from) =
                  {Bucket(ts, size) : ts \in {u \in DOMAIN rows :
                                                 Bucket(u, size) >= Bucket(from, size)}}
           /\ \A b \in DOMAIN AveragePerBucket(rows, size, from) :
                  AveragePerBucket(rows, size, from)[b] = Mean(rows, InBucket(rows, size, b))
<1> DEFINE cutoff == Bucket(from, size)
           recent == {ts \in DOMAIN rows : ts >= cutoff}
           in(b) == {ts \in recent : Bucket(ts, size) = b}
<1>1. AveragePerBucket(rows, size, from)
          = [b \in {Bucket(ts, size) : ts \in recent} |-> Mean(rows, in(b))]
  BY DEF AveragePerBucket, Mean
<1>2. cutoff \in Int /\ Bucket(cutoff, size) = cutoff
  BY BucketBounds, BucketTwice
<1> HIDE DEF cutoff
<1>3. ASSUME NEW ts \in DOMAIN rows PROVE ts >= cutoff <=> Bucket(ts, size) >= cutoff
  <2>1. ts \in Int /\ Bucket(ts, size) \in Int /\ Bucket(ts, size) <= ts
    <3>1. ts \in Int
      OBVIOUS
    <3> QED
      BY <3>1, BucketBounds
  <2>2. ASSUME cutoff <= ts PROVE Bucket(cutoff, size) <= Bucket(ts, size)
    BY <1>2, <2>1, <2>2, BucketMonotone
  <2> QED
    BY <1>2, <2>1, <2>2
<1>4. recent = {u \in DOMAIN rows : Bucket(u, size) >= cutoff}
  BY <1>3
<1>5. ASSUME NEW b \in {Bucket(ts, size) : ts \in recent} PROVE in(b) = InBucket(rows, size, b)
  BY <1>4 DEF InBucket
<1> HIDE DEF in
<1>6. \A b \in {Bucket(ts, size) : ts \in recent} :
          AveragePerBucket(rows, size, from)[b] = Mean(rows, InBucket(rows, size, b))
  BY <1>1, <1>5
<1> QED
  BY <1>1, <1>4, <1>6 DEF cutoff

LEMMA WholeAverageIs ==
    ASSUME NEW c \in Nat, NEW rows \in RowsUpTo(c), NEW size \in Sizes
    PROVE  /\ DOMAIN AveragePerBucket(rows, size, 0) = {Bucket(ts, size) : ts \in DOMAIN rows}
           /\ \A b \in DOMAIN AveragePerBucket(rows, size, 0) :
                  AveragePerBucket(rows, size, 0)[b] = Mean(rows, InBucket(rows, size, b))
<1>1. DOMAIN rows \in SUBSET Int /\ \A ts \in DOMAIN rows : ts \in 0..c
  BY RowsAre
<1>2. Bucket(0, size) = 0
  <2>1. 0 \in Int /\ 0 * size <= 0 /\ 0 < 0 * size + size /\ 0 * size = 0
    BY DEF Sizes
  <2> QED
    BY <2>1, BucketIs
<1>3. \A ts \in DOMAIN rows : Bucket(ts, size) >= Bucket(0, size)
  <2>1. ASSUME NEW ts \in DOMAIN rows PROVE Bucket(ts, size) >= 0
    <3>1. ts \in Int /\ ts \in Nat
      BY <1>1
    <3>2. Bucket(ts, size) \in Nat
      BY <3>1, BucketBounds
    <3> QED
      BY <3>2
  <2> QED
    BY <1>2, <2>1
<1>4. {u \in DOMAIN rows : Bucket(u, size) >= Bucket(0, size)} = DOMAIN rows
  BY <1>3
<1> DEFINE from == 0
<1>5. from \in Int
  OBVIOUS
<1>6. {u \in DOMAIN rows : Bucket(u, size) >= Bucket(from, size)} = DOMAIN rows
  BY <1>4
<1> HIDE DEF from
<1>7. /\ DOMAIN AveragePerBucket(rows, size, from) = {Bucket(ts, size) : ts \in DOMAIN rows}
      /\ \A b \in DOMAIN AveragePerBucket(rows, size, from) :
             AveragePerBucket(rows, size, from)[b] = Mean(rows, InBucket(rows, size, b))
  BY <1>1, <1>5, <1>6, AverageIs
<1> QED
  BY <1>7 DEF from

LEMMA MeansAgree ==
    ASSUME NEW few, NEW many, NEW S, \A ts \in S : few[ts] = many[ts]
    PROVE  Mean(few, S) = Mean(many, S)
<1>1. [ts \in S |-> few[ts]] = [ts \in S |-> many[ts]]
  OBVIOUS
<1> QED
  BY <1>1 DEF Mean

\* Rolled up from a finer tier that has the rows of all that is over, a tier has the
\* averages of all that is over, if the cutoff lies behind the last pass and a bucket
\* at it within the finer tier's retention.
LEMMA RollAverages ==
    ASSUME NEW c \in Nat, NEW q \in Int, NEW fine \in RowsUpTo(c), NEW old \in RowsUpTo(c),
           NEW wholeFine \in RowsUpTo(c),
           NEW small \in Sizes, NEW size \in Sizes, size % small = 0,
           NEW fineFrom \in Int, NEW since \in Int, NEW oldFrom \in Int, NEW newFrom \in Int,
           oldFrom <= newFrom, fineFrom + size <= since, since <= q + 1,
           Aligned(wholeFine, small), HoldsWhole(fine, wholeFine, small, fineFrom, c),
           HoldsWhole(old, AveragePerBucket(wholeFine, size, 0), size, oldFrom, q)
    PROVE  HoldsWhole(Over(AveragePerBucket(fine, size, since), old),
                      AveragePerBucket(wholeFine, size, 0), size, newFrom, c)
<1> DEFINE rolled == AveragePerBucket(fine, size, since)
           whole == AveragePerBucket(wholeFine, size, 0)
           new == Over(rolled, old)
           cutoff == Bucket(since, size)
<1>1. DOMAIN fine \in SUBSET Int /\ DOMAIN wholeFine \in SUBSET Int /\ DOMAIN old \in SUBSET Int
      /\ DOMAIN fine \subseteq DOMAIN wholeFine
  <2>1. DOMAIN fine \subseteq DOMAIN wholeFine
    BY DEF HoldsWhole
  <2> QED
    BY <2>1, RowsAre
<1>2. /\ DOMAIN rolled = {Bucket(ts, size) : ts \in {u \in DOMAIN fine :
                                                        Bucket(u, size) >= cutoff}}
      /\ \A b \in DOMAIN rolled : rolled[b] = Mean(fine, InBucket(fine, size, b))
  BY <1>1, AverageIs
<1>3. /\ DOMAIN whole = {Bucket(ts, size) : ts \in DOMAIN wholeFine}
      /\ \A b \in DOMAIN whole : whole[b] = Mean(wholeFine, InBucket(wholeFine, size, b))
  BY WholeAverageIs
<1>4. cutoff \in Int /\ cutoff <= since /\ since < cutoff + size
  BY BucketBounds
<1>5. HoldsWhole(old, whole, size, oldFrom, q)
  OBVIOUS
<1> HIDE DEF rolled, whole, cutoff
<1>6. DOMAIN new = DOMAIN rolled \cup DOMAIN old
      /\ \A b \in DOMAIN new : new[b] = IF b \in DOMAIN rolled THEN rolled[b] ELSE old[b]
  BY DEF Over
<1> HIDE DEF new
<1>7. DOMAIN new \subseteq DOMAIN whole
  <2>1. DOMAIN rolled \subseteq DOMAIN whole
    BY <1>1, <1>2, <1>3
  <2>2. DOMAIN old \subseteq DOMAIN whole
    BY <1>5 DEF HoldsWhole
  <2> QED
    BY <1>6, <2>1, <2>2
<1>8. ASSUME NEW b \in DOMAIN whole, b + size <= c + 1, b >= newFrom
      PROVE  b \in DOMAIN new /\ new[b] = whole[b]
  <2>1. PICK v \in DOMAIN wholeFine : Bucket(v, size) = b
    BY <1>3
  <2>2. v \in Int /\ b \in Int
    <3>1. v \in Int
      BY <1>1
    <3> QED
      BY <2>1, <3>1, BucketBounds
  <2>3. CASE b >= cutoff
    <3>1. ASSUME NEW u \in DOMAIN wholeFine, Bucket(u, size) = b
          PROVE  u \in DOMAIN fine /\ fine[u] = wholeFine[u]
      <4>1. u \in Int /\ Bucket(u, small) = u
        BY <1>1 DEF Aligned
      <4>2. u + small <= b + size
        BY <3>1, <4>1, BucketOfBucket
      <4>3. b <= u
        BY <3>1, <4>1, BucketBounds
      <4>4. u + small <= c + 1 /\ u >= fineFrom
        BY <1>4, <1>8, <2>2, <2>3, <4>1, <4>2, <4>3 DEF Sizes
      <4> QED
        BY <4>4 DEF HoldsWhole
    <3>2. InBucket(fine, size, b) = InBucket(wholeFine, size, b)
      BY <1>1, <3>1 DEF InBucket
    <3>3. \A u \in InBucket(wholeFine, size, b) : fine[u] = wholeFine[u]
      BY <3>1 DEF InBucket
    <3>4. Mean(fine, InBucket(wholeFine, size, b)) = Mean(wholeFine, InBucket(wholeFine, size, b))
      BY <3>3, MeansAgree
    <3>5. b \in DOMAIN rolled
      BY <1>2, <2>1, <2>3, <3>1
    <3> QED
      BY <1>2, <1>3, <1>6, <3>2, <3>4, <3>5
  <2>4. CASE ~(b >= cutoff)
    <3>1. b + size <= cutoff
      <4>1. Bucket(v, size) < Bucket(since, size)
        BY <1>4, <2>1, <2>2, <2>4 DEF cutoff
      <4> QED
        BY <2>1, <2>2, <4>1, BucketsApart DEF cutoff
    <3>2. b + size <= q + 1 /\ b >= oldFrom
      BY <1>4, <1>8, <2>2, <3>1 DEF Sizes
    <3>3. b \in DOMAIN old /\ old[b] = whole[b]
      BY <1>5, <3>2 DEF HoldsWhole
    <3>4. b \notin DOMAIN rolled
      BY <1>2, <2>4
    <3> QED
      BY <1>6, <3>3, <3>4
  <2> QED
    BY <2>3, <2>4
<1> QED
  BY <1>7, <1>8 DEF HoldsWhole, new, whole, rolled

LEMMA FinestHoldsWhole ==
    ASSUME NEW c \in Nat, NEW q \in Int, q <= c, NEW all \in RowsUpTo(c), NEW retain \in Nat
    PROVE  HoldsWhole(Since(all, q - retain), all, 1, c - retain, c)
<1> DEFINE rows == Since(all, q - retain)
<1>1. \A ts \in DOMAIN all : ts \in Int
  BY RowsAre
<1>2. DOMAIN rows = {u \in DOMAIN all : u >= q - retain} /\ \A u \in DOMAIN rows : rows[u] = all[u]
  BY DEF Since
<1> HIDE DEF rows
<1>3. ASSUME NEW b \in DOMAIN all, b >= c - retain PROVE b \in DOMAIN rows /\ rows[b] = all[b]
  <2>1. b \in Int /\ b >= q - retain
    BY <1>1, <1>3
  <2> QED
    BY <1>2, <2>1
<1> QED
  BY <1>2, <1>3 DEF HoldsWhole, rows

LEMMA DropHoldsWhole ==
    ASSUME NEW rows, NEW whole, NEW size, NEW from, NEW upTo,
           HoldsWhole(rows, whole, size, from, upTo)
    PROVE  HoldsWhole(Since(rows, from), whole, size, from, upTo)
<1> DEFINE held == Since(rows, from)
<1>1. DOMAIN held = {u \in DOMAIN rows : u >= from} /\ \A u \in DOMAIN held : held[u] = rows[u]
  BY DEF Since
<1> HIDE DEF held
<1> QED
  BY <1>1 DEF HoldsWhole, held

\* The averages of all rows, tier by tier.
LEMMA WholeType ==
    ASSUME NEW c \in Nat, NEW all \in RowsUpTo(c)
    PROVE  /\ WholeAverages(all) \in [DOMAIN Tiers -> RowsUpTo(c)]
           /\ WholeAverages(all)[1] = all
           /\ \A i \in 2..Len(Tiers) :
                  WholeAverages(all)[i] =
                      AveragePerBucket(WholeAverages(all)[i - 1], Tiers[i].bucket, 0)
<1> DEFINE V == RowsUpTo(c)
<1>1. ASSUME NEW i \in 2..Len(Tiers), NEW g \in V
      PROVE  AveragePerBucket(g, Tiers[i].bucket, 0) \in V
  <2> DEFINE size == Tiers[i].bucket
             from == 0
  <2>1. size \in Sizes /\ from \in Int
    BY TierSizes
  <2> HIDE DEF size, from
  <2>2. AveragePerBucket(g, size, from) \in V
    BY <2>1, AverageType
  <2> QED
    BY <2>2 DEF size, from
<1>2. all \in V
  OBVIOUS
<1> HIDE DEF V
<1> QED
  BY <1>1, <1>2, WholeIs DEF V

LEMMA WholeAligned ==
    ASSUME NEW c \in Nat, NEW all \in RowsUpTo(c), NEW i \in 1..Len(Tiers)
    PROVE  Aligned(WholeAverages(all)[i], Tiers[i].bucket)
<1> DEFINE W == WholeAverages(all)
<1>1. W \in [DOMAIN Tiers -> RowsUpTo(c)] /\ W[1] = all
  BY WholeType
<1>2. \A k \in 2..Len(Tiers) : W[k] = AveragePerBucket(W[k - 1], Tiers[k].bucket, 0)
  BY WholeType
<1>3. DOMAIN Tiers = 1..Len(Tiers) /\ Len(Tiers) \in Nat
  BY TierSizes
<1> HIDE DEF W
<1>4. CASE i = 1
  <2>1. \A ts \in DOMAIN all : ts \in Int
    BY RowsAre
  <2>2. Tiers[1].bucket = 1
    BY TiersAreSane
  <2> QED
    BY <1>1, <1>4, <2>1, <2>2, BucketOfOne DEF Aligned, W
<1>5. CASE i # 1
  <2>1. i \in 2..Len(Tiers) /\ i - 1 \in DOMAIN Tiers /\ i \in 1..Len(Tiers)
    BY <1>3, <1>5
  <2> DEFINE fine == W[i - 1]
             size == Tiers[i].bucket
             rows == AveragePerBucket(fine, size, 0)
  <2>2. fine \in RowsUpTo(c) /\ size \in Sizes
    BY <1>1, <2>1, TierSizes
  <2>3. W[i] = rows
    BY <1>2, <2>1
  <2> HIDE DEF fine, size
  <2>4. DOMAIN rows = {Bucket(ts, size) : ts \in DOMAIN fine}
    BY <2>2, WholeAverageIs
  <2>5. \A ts \in DOMAIN fine : ts \in Int
    BY <2>2, RowsAre
  <2>6. \A b \in DOMAIN rows : Bucket(b, size) = b
    BY <2>2, <2>4, <2>5, BucketTwice
  <2> QED
    BY <2>3, <2>6 DEF Aligned, size, W
<1> QED
  BY <1>4, <1>5

\* What the tiers of a gauge hold since the pass at q.
GaugesHold(tiers, all, q) ==
    /\ tiers[Finest] = Since(all, q - Tiers[Finest].retain)
    /\ \A i \in 2..Coarsest :
           HoldsWhole(tiers[i], WholeAverages(all)[i], Tiers[i].bucket, q - Tiers[i].retain, q)

LEMMA RolledUpAverages ==
    ASSUME clock \in Nat, NEW q \in Int, q <= clock, clock <= q + MaxSilence + 1,
           NEW all \in RowsUpTo(clock), NEW tiers \in [DOMAIN Tiers -> RowsUpTo(clock)],
           GaugesHold(tiers, all, q)
    PROVE  \A i \in 1..Len(Tiers) :
               HoldsWhole(RolledUp("gauge", tiers, GaugeWindow)[i], WholeAverages(all)[i],
                          Tiers[i].bucket, clock - Tiers[i].retain, clock)
<1> DEFINE r == RolledUp("gauge", tiers, GaugeWindow)
           W == WholeAverages(all)
           N == Len(Tiers)
           Claim(i) == HoldsWhole(r[i], W[i], Tiers[i].bucket, clock - Tiers[i].retain, clock)
           S == {n \in Nat : n + 1 <= N => Claim(n + 1)}
<1>0. N \in Nat /\ 1 <= N /\ DOMAIN Tiers = 1..N /\ Finest = 1 /\ Coarsest = N
      /\ Tiers[1].retain \in Nat /\ Tiers[1].bucket = 1
  BY TierSizes, TiersAreSane
<1>1. IsChain(r, RowsUpTo(clock), "gauge", tiers, GaugeWindow)
  <2>1. GaugeWindow \in [DOMAIN Tiers -> Nat]
    BY TiersAreSane
  <2> QED
    BY <2>1, RolledUpType
<1>a. /\ W \in [DOMAIN Tiers -> RowsUpTo(clock)] /\ W[1] = all
      /\ \A i \in 2..N : W[i] = AveragePerBucket(W[i - 1], Tiers[i].bucket, 0)
  BY WholeType
<1>b. \A i \in 1..N : Aligned(W[i], Tiers[i].bucket)
  BY WholeAligned
<1>c. GaugesHold(tiers, all, q) => \A i \in 2..N :
          HoldsWhole(tiers[i], W[i], Tiers[i].bucket, q - Tiers[i].retain, q)
  BY <1>0 DEF GaugesHold
<1> HIDE DEF r, W
<1>2. Claim(1)
  <2>1. r[1] = Since(all, q - Tiers[1].retain)
    BY <1>0, <1>1 DEF GaugesHold, IsChain
  <2>2. HoldsWhole(Since(all, q - Tiers[1].retain), all, 1, clock - Tiers[1].retain, clock)
    BY <1>0, FinestHoldsWhole
  <2> QED
    BY <1>0, <1>a, <2>1, <2>2
<1>3. ASSUME NEW i \in 2..N, Claim(i - 1) PROVE Claim(i)
  <2>1. /\ i \in 1..N /\ i - 1 \in 1..N
        /\ Tiers[i].bucket \in Sizes /\ Tiers[i - 1].bucket \in Sizes
        /\ Tiers[i].bucket % Tiers[i - 1].bucket = 0
        /\ Tiers[i].retain \in Nat /\ Tiers[i - 1].retain \in Nat /\ GaugeWindow[i] \in Nat
        /\ clock - GaugeWindow[i] <= q + 1
        /\ GaugeWindow[i] + Tiers[i].bucket <= Tiers[i - 1].retain
    <3>1. clock \in Int /\ q \in Int /\ clock <= q + MaxSilence + 1 /\ i \in 2..Len(Tiers)
      OBVIOUS
    <3> QED
      BY ONLY <3>1, WindowsReach
  <2>2. HoldsWhole(tiers[i], W[i], Tiers[i].bucket, q - Tiers[i].retain, q)
    BY <1>c
  <2>3. /\ r[i - 1] \in RowsUpTo(clock) /\ tiers[i] \in RowsUpTo(clock)
        /\ W[i - 1] \in RowsUpTo(clock)
    BY <1>0, <1>1, <1>a, <2>1 DEF IsChain
  <2>4. r[i] = Over(AveragePerBucket(r[i - 1], Tiers[i].bucket, clock - GaugeWindow[i]), tiers[i])
    BY <1>1 DEF Roll, RollInto, IsChain
  <2>a. W[i] = AveragePerBucket(W[i - 1], Tiers[i].bucket, 0)
    BY <1>a
  <2> DEFINE size == Tiers[i].bucket
             small == Tiers[i - 1].bucket
             fineFrom == clock - Tiers[i - 1].retain
             since == clock - GaugeWindow[i]
             oldFrom == q - Tiers[i].retain
             newFrom == clock - Tiers[i].retain
             fine == r[i - 1]
             old == tiers[i]
             wholeFine == W[i - 1]
  <2>5. fineFrom \in Int /\ since \in Int /\ oldFrom \in Int /\ newFrom \in Int
        /\ oldFrom <= newFrom /\ fineFrom + size <= since /\ since <= q + 1
    <3> DEFINE coarse == Tiers[i].retain
               fineRetain == Tiers[i - 1].retain
               window == GaugeWindow[i]
    <3>1. /\ coarse \in Nat /\ fineRetain \in Nat /\ window \in Nat /\ size \in Sizes
          /\ clock - window <= q + 1 /\ window + size <= fineRetain
      BY ONLY <2>1
    <3>2. fineFrom = clock - fineRetain /\ since = clock - window
          /\ oldFrom = q - coarse /\ newFrom = clock - coarse
      BY ONLY <3>1
    <3> HIDE DEF fineFrom, since, oldFrom, newFrom, coarse, fineRetain, window, size
    <3> QED
      BY <3>1, <3>2 DEF Sizes
  <2>6. size \in Sizes /\ small \in Sizes /\ size % small = 0
    BY <2>1
  <2>7. /\ Aligned(wholeFine, small) /\ HoldsWhole(fine, wholeFine, small, fineFrom, clock)
        /\ HoldsWhole(old, AveragePerBucket(wholeFine, size, 0), size, oldFrom, q)
    BY <1>3, <1>b, <2>1, <2>2, <2>a
  <2>8. fine \in RowsUpTo(clock) /\ old \in RowsUpTo(clock) /\ wholeFine \in RowsUpTo(clock)
    BY <2>3
  <2> HIDE DEF size, small, fineFrom, since, oldFrom, newFrom, fine, old, wholeFine
  <2>9. HoldsWhole(Over(AveragePerBucket(fine, size, since), old),
                   AveragePerBucket(wholeFine, size, 0), size, newFrom, clock)
    BY <2>5, <2>6, <2>7, <2>8, RollAverages
  <2> QED
    BY <2>4, <2>9, <2>a DEF size, small, fineFrom, since, oldFrom, newFrom, fine, old, wholeFine
<1> HIDE DEF Claim
<1>4. 0 \in S
  BY <1>2
<1>5. ASSUME NEW n \in Nat, n \in S PROVE n + 1 \in S
  <2> SUFFICES ASSUME n + 1 + 1 <= N PROVE Claim(n + 1 + 1)
    OBVIOUS
  <2>1. n + 1 <= N /\ n + 1 + 1 \in 2..N /\ (n + 1 + 1) - 1 = n + 1
    BY <1>0
  <2>2. Claim(n + 1)
    BY <1>5, <2>1
  <2> QED
    BY <1>3, <2>1, <2>2
<1> HIDE DEF S
<1>6. Nat \subseteq S
  BY <1>4, <1>5, NaturalInduction
<1>7. ASSUME NEW i \in 1..N PROVE Claim(i)
  <2>1. i - 1 \in Nat /\ (i - 1) + 1 = i /\ (i - 1) + 1 <= N
    BY <1>0
  <2> QED
    BY <1>6, <2>1 DEF S
<1> QED
  BY <1>7 DEF Claim, N, r, W

LEMMA PassHoldsGauges ==
    ASSUME clock \in Nat, NEW q \in Int, q <= clock, clock <= q + MaxSilence + 1,
           NEW all \in RowsUpTo(clock), NEW tiers \in [DOMAIN Tiers -> RowsUpTo(clock)],
           GaugesHold(tiers, all, q)
    PROVE  /\ Retained(RolledUp("gauge", tiers, GaugeWindow)) \in [DOMAIN Tiers -> RowsUpTo(clock)]
           /\ GaugesHold(Retained(RolledUp("gauge", tiers, GaugeWindow)), all, clock)
<1> DEFINE r == RolledUp("gauge", tiers, GaugeWindow)
<1>0. DOMAIN Tiers = 1..Len(Tiers) /\ Finest = 1 /\ Coarsest = Len(Tiers) /\ Len(Tiers) >= 1
      /\ Len(Tiers) \in Nat /\ Tiers[1].retain \in Nat
  BY TierSizes
<1>1. r \in [DOMAIN Tiers -> RowsUpTo(clock)] /\ r[1] = tiers[1]
  <2>1. GaugeWindow \in [DOMAIN Tiers -> Nat]
    BY TiersAreSane
  <2>2. IsChain(r, RowsUpTo(clock), "gauge", tiers, GaugeWindow)
    BY <2>1, RolledUpType
  <2> QED
    BY <2>2 DEF IsChain
<1>2. \A i \in 1..Len(Tiers) :
          HoldsWhole(r[i], WholeAverages(all)[i], Tiers[i].bucket, clock - Tiers[i].retain, clock)
  BY RolledUpAverages
<1> HIDE DEF r
<1>3. Retained(r) = [i \in DOMAIN Tiers |-> Since(r[i], clock - Tiers[i].retain)]
  BY DEF Retained, Since
<1>4. Retained(r) \in [DOMAIN Tiers -> RowsUpTo(clock)]
  <2>1. \A i \in DOMAIN Tiers : Since(r[i], clock - Tiers[i].retain) \in RowsUpTo(clock)
    BY <1>1, SinceType
  <2> QED
    BY <1>3, <2>1
<1>5. Retained(r)[1] = Since(all, clock - Tiers[1].retain)
  <2>1. r[1] = Since(all, q - Tiers[1].retain)
    BY <1>0, <1>1 DEF GaugesHold
  <2>2. q - Tiers[1].retain \in Int /\ clock - Tiers[1].retain \in Int
        /\ q - Tiers[1].retain <= clock - Tiers[1].retain
    BY <1>0
  <2>3. Since(Since(all, q - Tiers[1].retain), clock - Tiers[1].retain)
            = Since(all, clock - Tiers[1].retain)
    BY <2>2, SinceTwice
  <2> QED
    BY <1>0, <1>3, <2>1, <2>3
<1>6. ASSUME NEW i \in 2..Len(Tiers)
      PROVE  HoldsWhole(Retained(r)[i], WholeAverages(all)[i], Tiers[i].bucket,
                        clock - Tiers[i].retain, clock)
  <2>1. i \in 1..Len(Tiers)
    BY <1>0
  <2>2. HoldsWhole(Since(r[i], clock - Tiers[i].retain), WholeAverages(all)[i], Tiers[i].bucket,
                   clock - Tiers[i].retain, clock)
    BY <1>2, <2>1, DropHoldsWhole
  <2> QED
    BY <1>0, <1>3, <2>1, <2>2
<1> QED
  BY <1>0, <1>4, <1>5, <1>6 DEF GaugesHold, r

-----------------------------------------------------------------------------
(* Recording. *)

LEMMA RowType ==
    ASSUME NEW c \in Nat, NEW value \in Int
    PROVE  Row(c, value) \in RowsUpTo(c)
<1>1. {c} \in SUBSET (0..c) /\ Row(c, value) \in [{c} -> Int]
  BY DEF Row
<1> QED
  BY <1>1, RowsAgain

LEMMA SinceRecorded ==
    ASSUME NEW c, NEW value, NEW rows, NEW from, c >= from
    PROVE  Since(Over(Row(c, value), rows), from) = Over(Row(c, value), Since(rows, from))
<1> DEFINE keys == {u \in {c} \cup DOMAIN rows : u >= from}
           at(ts) == IF ts = c THEN value ELSE rows[ts]
<1>1. Over(Row(c, value), rows) = [ts \in {c} \cup DOMAIN rows |-> at(ts)]
  BY DEF Over, Row
<1>2. Since(Over(Row(c, value), rows), from) = [ts \in keys |-> at(ts)]
  BY <1>1 DEF Since
<1>3. Over(Row(c, value), Since(rows, from)) = [ts \in keys |-> at(ts)]
  BY DEF Since, Over, Row
<1> QED
  BY <1>2, <1>3

\* A row that is newer than the last pass changes none of what that pass left.
LEMMA RecordHolds ==
    ASSUME NEW c \in Nat, NEW q \in Int, q < c, NEW all \in RowsUpTo(c), NEW value \in Int,
           NEW tiers, NEW next, TiersHold(tiers, all, q),
           next[Finest] = Over(Row(c, value), tiers[Finest]),
           \A i \in 2..Coarsest : next[i] = tiers[i]
    PROVE  TiersHold(next, Over(Row(c, value), all), q)
<1> DEFINE more == Over(Row(c, value), all)
<1>1. \A ts \in DOMAIN all : ts \in Int
  BY RowsAre
<1>2. DOMAIN more = {c} \cup DOMAIN all /\ \A ts \in DOMAIN all : ts # c => more[ts] = all[ts]
  BY DEF Over, Row
<1>3. Tiers[Finest].retain \in Nat
  BY TierSizes
<1>4. next[Finest] = Since(more, q - Tiers[Finest].retain)
  <2>1. c >= q - Tiers[Finest].retain
    BY <1>3
  <2> QED
    BY <2>1, SinceRecorded DEF TiersHold
<1> HIDE DEF more
<1>5. ASSUME NEW size, NEW m, IsLast(more, size, q, m) PROVE IsLast(all, size, q, m) /\ more[m] = all[m]
  <2>1. m # c /\ m \in DOMAIN more
    BY <1>5 DEF IsLast
  <2> QED
    BY <1>2, <1>5, <2>1 DEF IsLast
<1>6. ASSUME NEW i \in 2..Coarsest
      PROVE  HoldsLast(next[i], more, Tiers[i].bucket, q - Tiers[i].retain, q)
  <2> DEFINE rows == tiers[i]
             size == Tiers[i].bucket
             from == q - Tiers[i].retain
  <2>1. HoldsLast(rows, all, size, from, q)
    BY DEF TiersHold
  <2> HIDE DEF rows, size, from
  <2>2. HoldsLast(rows, more, size, from, q)
    <3>1. \A b \in DOMAIN rows : b >= from /\ \E ts \in DOMAIN more : ts <= q /\ Bucket(ts, size) = b
      BY <1>2, <2>1 DEF HoldsLast
    <3>2. ASSUME NEW m, IsLast(more, size, q, m), Bucket(m, size) >= from
          PROVE  Bucket(m, size) \in DOMAIN rows /\ rows[Bucket(m, size)] = more[m]
      BY <1>5, <2>1, <3>2 DEF HoldsLast
    <3> QED
      BY <3>1, <3>2 DEF HoldsLast
  <2> QED
    BY <2>2 DEF rows, size, from
<1> QED
  BY <1>4, <1>6 DEF TiersHold, more

\* Nor does it change the average of a bucket that was over.
Grown(more, all, size, c) ==
    /\ DOMAIN all \subseteq DOMAIN more
    /\ \A b \in DOMAIN more : b + size <= c => (b \in DOMAIN all /\ more[b] = all[b])

LEMMA AveragesGrow ==
    ASSUME NEW c \in Nat, NEW more \in RowsUpTo(c), NEW all \in RowsUpTo(c),
           NEW small \in Sizes, NEW size \in Sizes, size % small = 0,
           Aligned(more, small), Grown(more, all, small, c)
    PROVE  Grown(AveragePerBucket(more, size, 0), AveragePerBucket(all, size, 0), size, c)
<1> DEFINE M == AveragePerBucket(more, size, 0)
           A == AveragePerBucket(all, size, 0)
<1>1. /\ DOMAIN M = {Bucket(ts, size) : ts \in DOMAIN more}
      /\ \A b \in DOMAIN M : M[b] = Mean(more, InBucket(more, size, b))
  BY WholeAverageIs
<1>2. /\ DOMAIN A = {Bucket(ts, size) : ts \in DOMAIN all}
      /\ \A b \in DOMAIN A : A[b] = Mean(all, InBucket(all, size, b))
  BY WholeAverageIs
<1> HIDE DEF M, A
<1>3. DOMAIN A \subseteq DOMAIN M
  BY <1>1, <1>2 DEF Grown
<1>4. \A ts \in DOMAIN more : ts \in Int
  BY RowsAre
<1>5. ASSUME NEW b \in DOMAIN M, b + size <= c PROVE b \in DOMAIN A /\ M[b] = A[b]
  <2>1. b \in Int
    BY <1>1, <1>4, BucketBounds
  <2>2. ASSUME NEW u \in DOMAIN more, Bucket(u, size) = b PROVE u \in DOMAIN all /\ more[u] = all[u]
    <3>1. u \in Int /\ Bucket(u, small) = u
      BY <1>4 DEF Aligned
    <3>2. u + small <= b + size
      BY <2>2, <3>1, BucketOfBucket
    <3>3. u + small <= c
      BY <1>5, <2>1, <3>1, <3>2 DEF Sizes
    <3> QED
      BY <3>3 DEF Grown
  <2>3. InBucket(more, size, b) = InBucket(all, size, b)
    BY <2>2 DEF InBucket, Grown
  <2>4. \A u \in InBucket(all, size, b) : more[u] = all[u]
    BY <2>2, <2>3 DEF InBucket
  <2>5. Mean(more, InBucket(all, size, b)) = Mean(all, InBucket(all, size, b))
    BY <2>4, MeansAgree
  <2>6. b \in DOMAIN A
    BY <1>1, <1>2, <2>2
  <2> QED
    BY <1>1, <1>2, <2>3, <2>5, <2>6
<1> QED
  BY <1>3, <1>5 DEF Grown, M, A

LEMMA WholeGrows ==
    ASSUME NEW c \in Nat, NEW all \in RowsUpTo(c), NEW more \in RowsUpTo(c), Grown(more, all, 1, c)
    PROVE  \A i \in 1..Len(Tiers) :
               Grown(WholeAverages(more)[i], WholeAverages(all)[i], Tiers[i].bucket, c)
<1> DEFINE W == WholeAverages(all)
           M == WholeAverages(more)
           N == Len(Tiers)
           Claim(i) == Grown(M[i], W[i], Tiers[i].bucket, c)
           S == {n \in Nat : n + 1 <= N => Claim(n + 1)}
<1>0. N \in Nat /\ 1 <= N /\ DOMAIN Tiers = 1..N /\ Tiers[1].bucket = 1
  BY TierSizes, TiersAreSane
<1>1. /\ W \in [DOMAIN Tiers -> RowsUpTo(c)] /\ W[1] = all
      /\ \A i \in 2..N : W[i] = AveragePerBucket(W[i - 1], Tiers[i].bucket, 0)
  BY WholeType
<1>2. /\ M \in [DOMAIN Tiers -> RowsUpTo(c)] /\ M[1] = more
      /\ \A i \in 2..N : M[i] = AveragePerBucket(M[i - 1], Tiers[i].bucket, 0)
  BY WholeType
<1>3. \A i \in 1..N : Aligned(M[i], Tiers[i].bucket)
  BY WholeAligned
<1> HIDE DEF W, M
<1>4. Claim(1)
  BY <1>0, <1>1, <1>2
<1>5. ASSUME NEW i \in 2..N, Claim(i - 1) PROVE Claim(i)
  <2>1. i \in 1..N /\ i - 1 \in 1..N
    BY <1>0
  <2> DEFINE size == Tiers[i].bucket
             small == Tiers[i - 1].bucket
             fine == W[i - 1]
             moreFine == M[i - 1]
  <2>2. size \in Sizes /\ small \in Sizes /\ size % small = 0
    BY <2>1, TierSizes, TiersAreSane
  <2>3. fine \in RowsUpTo(c) /\ moreFine \in RowsUpTo(c)
    BY <1>0, <1>1, <1>2, <2>1
  <2>4. Aligned(moreFine, small) /\ Grown(moreFine, fine, small, c)
    BY <1>3, <1>5, <2>1
  <2> HIDE DEF size, small, fine, moreFine
  <2>5. Grown(AveragePerBucket(moreFine, size, 0), AveragePerBucket(fine, size, 0), size, c)
    BY <2>2, <2>3, <2>4, AveragesGrow
  <2>6. W[i] = AveragePerBucket(fine, size, 0) /\ M[i] = AveragePerBucket(moreFine, size, 0)
    BY <1>1, <1>2 DEF size, fine, moreFine
  <2> QED
    BY <2>5, <2>6 DEF size
<1> HIDE DEF Claim
<1>6. 0 \in S
  BY <1>4
<1>7. ASSUME NEW n \in Nat, n \in S PROVE n + 1 \in S
  <2> SUFFICES ASSUME n + 1 + 1 <= N PROVE Claim(n + 1 + 1)
    OBVIOUS
  <2>1. n + 1 <= N /\ n + 1 + 1 \in 2..N /\ (n + 1 + 1) - 1 = n + 1
    BY <1>0
  <2>2. Claim(n + 1)
    BY <1>7, <2>1
  <2> QED
    BY <1>5, <2>1, <2>2
<1> HIDE DEF S
<1>8. Nat \subseteq S
  BY <1>6, <1>7, NaturalInduction
<1>9. ASSUME NEW i \in 1..N PROVE Claim(i)
  <2>1. i - 1 \in Nat /\ (i - 1) + 1 = i /\ (i - 1) + 1 <= N
    BY <1>0
  <2> QED
    BY <1>8, <2>1 DEF S
<1> QED
  BY <1>9 DEF Claim, N, M, W

LEMMA RecordHoldsGauges ==
    ASSUME NEW c \in Nat, NEW q \in Int, q < c, NEW all \in RowsUpTo(c), NEW value \in Int,
           NEW tiers, NEW next, GaugesHold(tiers, all, q),
           next[Finest] = Over(Row(c, value), tiers[Finest]),
           \A i \in 2..Coarsest : next[i] = tiers[i]
    PROVE  GaugesHold(next, Over(Row(c, value), all), q)
<1> DEFINE more == Over(Row(c, value), all)
<1>1. \A ts \in DOMAIN all : ts \in Int
  BY RowsAre
<1>2. DOMAIN more = {c} \cup DOMAIN all /\ \A ts \in DOMAIN all : ts # c => more[ts] = all[ts]
  BY DEF Over, Row
<1>3. Tiers[Finest].retain \in Nat /\ Coarsest = Len(Tiers) /\ Len(Tiers) \in Nat
  BY TierSizes
<1>4. next[Finest] = Since(more, q - Tiers[Finest].retain)
  <2>1. c >= q - Tiers[Finest].retain
    BY <1>3
  <2> QED
    BY <2>1, SinceRecorded DEF GaugesHold
<1>5. more \in RowsUpTo(c)
  BY RowType, OverType
<1> HIDE DEF more
<1>6. Grown(more, all, 1, c)
  BY <1>1, <1>2 DEF Grown
<1>7. ASSUME NEW i \in 2..Coarsest
      PROVE  HoldsWhole(next[i], WholeAverages(more)[i], Tiers[i].bucket, q - Tiers[i].retain, q)
  <2> DEFINE rows == tiers[i]
             size == Tiers[i].bucket
             from == q - Tiers[i].retain
             W == WholeAverages(all)[i]
             M == WholeAverages(more)[i]
  <2>1. HoldsWhole(rows, W, size, from, q)
    BY DEF GaugesHold
  <2>2. Grown(M, W, size, c)
    BY <1>3, <1>5, <1>6, WholeGrows
  <2>3. size \in Sizes
    BY <1>3, TierSizes
  <2>4. M \in RowsUpTo(c)
    <3>1. i \in DOMAIN Tiers
      BY <1>3, TierSizes
    <3> QED
      BY <1>5, <3>1, WholeType
  <2> HIDE DEF rows, size, from, W, M
  <2>5. \A b \in DOMAIN M : b \in Int
    BY <2>4, RowsAre
  <2>6. HoldsWhole(rows, M, size, from, q)
    <3>1. DOMAIN rows \subseteq DOMAIN M
      BY <2>1, <2>2 DEF HoldsWhole, Grown
    <3>2. ASSUME NEW b \in DOMAIN M, b + size <= q + 1, b >= from
          PROVE  b \in DOMAIN rows /\ rows[b] = M[b]
      <4>1. b + size <= c
        BY <2>3, <2>5, <3>2 DEF Sizes
      <4>2. b \in DOMAIN W /\ M[b] = W[b]
        BY <2>2, <4>1 DEF Grown
      <4> QED
        BY <2>1, <3>2, <4>2 DEF HoldsWhole
    <3> QED
      BY <3>1, <3>2 DEF HoldsWhole
  <2> QED
    BY <2>6 DEF rows, size, from, M
<1> QED
  BY <1>4, <1>7 DEF GaugesHold, more

-----------------------------------------------------------------------------
(* The state. *)

\* The types of the state, as far as a rebuild leaves them be.
TiersTypeOK ==
    /\ clock \in Nat /\ silence \in 0..MaxSilence /\ done \in {"nothing", "pass", "rebuild"}
    /\ counter \in UNION {[S -> Int] : S \in SUBSET Torrents}
    /\ last \in [Series -> Int]
    /\ recorded \in [Series -> RowsUpTo(clock)] /\ measured \in RowsUpTo(clock)
    /\ gauges \in [DOMAIN Tiers -> RowsUpTo(clock)]
    /\ done # "rebuild" => samples \in [DOMAIN Tiers -> [Series -> RowsUpTo(clock)]]

\* The instant of the last pass, if there was one: what was recorded later is newer.
LastPass(q) ==
    /\ q \in Int /\ clock - silence - 1 <= q /\ q <= clock - silence
    /\ done = "nothing" => q < clock
    /\ done = "pass" => q = clock
KeptSince(q) ==
    /\ LastPass(q) /\ GaugesHold(gauges, measured, q)
    /\ \A t \in Torrents : TiersHold(Of(t), recorded[t], q)

TiersInv ==
    /\ TiersTypeOK
    /\ done # "nothing" => opening = "ready" /\ file.found = "none"
    /\ done # "rebuild" => \E q \in Int : KeptSince(q)

LEMMA NoRowsType == \A c : NoRows \in RowsUpTo(c)
<1>1. ASSUME NEW c PROVE NoRows \in RowsUpTo(c)
  <2>1. {} \in SUBSET (0..c) /\ NoRows \in [{} -> Int]
    BY DEF NoRows
  <2> QED
    BY <2>1, RowsAgain
<1> QED
  BY <1>1

LEMMA WholeOfNone == \A i \in 1..Len(Tiers) : DOMAIN WholeAverages(NoRows)[i] = {}
<1> DEFINE W == WholeAverages(NoRows)
           N == Len(Tiers)
           Claim(i) == DOMAIN W[i] = {}
           S == {n \in Nat : n + 1 <= N => Claim(n + 1)}
<1>0. N \in Nat /\ 1 <= N /\ DOMAIN Tiers = 1..N
  BY TierSizes
<1>1. /\ W \in [DOMAIN Tiers -> RowsUpTo(0)] /\ W[1] = NoRows
      /\ \A i \in 2..N : W[i] = AveragePerBucket(W[i - 1], Tiers[i].bucket, 0)
  BY NoRowsType, WholeType
<1> HIDE DEF W
<1>2. Claim(1)
  BY <1>1 DEF NoRows
<1>3. ASSUME NEW i \in 2..N, Claim(i - 1) PROVE Claim(i)
  <2> DEFINE fine == W[i - 1]
             size == Tiers[i].bucket
  <2>1. fine \in RowsUpTo(0) /\ size \in Sizes
    <3>1. i - 1 \in 1..N /\ i \in 1..N
      BY <1>0
    <3> QED
      BY <1>0, <1>1, <3>1, TierSizes
  <2>2. W[i] = AveragePerBucket(fine, size, 0)
    BY <1>1
  <2> HIDE DEF fine, size
  <2>3. DOMAIN AveragePerBucket(fine, size, 0) = {Bucket(ts, size) : ts \in DOMAIN fine}
    BY <2>1, WholeAverageIs
  <2>4. DOMAIN fine = {}
    BY <1>3 DEF fine
  <2> QED
    BY <2>2, <2>3, <2>4
<1> HIDE DEF Claim
<1>4. 0 \in S
  BY <1>2
<1>5. ASSUME NEW n \in Nat, n \in S PROVE n + 1 \in S
  <2> SUFFICES ASSUME n + 1 + 1 <= N PROVE Claim(n + 1 + 1)
    OBVIOUS
  <2>1. n + 1 <= N /\ n + 1 + 1 \in 2..N /\ (n + 1 + 1) - 1 = n + 1
    BY <1>0
  <2>2. Claim(n + 1)
    BY <1>5, <2>1
  <2> QED
    BY <1>3, <2>1, <2>2
<1> HIDE DEF S
<1>6. Nat \subseteq S
  BY <1>4, <1>5, NaturalInduction
<1>7. ASSUME NEW i \in 1..N PROVE Claim(i)
  <2>1. i - 1 \in Nat /\ (i - 1) + 1 = i /\ (i - 1) + 1 <= N
    BY <1>0
  <2> QED
    BY <1>6, <2>1 DEF S
<1> QED
  BY <1>7 DEF Claim, N, W

LEMMA NothingHolds ==
    ASSUME NEW tiers \in [DOMAIN Tiers -> {NoRows}], NEW q \in Int
    PROVE  TiersHold(tiers, NoRows, q) /\ GaugesHold(tiers, NoRows, q)
<1>1. \A i \in 1..Len(Tiers) : tiers[i] = NoRows
  BY TierSizes
<1>2. Finest \in 1..Len(Tiers) /\ \A i \in 2..Coarsest : i \in 1..Len(Tiers)
  BY TierSizes
<1>3. DOMAIN NoRows = {}
  BY DEF NoRows
<1>4. \A from : Since(NoRows, from) = NoRows
  BY DEF Since, NoRows
<1>5. \A size, from : HoldsLast(NoRows, NoRows, size, from, q)
  BY <1>3 DEF HoldsLast, IsLast
<1>6. \A i \in 2..Coarsest : \A size, from :
          HoldsWhole(NoRows, WholeAverages(NoRows)[i], size, from, q)
  BY <1>2, <1>3, WholeOfNone DEF HoldsWhole
<1> QED
  BY <1>1, <1>2, <1>4, <1>5, <1>6 DEF TiersHold, GaugesHold

LEMMA InitHolds == TiersInit => TiersInv
<1> SUFFICES ASSUME TiersInit PROVE TiersInv
  OBVIOUS
<1>1. TiersTypeOK
  <2>1. MaxSilence \in Nat /\ PartDone \in Int /\ AtFirst \in SUBSET Torrents
    BY TiersAreSane, TorrentsAreSane
  <2>2. clock \in Nat /\ silence \in 0..MaxSilence /\ done \in {"nothing", "pass", "rebuild"}
    BY <2>1 DEF TiersInit
  <2>3. counter \in [AtFirst -> Int]
    BY <2>1 DEF TiersInit
  <2>4. last \in [Series -> Int]
    BY DEF TiersInit, Unwritten
  <2>5. NoRows \in RowsUpTo(clock)
    BY NoRowsType
  <2>6. /\ recorded \in [Series -> RowsUpTo(clock)] /\ measured \in RowsUpTo(clock)
        /\ gauges \in [DOMAIN Tiers -> RowsUpTo(clock)]
        /\ samples \in [DOMAIN Tiers -> [Series -> RowsUpTo(clock)]]
    BY <2>5 DEF TiersInit
  <2> QED
    BY <2>1, <2>2, <2>3, <2>4, <2>6 DEF TiersTypeOK
<1>2. KeptSince(0)
  <2>1. LastPass(0)
    BY DEF TiersInit, LastPass
  <2>2. GaugesHold(gauges, measured, 0)
    <3>1. gauges \in [DOMAIN Tiers -> {NoRows}] /\ measured = NoRows
      BY DEF TiersInit
    <3> QED
      BY <3>1, NothingHolds
  <2>3. ASSUME NEW t \in Torrents PROVE TiersHold(Of(t), recorded[t], 0)
    <3>1. t \in Series
      BY DEF Series
    <3>2. Of(t) \in [DOMAIN Tiers -> {NoRows}] /\ recorded[t] = NoRows
      BY <3>1 DEF TiersInit, Of
    <3> QED
      BY <3>2, NothingHolds
  <2> QED
    BY <2>1, <2>2, <2>3 DEF KeptSince
<1>3. done = "nothing"
  BY DEF TiersInit
<1> QED
  BY <1>1, <1>2, <1>3 DEF TiersInv

LEMMA RetainedType ==
    ASSUME clock \in Nat, NEW tiers \in [DOMAIN Tiers -> RowsUpTo(clock)]
    PROVE  Retained(tiers) \in [DOMAIN Tiers -> RowsUpTo(clock)]
<1>1. \A i \in DOMAIN Tiers : Since(tiers[i], clock - Tiers[i].retain) \in RowsUpTo(clock)
  BY SinceType
<1>2. Retained(tiers) = [i \in DOMAIN Tiers |-> Since(tiers[i], clock - Tiers[i].retain)]
  BY DEF Retained, Since
<1> QED
  BY <1>1, <1>2

LEMMA LastPassBounds ==
    ASSUME TiersTypeOK, NEW q \in Int, LastPass(q)
    PROVE  q <= clock /\ clock <= q + MaxSilence + 1
<1>1. MaxSilence \in Nat
  BY TiersAreSane
<1> QED
  BY <1>1 DEF TiersTypeOK, LastPass

LEMMA PassKeepsInv ==
    ASSUME TiersInv, Pass, UNCHANGED schemaVars, opening = "ready", file.found = "none"
    PROVE  TiersInv'
<1>1. /\ TiersTypeOK /\ done # "rebuild" /\ clock' = clock /\ silence' = 0 /\ done' = "pass"
      /\ counter' = counter /\ last' = last /\ recorded' = recorded /\ measured' = measured
      /\ samples' = BySeries([s \in Series |-> Retained(CaughtUp[s])])
      /\ gauges' = Retained(RolledUp("gauge", gauges, GaugeWindow))
  BY DEF TiersInv, Pass
<1>2. PICK q \in Int : KeptSince(q)
  BY <1>1 DEF TiersInv
<1>3. /\ clock \in Nat /\ q <= clock /\ clock <= q + MaxSilence + 1
      /\ samples \in [DOMAIN Tiers -> [Series -> RowsUpTo(clock)]]
      /\ gauges \in [DOMAIN Tiers -> RowsUpTo(clock)]
      /\ measured \in RowsUpTo(clock) /\ recorded \in [Series -> RowsUpTo(clock)]
  BY <1>1, <1>2, LastPassBounds DEF KeptSince, TiersTypeOK
<1>4. ASSUME NEW s \in Series
      PROVE  /\ Of(s) \in [DOMAIN Tiers -> RowsUpTo(clock)]
             /\ Retained(CaughtUp[s]) \in [DOMAIN Tiers -> RowsUpTo(clock)]
             /\ CaughtUp[s] = RolledUp("counter", Of(s), Window)
             /\ Of(s)' = Retained(CaughtUp[s])
  <2>1. Of(s) \in [DOMAIN Tiers -> RowsUpTo(clock)]
    BY <1>3 DEF Of
  <2>2. CaughtUp[s] = RolledUp("counter", Of(s), Window)
    BY DEF CaughtUp
  <2>3. IsChain(RolledUp("counter", Of(s), Window), RowsUpTo(clock), "counter", Of(s), Window)
    BY <1>3, <2>1, RolledUpType, TiersAreSane
  <2>4. CaughtUp[s] \in [DOMAIN Tiers -> RowsUpTo(clock)]
    BY <2>2, <2>3 DEF IsChain
  <2>5. Retained(CaughtUp[s]) \in [DOMAIN Tiers -> RowsUpTo(clock)]
    BY <1>3, <2>4, RetainedType
  <2>6. Of(s)' = [i \in DOMAIN Tiers |-> Retained(CaughtUp[s])[i]]
    BY <1>1 DEF Of, BySeries
  <2> QED
    BY <2>1, <2>2, <2>5, <2>6
<1>5. samples' \in [DOMAIN Tiers -> [Series -> RowsUpTo(clock)]]
  <2>1. \A i \in DOMAIN Tiers : \A s \in Series : Retained(CaughtUp[s])[i] \in RowsUpTo(clock)
    BY <1>4
  <2> QED
    BY <1>1, <2>1 DEF BySeries
<1>6. ASSUME NEW t \in Torrents PROVE TiersHold(Of(t)', recorded[t], clock)
  <2>1. t \in Series
    BY DEF Series
  <2>2. recorded[t] \in RowsUpTo(clock) /\ TiersHold(Of(t), recorded[t], q)
    BY <1>2, <1>3, <2>1 DEF KeptSince
  <2> DEFINE tiers == Of(t)
             all == recorded[t]
  <2>3. tiers \in [DOMAIN Tiers -> RowsUpTo(clock)] /\ all \in RowsUpTo(clock)
        /\ TiersHold(tiers, all, q)
    BY <1>4, <2>1, <2>2
  <2> HIDE DEF tiers, all
  <2>4. TiersHold(Retained(RolledUp("counter", tiers, Window)), all, clock)
    BY <1>3, <2>3, PassHolds
  <2> QED
    BY <1>4, <2>1, <2>4 DEF tiers, all
<1>7. /\ gauges' \in [DOMAIN Tiers -> RowsUpTo(clock)] /\ GaugesHold(gauges', measured, clock)
  <2>1. GaugesHold(gauges, measured, q)
    BY <1>2 DEF KeptSince
  <2>2. /\ Retained(RolledUp("gauge", gauges, GaugeWindow)) \in [DOMAIN Tiers -> RowsUpTo(clock)]
        /\ GaugesHold(Retained(RolledUp("gauge", gauges, GaugeWindow)), measured, clock)
    BY <1>3, <2>1, PassHoldsGauges
  <2> QED
    BY <1>1, <2>2
<1>8. TiersTypeOK'
  <2>1. 0 \in 0..MaxSilence
    BY TiersAreSane
  <2> QED
    BY <1>1, <1>3, <1>5, <1>7, <2>1 DEF TiersTypeOK
<1>9. KeptSince(clock)'
  <2>1. LastPass(clock)'
    BY <1>1, <1>3 DEF LastPass
  <2> QED
    BY <1>1, <1>6, <1>7, <2>1 DEF KeptSince
<1> QED
  BY <1>1, <1>3, <1>8, <1>9 DEF TiersInv, schemaVars

LEMMA RoundKeepsInv ==
    ASSUME TiersInv, NEW transferring \in SUBSET DOMAIN counter, Round(transferring),
           UNCHANGED schemaVars
    PROVE  TiersInv'
<1> DEFINE now == [t \in Present |-> counter[t] + IF t \in transferring THEN Unit ELSE 0]
           value == Over(now, Row(Total, SumOf(now)))
           written == {s \in DOMAIN value : last[s] # value[s]}
           level == 3 * Cardinality(transferring)
           record(s, rows) == IF s \in written THEN Over(Row(clock, value[s]), rows) ELSE rows
<1>1. /\ TiersTypeOK /\ done = "nothing" /\ clock' = clock /\ silence' = silence
      /\ done' = "nothing" /\ counter' = now
      /\ samples' = [samples EXCEPT ![Finest] = [s \in Series |-> record(s, @[s])]]
      /\ last' = [s \in Series |-> IF s \in written THEN value[s] ELSE last[s]]
      /\ recorded' = [s \in Series |-> record(s, recorded[s])]
      /\ gauges' = [gauges EXCEPT ![Finest] = Over(Row(clock, level), @)]
      /\ measured' = Over(Row(clock, level), measured)
  BY DEF TiersInv, Round
<1>2. PICK q \in Int : KeptSince(q)
  BY <1>1 DEF TiersInv
<1>3. /\ clock \in Nat /\ q < clock /\ last \in [Series -> Int]
      /\ samples \in [DOMAIN Tiers -> [Series -> RowsUpTo(clock)]]
      /\ gauges \in [DOMAIN Tiers -> RowsUpTo(clock)]
      /\ measured \in RowsUpTo(clock) /\ recorded \in [Series -> RowsUpTo(clock)]
  BY <1>1, <1>2 DEF KeptSince, LastPass, TiersTypeOK
<1>4. Finest \in DOMAIN Tiers /\ \A i \in 2..Coarsest : i \in DOMAIN Tiers /\ i # Finest
  BY TierSizes
<1>5. /\ Present \in SUBSET Torrents /\ IsFiniteSet(Present)
      /\ \A t \in Present : counter[t] \in Int
  <2>1. PICK S \in SUBSET Torrents : counter \in [S -> Int]
    BY <1>1 DEF TiersTypeOK
  <2>2. IsFiniteSet(Torrents) /\ DOMAIN counter = S
    BY <2>1, TorrentsAreSane
  <2> QED
    BY <2>1, <2>2, FS_Subset DEF Present
<1>6. now \in [Present -> Int]
  <2>1. Unit \in Int
    BY TorrentsAreSane
  <2> QED
    BY <1>5, <2>1
<1>7. SumOf(now) \in Int
  <2> HIDE DEF now
  <2> QED
    BY <1>5, <1>6, SumType
<1>8. \A s \in DOMAIN value : s \in Series /\ value[s] \in Int
  <2> HIDE DEF now
  <2>1. DOMAIN now = Present /\ \A t \in Present : now[t] \in Int
    BY <1>6
  <2>2. DOMAIN Row(Total, SumOf(now)) = {Total} /\ Row(Total, SumOf(now))[Total] = SumOf(now)
    BY DEF Row
  <2> QED
    BY <1>5, <1>7, <2>1, <2>2 DEF Over, Series
<1>9. level \in Int
  <2>1. transferring \in SUBSET Present
    BY DEF Present
  <2>2. Cardinality(transferring) \in Nat
    BY <1>5, <2>1, FS_Subset, FS_CardinalityType
  <2> QED
    BY <2>2
<1> HIDE DEF now, value, level
<1>10. ASSUME NEW s \in Series, NEW rows \in RowsUpTo(clock) PROVE record(s, rows) \in RowsUpTo(clock)
  BY <1>3, <1>8, RowType, OverType
<1>11. last' \in [Series -> Int]
  BY <1>1, <1>3, <1>8
<1>12. /\ \A s \in Series : Of(s)'[Finest] = record(s, Of(s)[Finest])
       /\ \A s \in Series : \A i \in 2..Coarsest : Of(s)'[i] = Of(s)[i]
  <2> HIDE DEF record
  <2> QED
    BY <1>1, <1>3, <1>4 DEF Of
<1>13. samples' \in [DOMAIN Tiers -> [Series -> RowsUpTo(clock)]]
  <2>1. \A s \in Series : record(s, samples[Finest][s]) \in RowsUpTo(clock)
    BY <1>3, <1>4, <1>10
  <2> HIDE DEF record
  <2>2. [s \in Series |-> record(s, samples[Finest][s])] \in [Series -> RowsUpTo(clock)]
    BY <2>1
  <2> DEFINE V == [Series -> RowsUpTo(clock)]
             finest == [s \in Series |-> record(s, samples[Finest][s])]
  <2>3. samples' = [samples EXCEPT ![Finest] = finest]
    BY <1>1, <1>3, <1>4
  <2>4. finest \in V /\ samples \in [DOMAIN Tiers -> V]
    BY <1>3, <2>2
  <2> HIDE DEF V, finest
  <2>5. samples' \in [DOMAIN Tiers -> V]
    BY <1>4, <2>3, <2>4
  <2> QED
    BY <2>5 DEF V
<1>14. recorded' \in [Series -> RowsUpTo(clock)]
  <2>1. \A s \in Series : record(s, recorded[s]) \in RowsUpTo(clock)
    BY <1>3, <1>10
  <2> HIDE DEF record
  <2> QED
    BY <1>1, <2>1
<1>15. ASSUME NEW t \in Torrents PROVE TiersHold(Of(t)', recorded'[t], q)
  <2>1. t \in Series
    BY DEF Series
  <2> DEFINE tiers == Of(t)
             all == recorded[t]
             next == Of(t)'
  <2>2. all \in RowsUpTo(clock) /\ TiersHold(tiers, all, q)
    BY <1>2, <1>3, <2>1 DEF KeptSince
  <2>3. recorded'[t] = record(t, all)
    BY <1>1, <2>1
  <2>4. next[Finest] = record(t, tiers[Finest]) /\ \A i \in 2..Coarsest : next[i] = tiers[i]
    BY <1>12, <2>1
  <2> HIDE DEF tiers, all, next
  <2>5. CASE t \in written
    <3>1. value[t] \in Int
      BY <1>8, <2>5
    <3> DEFINE v == value[t]
    <3>2. next[Finest] = Over(Row(clock, v), tiers[Finest]) /\ v \in Int
      BY <2>4, <2>5, <3>1
    <3> HIDE DEF v
    <3>3. TiersHold(next, Over(Row(clock, v), all), q)
      BY <1>3, <2>2, <2>4, <3>2, RecordHolds
    <3> QED
      BY <2>3, <2>5, <3>3 DEF v, next
  <2>6. CASE t \notin written
    <3>1. TiersHold(next, all, q)
      BY <2>2, <2>4, <2>6 DEF TiersHold
    <3> QED
      BY <2>3, <2>6, <3>1 DEF next
  <2> QED
    BY <2>5, <2>6
<1>16. GaugesHold(gauges', measured', q)
  <2> DEFINE next == gauges'
  <2>1. next[Finest] = Over(Row(clock, level), gauges[Finest])
        /\ \A i \in 2..Coarsest : next[i] = gauges[i]
    BY <1>1, <1>3, <1>4
  <2>2. GaugesHold(gauges, measured, q)
    BY <1>2 DEF KeptSince
  <2> HIDE DEF next
  <2>3. GaugesHold(next, Over(Row(clock, level), measured), q)
    BY <1>3, <1>9, <2>1, <2>2, RecordHoldsGauges
  <2> QED
    BY <1>1, <2>3 DEF next
<1>17. measured' \in RowsUpTo(clock) /\ gauges' \in [DOMAIN Tiers -> RowsUpTo(clock)]
  <2>1. Row(clock, level) \in RowsUpTo(clock)
    BY <1>3, <1>9, RowType
  <2>2. Over(Row(clock, level), measured) \in RowsUpTo(clock)
    BY <1>3, <2>1, OverType
  <2>3. Over(Row(clock, level), gauges[Finest]) \in RowsUpTo(clock)
    BY <1>3, <1>4, <2>1, OverType
  <2> QED
    BY <1>1, <1>3, <1>4, <2>2, <2>3
<1>18. counter' \in UNION {[S -> Int] : S \in SUBSET Torrents}
  BY <1>1, <1>5, <1>6
<1>19. TiersTypeOK'
  BY <1>1, <1>11, <1>13, <1>14, <1>17, <1>18 DEF TiersTypeOK
<1>20. KeptSince(q)'
  <2>1. LastPass(q)'
    BY <1>1, <1>2, <1>3 DEF KeptSince, LastPass
  <2> QED
    BY <1>15, <1>16, <2>1 DEF KeptSince
<1> QED
  BY <1>1, <1>19, <1>20 DEF TiersInv

LEMMA RowsGrow ==
    ASSUME NEW c \in Nat, NEW rows \in RowsUpTo(c)
    PROVE  rows \in RowsUpTo(c + 1)
<1>1. PICK S \in SUBSET (0..c) : rows \in [S -> Int]
  BY DEF RowsUpTo
<1>2. S \in SUBSET (0..c + 1)
  BY <1>1
<1> QED
  BY <1>1, <1>2 DEF RowsUpTo

\* What is kept does not depend on the time, nor on anything but the rows.
LEMMA StillKept ==
    ASSUME NEW q, GaugesHold(gauges, measured, q),
           \A t \in Torrents : TiersHold(Of(t), recorded[t], q),
           UNCHANGED <<samples, gauges, recorded, measured>>, LastPass(q)'
    PROVE  KeptSince(q)'
<1>1. \A t \in Torrents : Of(t)' = Of(t)
  BY DEF Of
<1> QED
  BY <1>1 DEF KeptSince

LEMMA TickKeepsInv ==
    ASSUME TiersInv, Tick, UNCHANGED schemaVars
    PROVE  TiersInv'
<1>1. /\ TiersTypeOK /\ done # "rebuild" /\ clock' = clock + 1 /\ silence' = silence + 1
      /\ silence < MaxSilence /\ done' = "nothing"
      /\ UNCHANGED <<counter, samples, gauges, firstSeen, last, recorded, measured, moved>>
  BY DEF TiersInv, Tick
<1>2. PICK q \in Int : KeptSince(q)
  BY <1>1 DEF TiersInv
<1>3. clock \in Nat /\ silence \in 0..MaxSilence /\ MaxSilence \in Nat
  BY <1>1, TiersAreSane DEF TiersTypeOK
<1>4. TiersTypeOK'
  <2>1. \A rows \in RowsUpTo(clock) : rows \in RowsUpTo(clock + 1)
    BY <1>3, RowsGrow
  <2>2. /\ recorded \in [Series -> RowsUpTo(clock + 1)] /\ measured \in RowsUpTo(clock + 1)
        /\ gauges \in [DOMAIN Tiers -> RowsUpTo(clock + 1)]
        /\ samples \in [DOMAIN Tiers -> [Series -> RowsUpTo(clock + 1)]]
    BY <1>1, <2>1 DEF TiersTypeOK
  <2>3. clock + 1 \in Nat /\ silence + 1 \in 0..MaxSilence
    BY <1>1, <1>3
  <2> QED
    BY <1>1, <2>2, <2>3 DEF TiersTypeOK
<1>5. KeptSince(q)'
  <2>1. LastPass(q)'
    BY <1>1, <1>2, <1>3 DEF KeptSince, LastPass
  <2> QED
    BY <1>1, <1>2, <2>1, StillKept DEF KeptSince
<1> QED
  BY <1>1, <1>4, <1>5 DEF TiersInv

LEMMA StepKeepsTiers == TiersInv /\ [TiersNext]_allVars => TiersInv'
<1> SUFFICES ASSUME TiersInv, [TiersNext]_allVars PROVE TiersInv'
  OBVIOUS
<1>1. ASSUME UNCHANGED <<clock, samples, gauges, recorded, measured, silence, done>>,
             counter' \in UNION {[S -> Int] : S \in SUBSET Torrents}, last' \in [Series -> Int],
             done # "nothing" => opening' = "ready" /\ file'.found = "none"
      PROVE  TiersInv'
  <2>1. TiersTypeOK'
    BY <1>1 DEF TiersInv, TiersTypeOK
  <2>2. ASSUME NEW q \in Int, KeptSince(q) PROVE KeptSince(q)'
    <3>1. LastPass(q)'
      BY <1>1, <2>2 DEF KeptSince, LastPass
    <3> QED
      BY <1>1, <2>2, <3>1, StillKept DEF KeptSince
  <2> QED
    BY <1>1, <2>1, <2>2 DEF TiersInv
<1>2. counter \in UNION {[S -> Int] : S \in SUBSET Torrents} /\ last \in [Series -> Int]
      /\ (done # "nothing" => opening = "ready" /\ file.found = "none")
      /\ done \in {"nothing", "pass", "rebuild"}
  BY DEF TiersInv, TiersTypeOK
<1>3. CASE UNCHANGED allVars
  BY <1>1, <1>2, <1>3 DEF allVars, schemaVars, tierVars
<1>4. CASE Start
  <2>1. UNCHANGED tierVars /\ opening # "ready"
    BY <1>4 DEF Start, Open, Migrate, Probe
  <2> QED
    BY <1>1, <1>2, <2>1 DEF tierVars
<1>5. CASE Stop
  <2>1. done = "nothing" /\ done' = "nothing" /\ last' \in [Series -> Int]
    BY <1>2, <1>5 DEF Stop, Unwritten
  <2> QED
    BY <1>1, <1>2, <1>5, <2>1 DEF Stop
<1>6. CASE World
  <2>1. CASE Tick
    BY <1>6, <2>1, TickKeepsInv DEF World
  <2>2. ASSUME NEW t \in Torrents, AddTorrent(t) PROVE TiersInv'
    <3>1. counter' \in UNION {[S -> Int] : S \in SUBSET Torrents}
      <4>1. PICK S \in SUBSET Torrents : counter \in [S -> Int]
        BY <1>2
      <4>2. counter' \in [S \cup {t} -> Int]
        <5>1. counter' = Over(Row(t, PartDone), counter) /\ PartDone \in Int
          BY <2>2, TorrentsAreSane DEF AddTorrent
        <5> QED
          BY <4>1, <5>1 DEF Over, Row
      <4> QED
        BY <4>2
    <3> QED
      BY <1>1, <1>2, <1>6, <2>2, <3>1 DEF World, AddTorrent, schemaVars
  <2>3. ASSUME NEW t \in Torrents, ResetTorrent(t) PROVE TiersInv'
    <3>1. counter' \in UNION {[S -> Int] : S \in SUBSET Torrents}
      <4>1. PICK S \in SUBSET Torrents : counter \in [S -> Int]
        BY <1>2
      <4>2. counter' \in [S -> Int]
        <5>1. counter' = [counter EXCEPT ![t] = 0]
          BY <2>3 DEF ResetTorrent
        <5>2. counter' = [x \in S |-> IF x = t THEN 0 ELSE counter[x]]
          BY <4>1, <5>1
        <5> QED
          BY <4>1, <5>2
      <4> QED
        BY <4>2
    <3> QED
      BY <1>1, <1>2, <1>6, <2>3, <3>1 DEF World, ResetTorrent, schemaVars
  <2> QED
    BY <1>6, <2>1, <2>2, <2>3 DEF World
<1>7. CASE Store
  <2>1. opening = "ready" /\ file.found = "none" /\ UNCHANGED schemaVars
    BY <1>7 DEF Store
  <2>2. ASSUME NEW transferring \in SUBSET {t \in Present \cap Movers : moved[t] < MaxMoved},
               Round(transferring)
        PROVE  TiersInv'
    <3>1. transferring \in SUBSET DOMAIN counter
      BY DEF Present
    <3> QED
      BY <2>1, <2>2, <3>1, RoundKeepsInv
  <2>3. CASE Pass
    BY <2>1, <2>3, PassKeepsInv
  <2>4. CASE Rebuild
    <3>1. /\ clock' = clock /\ silence' = silence /\ done' = "rebuild" /\ last' \in [Series -> Int]
          /\ UNCHANGED <<counter, gauges, recorded, measured>>
      BY <2>4 DEF Rebuild, Unwritten
    <3>2. TiersTypeOK'
      BY <3>1 DEF TiersInv, TiersTypeOK
    <3> QED
      BY <2>1, <3>1, <3>2 DEF TiersInv, schemaVars
  <2> QED
    BY <1>7, <2>2, <2>3, <2>4 DEF Store
<1> QED
  BY <1>3, <1>4, <1>5, <1>6, <1>7 DEF TiersNext

-----------------------------------------------------------------------------
(* After a pass. *)

LEMMA InvGivesLastValues == TiersInv => TiersHoldLastValues
<1> SUFFICES ASSUME TiersInv, done = "pass", NEW i \in 2..Coarsest, NEW t \in Torrents
             PROVE  LET bucket(ts) == Bucket(ts, Tiers[i].bucket)
                        kept(b) == b >= clock - Tiers[i].retain
                        ever == {ts \in DOMAIN recorded[t] : kept(bucket(ts))}
                        held == samples[i][t]
                    IN /\ DOMAIN held = {bucket(ts) : ts \in ever}
                       /\ \A b \in DOMAIN held :
                              held[b] = recorded[t][Max({ts \in ever : bucket(ts) = b})]
  BY DEF TiersHoldLastValues
<1> DEFINE size == Tiers[i].bucket
           bucket(ts) == Bucket(ts, size)
           from == clock - Tiers[i].retain
           all == recorded[t]
           ever == {ts \in DOMAIN all : bucket(ts) >= from}
           held == samples[i][t]
           in(b) == {ts \in ever : bucket(ts) = b}
<1>1. KeptSince(clock) /\ TiersTypeOK
  BY DEF TiersInv, KeptSince, LastPass
<1>2. i \in DOMAIN Tiers
  BY TierSizes
<1>3. HoldsLast(held, all, size, from, clock)
  <2>1. Of(t)[i] = held
    BY <1>2 DEF Of
  <2> QED
    BY <1>1, <2>1 DEF KeptSince, TiersHold
<1>4. clock \in Nat /\ all \in RowsUpTo(clock)
  BY <1>1 DEF TiersTypeOK, Series
<1>5. \A ts \in DOMAIN all : ts \in 0..clock
  BY <1>4, RowsAre
<1> HIDE DEF size, from, all, held
<1>6. \A ts \in DOMAIN all : ts <= clock
  BY <1>4, <1>5
<1>7. ASSUME NEW x \in ever
      PROVE  bucket(x) \in DOMAIN held /\ held[bucket(x)] = all[Max(in(bucket(x)))]
  <2> DEFINE b == bucket(x)
             T == in(b)
             m == Max(T)
  <2>1. T \in SUBSET (0..clock) /\ T # {}
    BY <1>5
  <2> HIDE DEF T
  <2>2. m \in T /\ \A y \in T : y <= m
    BY <1>4, <2>1, MaxExists
  <2> HIDE DEF m
  <2>3. m \in DOMAIN all /\ bucket(m) = b /\ b >= from
    BY <2>2 DEF T
  <2>4. \A ts \in DOMAIN all : bucket(ts) = b => ts \in T
    BY <2>3 DEF T
  <2>5. IsLast(all, size, clock, m)
    BY <1>6, <2>2, <2>3, <2>4 DEF IsLast
  <2>6. bucket(m) \in DOMAIN held /\ held[bucket(m)] = all[m]
    BY <1>3, <2>3, <2>5 DEF HoldsLast
  <2> QED
    BY <2>3, <2>6 DEF m, T
<1>8. DOMAIN held \subseteq {bucket(ts) : ts \in ever}
  BY <1>3 DEF HoldsLast
<1> HIDE DEF in, ever, bucket
<1>9. DOMAIN held = {bucket(ts) : ts \in ever}
  BY <1>7, <1>8
<1>10. \A b \in DOMAIN held : held[b] = all[Max(in(b))]
  BY <1>7, <1>9
<1> QED
  BY <1>9, <1>10 DEF in, ever, bucket, size, from, all, held

LEMMA InvGivesWholeAverages == TiersInv => GaugesAverageWholeBuckets
<1> SUFFICES ASSUME TiersInv, done = "pass", NEW i \in 2..Coarsest,
                    NEW b \in DOMAIN WholeAverages(measured)[i],
                    b + Tiers[i].bucket <= clock, b >= clock - Tiers[i].retain
             PROVE  b \in DOMAIN gauges[i] /\ gauges[i][b] = WholeAverages(measured)[i][b]
  BY DEF GaugesAverageWholeBuckets
<1> DEFINE W == WholeAverages(measured)[i]
           size == Tiers[i].bucket
           from == clock - Tiers[i].retain
<1>1. KeptSince(clock) /\ TiersTypeOK
  BY DEF TiersInv, KeptSince, LastPass
<1>2. HoldsWhole(gauges[i], W, size, from, clock)
  BY <1>1 DEF KeptSince, GaugesHold
<1>3. clock \in Nat /\ i \in DOMAIN Tiers /\ size \in Sizes
  BY <1>1, TierSizes DEF TiersTypeOK
<1>4. b \in Int
  <2>1. W \in RowsUpTo(clock)
    BY <1>1, <1>3, WholeType DEF TiersTypeOK
  <2> HIDE DEF W
  <2> QED
    BY <2>1, RowsAre DEF W
<1>5. b + size <= clock + 1 /\ b >= from /\ b \in DOMAIN W
  BY <1>3, <1>4 DEF Sizes
<1> HIDE DEF W, size, from
<1> QED
  BY <1>2, <1>5 DEF HoldsWhole, W

\* Whatever the time between two passes and whatever was recorded meanwhile, after a
\* pass a coarse tier has exactly the last recorded value of each bucket that it is to
\* keep (maintain's rollups, chained through the tiers, then its deletes).
THEOREM LastValuesAreKept == TiersSpec => []TiersHoldLastValues
<1> QED
  BY InitHolds, StepKeepsTiers, InvGivesLastValues, PTL DEF TiersSpec

\* The average of a bucket that is over is of all the rows it ever had, though most of
\* them are dropped by the time of a later pass (gaugeRollups, the floored cutoff).
THEOREM AveragesAreOfWholeBuckets == TiersSpec => []GaugesAverageWholeBuckets
<1> QED
  BY InitHolds, StepKeepsTiers, InvGivesWholeAverages, PTL DEF TiersSpec

-----------------------------------------------------------------------------
(* Sources. *)

\* Each row of a tier is a recorded one of its bucket.
HasSources(rows, all, size) ==
    \A b \in DOMAIN rows : \E u \in DOMAIN all : Bucket(u, size) = b /\ rows[b] = all[u]
TiersHaveSources(tiers, all) ==
    \A i \in 1..Len(Tiers) : HasSources(tiers[i], all, Tiers[i].bucket)

LEMMA LastHasSources ==
    ASSUME NEW c \in Nat, NEW all \in RowsUpTo(c), NEW rows \in RowsUpTo(c),
           NEW small \in Sizes, NEW size \in Sizes, size % small = 0,
           HasSources(rows, all, small), NEW from \in Int
    PROVE  HasSources(LastPerBucket(rows, size, from), all, size)
<1> DEFINE recent == {ts \in DOMAIN rows : ts >= from}
           in(b) == {ts \in recent : Bucket(ts, size) = b}
           keys == {Bucket(ts, size) : ts \in recent}
<1>1. LastPerBucket(rows, size, from) = [b \in keys |-> rows[Max(in(b))]]
  BY DEF LastPerBucket
<1>2. \A ts \in DOMAIN rows : ts \in 0..c
  BY RowsAre
<1>3. ASSUME NEW b \in keys
      PROVE  \E u \in DOMAIN all : Bucket(u, size) = b /\ rows[Max(in(b))] = all[u]
  <2> DEFINE T == in(b)
             m == Max(T)
  <2>1. T \in SUBSET (0..c) /\ T # {}
    BY <1>2
  <2> HIDE DEF T
  <2>2. m \in T
    BY <2>1, MaxExists
  <2> HIDE DEF m
  <2>3. m \in DOMAIN rows /\ Bucket(m, size) = b
    BY <2>2 DEF T
  <2>4. PICK u \in DOMAIN all : Bucket(u, small) = m /\ rows[m] = all[u]
    BY <2>3 DEF HasSources
  <2>5. u \in Int
    BY RowsAre
  <2>6. Bucket(Bucket(u, small), size) = Bucket(u, size)
    BY <2>5, BucketOfBucket
  <2> QED
    BY <2>3, <2>4, <2>6 DEF m, T
<1> HIDE DEF keys, in
<1> QED
  BY <1>1, <1>3 DEF HasSources

LEMMA OverHasSources ==
    ASSUME NEW new, NEW old, NEW all, NEW size, HasSources(new, all, size),
           HasSources(old, all, size)
    PROVE  HasSources(Over(new, old), all, size)
BY DEF HasSources, Over

LEMMA SinceHasSources ==
    ASSUME NEW rows, NEW all, NEW size, HasSources(rows, all, size), NEW from
    PROVE  HasSources(Since(rows, from), all, size)
BY DEF HasSources, Since

LEMMA RolledUpHasSources ==
    ASSUME clock \in Nat, NEW all \in RowsUpTo(clock),
           NEW tiers \in [DOMAIN Tiers -> RowsUpTo(clock)], TiersHaveSources(tiers, all)
    PROVE  /\ RolledUp("counter", tiers, Window) \in [DOMAIN Tiers -> RowsUpTo(clock)]
           /\ TiersHaveSources(RolledUp("counter", tiers, Window), all)
<1> DEFINE r == RolledUp("counter", tiers, Window)
           N == Len(Tiers)
           Claim(i) == HasSources(r[i], all, Tiers[i].bucket)
           S == {n \in Nat : n + 1 <= N => Claim(n + 1)}
<1>0. N \in Nat /\ 1 <= N /\ DOMAIN Tiers = 1..N
  BY TierSizes
<1>1. IsChain(r, RowsUpTo(clock), "counter", tiers, Window)
  BY RolledUpType, TiersAreSane
<1> HIDE DEF r
<1>2. Claim(1)
  BY <1>0, <1>1 DEF IsChain, TiersHaveSources
<1>3. ASSUME NEW i \in 2..N, Claim(i - 1) PROVE Claim(i)
  <2> DEFINE fine == r[i - 1]
             size == Tiers[i].bucket
             small == Tiers[i - 1].bucket
             from == clock - Window[i]
             old == tiers[i]
  <2>1. i \in 1..N /\ i - 1 \in 1..N
    BY <1>0
  <2>2. fine \in RowsUpTo(clock) /\ HasSources(old, all, size) /\ HasSources(fine, all, small)
    BY <1>0, <1>1, <1>3, <2>1 DEF IsChain, TiersHaveSources
  <2>6. size \in Sizes /\ small \in Sizes
    BY <2>1, TierSizes
  <2>7. size % small = 0 /\ Window[i] \in Nat
    BY <1>0, <2>1, TiersAreSane
  <2>8. from \in Int
    BY <2>7
  <2>3. r[i] = Over(LastPerBucket(fine, size, from), old)
    BY <1>1 DEF Roll, RollInto, IsChain
  <2> HIDE DEF fine, size, small, from, old
  <2>4. HasSources(LastPerBucket(fine, size, from), all, size)
    BY <2>2, <2>6, <2>7, <2>8, LastHasSources
  <2>5. HasSources(r[i], all, size)
    BY <2>2, <2>3, <2>4, OverHasSources
  <2> QED
    BY <2>5 DEF size
<1> HIDE DEF Claim
<1>4. 0 \in S
  BY <1>2
<1>5. ASSUME NEW n \in Nat, n \in S PROVE n + 1 \in S
  <2> SUFFICES ASSUME n + 1 + 1 <= N PROVE Claim(n + 1 + 1)
    OBVIOUS
  <2>1. n + 1 <= N /\ n + 1 + 1 \in 2..N /\ (n + 1 + 1) - 1 = n + 1
    BY <1>0
  <2>2. Claim(n + 1)
    BY <1>5, <2>1
  <2> QED
    BY <1>3, <2>1, <2>2
<1> HIDE DEF S
<1>6. Nat \subseteq S
  BY <1>4, <1>5, NaturalInduction
<1>7. ASSUME NEW i \in 1..N PROVE Claim(i)
  <2>1. i - 1 \in Nat /\ (i - 1) + 1 = i /\ (i - 1) + 1 <= N
    BY <1>0
  <2> QED
    BY <1>6, <2>1 DEF S
<1> QED
  BY <1>1, <1>7 DEF Claim, N, r, TiersHaveSources, IsChain

\* A recorded row is in the finest tier, which has one bucket per instant.
LEMMA RecordHasSources ==
    ASSUME NEW c \in Nat, NEW all \in RowsUpTo(c), c \notin DOMAIN all, NEW value,
           NEW tiers, NEW next, TiersHaveSources(tiers, all),
           next[Finest] = Over(Row(c, value), tiers[Finest]),
           \A i \in 2..Coarsest : next[i] = tiers[i]
    PROVE  TiersHaveSources(next, Over(Row(c, value), all))
<1> DEFINE more == Over(Row(c, value), all)
<1>1. /\ DOMAIN more = {c} \cup DOMAIN all /\ more[c] = value
      /\ \A u \in DOMAIN all : more[u] = all[u]
  BY DEF Over, Row
<1> HIDE DEF more
<1>2. \A i \in 1..Len(Tiers) : HasSources(tiers[i], more, Tiers[i].bucket)
  BY <1>1 DEF TiersHaveSources, HasSources
<1>3. Finest = 1 /\ Coarsest = Len(Tiers) /\ Len(Tiers) \in Nat /\ 1 \in 1..Len(Tiers)
      /\ Tiers[1].bucket = 1
  BY TierSizes, TiersAreSane
<1>4. HasSources(Row(c, value), more, 1)
  <2>1. Bucket(c, 1) = c
    BY BucketOfOne
  <2> QED
    BY <1>1, <2>1 DEF HasSources, Row
<1>5. HasSources(next[1], more, 1)
  BY <1>2, <1>3, <1>4, OverHasSources
<1>6. ASSUME NEW i \in 1..Len(Tiers) PROVE HasSources(next[i], more, Tiers[i].bucket)
  <2>1. i = 1 \/ i \in 2..Coarsest
    BY <1>3
  <2> QED
    BY <1>2, <1>3, <1>5, <2>1
<1> QED
  BY <1>6 DEF TiersHaveSources, more

-----------------------------------------------------------------------------
(* What a torrent has transferred, read off its recorded rows. *)

\* A meter tells at each recorded row how much the torrent had transferred by then:
\* it never falls, and no counter rises by more than it does.
Metered(M, all, top) ==
    /\ M \in [DOMAIN all -> 0..top]
    /\ \A x, y \in DOMAIN all : x <= y => M[x] <= M[y] /\ all[y] - all[x] <= M[y] - M[x]
ReadsUpTo(M, all, top, now) ==
    \A x \in DOMAIN all : 0 <= all[x] /\ now - all[x] <= top - M[x]

LEMMA MeterGoesOn ==
    ASSUME NEW all, NEW top \in Nat, NEW more \in Nat, top <= more, NEW M, Metered(M, all, top)
    PROVE  Metered(M, all, more)
BY DEF Metered

LEMMA MeterRecords ==
    ASSUME NEW c \in Nat, NEW all \in RowsUpTo(c), c \notin DOMAIN all, NEW value \in Nat,
           NEW top \in Nat, NEW M, Metered(M, all, top), ReadsUpTo(M, all, top, value)
    PROVE  \E K : /\ Metered(K, Over(Row(c, value), all), top)
                  /\ ReadsUpTo(K, Over(Row(c, value), all), top, value)
<1> DEFINE more == Over(Row(c, value), all)
           K == [x \in {c} \cup DOMAIN all |-> IF x = c THEN top ELSE M[x]]
<1>1. DOMAIN more = {c} \cup DOMAIN all /\ more[c] = value /\ \A x \in DOMAIN all : more[x] = all[x]
  BY DEF Over, Row
<1>2. \A x \in DOMAIN all : x \in Int /\ x < c /\ all[x] \in Int /\ M[x] \in 0..top
  <2>1. \A x \in DOMAIN all : x \in 0..c /\ all[x] \in Int
    BY RowsAre
  <2> QED
    BY <2>1 DEF Metered
<1>3. K \in [DOMAIN more -> 0..top]
  BY <1>1, <1>2
<1>4. K[c] = top /\ \A x \in DOMAIN all : K[x] = M[x]
  BY <1>2
<1> HIDE DEF more, K
<1>5. ASSUME NEW x \in DOMAIN more, NEW y \in DOMAIN more, x <= y
      PROVE  K[x] <= K[y] /\ more[y] - more[x] <= K[y] - K[x]
  <2>1. CASE x = c
    <3>1. y = c
      BY <1>1, <1>2, <1>5, <2>1
    <3> QED
      BY <1>1, <1>4, <2>1, <3>1
  <2>2. CASE x # c /\ y = c
    BY <1>1, <1>2, <1>4, <2>2 DEF ReadsUpTo
  <2>3. CASE x # c /\ y # c
    BY <1>1, <1>4, <1>5, <2>3 DEF Metered
  <2> QED
    BY <2>1, <2>2, <2>3
<1>6. Metered(K, more, top)
  BY <1>3, <1>5 DEF Metered
<1>7. ReadsUpTo(K, more, top, value)
  BY <1>1, <1>4 DEF ReadsUpTo
<1> QED
  BY <1>6, <1>7 DEF more

\* The invariant, torrent by torrent.
MeterOf(t) ==
    /\ Of(t) \in [DOMAIN Tiers -> RowsUpTo(clock)] /\ TiersHaveSources(Of(t), recorded[t])
    /\ DOMAIN recorded[t] \subseteq DOMAIN measured
    /\ DOMAIN recorded[t] # {} => t \in Present /\ firstSeen[t] > 0
    /\ \E M : /\ Metered(M, recorded[t], moved[t])
              /\ t \in Present => ReadsUpTo(M, recorded[t], moved[t], counter[t])
MeterInv ==
    /\ clock > 0 /\ moved \in [Torrents -> Nat] /\ firstSeen \in [Torrents -> Nat]
    /\ \A t \in Present : counter[t] \in Nat
    /\ \A t \in Torrents : MeterOf(t)

LEMMA MeterInit == TiersInit => MeterInv
<1> SUFFICES ASSUME TiersInit PROVE MeterInv
  OBVIOUS
<1>1. /\ clock > 0 /\ moved \in [Torrents -> Nat] /\ firstSeen \in [Torrents -> Nat]
      /\ \A t \in Present : counter[t] \in Nat
  BY TorrentsAreSane DEF TiersInit, Present
<1>2. ASSUME NEW t \in Torrents PROVE MeterOf(t)
  <2>1. t \in Series /\ NoRows \in RowsUpTo(clock)
    BY NoRowsType DEF Series
  <2>2. Of(t) = [i \in DOMAIN Tiers |-> NoRows] /\ recorded[t] = NoRows
    BY <2>1 DEF TiersInit, Of
  <2>3. DOMAIN NoRows = {}
    BY DEF NoRows
  <2>4. TiersHaveSources(Of(t), recorded[t])
    BY <2>2, <2>3, TierSizes DEF TiersHaveSources, HasSources
  <2>5. Metered(NoRows, recorded[t], moved[t])
    BY <2>2, <2>3 DEF Metered, NoRows
  <2>6. ReadsUpTo(NoRows, recorded[t], moved[t], counter[t])
    BY <2>2, <2>3 DEF ReadsUpTo
  <2> QED
    BY <2>1, <2>2, <2>3, <2>4, <2>5, <2>6 DEF MeterOf
<1> QED
  BY <1>1, <1>2 DEF MeterInv

\* A step that records nothing: the tiers may be rolled up and dropped from.
LEMMA MeterKept ==
    ASSUME TiersTypeOK, MeterInv, NEW t \in Torrents, UNCHANGED <<recorded, measured, moved, firstSeen>>,
           Of(t)' \in [DOMAIN Tiers -> RowsUpTo(clock')], TiersHaveSources(Of(t)', recorded[t]),
           t \in Present => t \in Present',
           t \in Present' /\ DOMAIN recorded[t] # {} => counter'[t] <= counter[t] /\ counter'[t] \in Int
    PROVE  MeterOf(t)'
<1>1. PICK M : /\ Metered(M, recorded[t], moved[t])
               /\ t \in Present => ReadsUpTo(M, recorded[t], moved[t], counter[t])
  BY DEF MeterInv, MeterOf
<1>2. /\ DOMAIN recorded[t] \subseteq DOMAIN measured
      /\ DOMAIN recorded[t] # {} => t \in Present /\ firstSeen[t] > 0
      /\ t \in Present => counter[t] \in Nat
  BY DEF MeterInv, MeterOf
<1>3. ASSUME t \in Present' PROVE ReadsUpTo(M, recorded[t], moved[t], counter'[t])
  <2>1. recorded[t] \in RowsUpTo(clock) /\ moved[t] \in Nat
    BY DEF TiersTypeOK, Series, MeterInv
  <2>2. ASSUME NEW x \in DOMAIN recorded[t]
        PROVE  0 <= recorded[t][x] /\ counter'[t] - recorded[t][x] <= moved[t] - M[x]
    <3>1. recorded[t][x] \in Int
      BY <2>1, RowsAre
    <3>2. M[x] \in 0..moved[t]
      BY <1>1 DEF Metered
    <3>3. 0 <= recorded[t][x] /\ counter[t] - recorded[t][x] <= moved[t] - M[x]
      BY <1>1, <1>2, <2>2 DEF ReadsUpTo
    <3>4. counter'[t] <= counter[t] /\ counter'[t] \in Int /\ counter[t] \in Int
      BY <1>2, <1>3, <2>2
    <3> QED
      BY <2>1, <3>1, <3>2, <3>3, <3>4
  <2> QED
    BY <2>2 DEF ReadsUpTo
<1> QED
  BY <1>1, <1>2, <1>3 DEF MeterOf

\* What a round does to a torrent: nothing is written, or its new counter is.
Recorded(t) ==
    /\ recorded'[t] = Over(Row(clock, counter'[t]), recorded[t])
    /\ Of(t)'[Finest] = Over(Row(clock, counter'[t]), Of(t)[Finest])
    /\ \A i \in 2..Coarsest : Of(t)'[i] = Of(t)[i]

LEMMA RoundOfTorrent ==
    ASSUME TiersTypeOK, NEW transferring, Round(transferring), NEW t \in Torrents
    PROVE  /\ (t \in Present /\ Recorded(t)) \/ (recorded'[t] = recorded[t] /\ Of(t)' = Of(t))
           /\ Present' = Present
           /\ t \in Present =>
                  counter'[t] = counter[t] + IF t \in transferring THEN Unit ELSE 0
<1> DEFINE now == [u \in Present |-> counter[u] + IF u \in transferring THEN Unit ELSE 0]
           value == Over(now, Row(Total, SumOf(now)))
           written == {s \in DOMAIN value : last[s] # value[s]}
           record(s, rows) == IF s \in written THEN Over(Row(clock, value[s]), rows) ELSE rows
           finest == [s \in Series |-> record(s, samples[Finest][s])]
<1>1. /\ done = "nothing" /\ counter' = now
      /\ samples' = [samples EXCEPT ![Finest] = finest]
      /\ recorded' = [s \in Series |-> record(s, recorded[s])]
  BY DEF Round
<1>2. t \in Series /\ t # Total
  BY TorrentsAreSane DEF Series
<1>3. DOMAIN now = Present /\ (t \in Present =>
          now[t] = counter[t] + IF t \in transferring THEN Unit ELSE 0)
  OBVIOUS
<1> HIDE DEF now
<1>4. (t \in DOMAIN value <=> t \in Present) /\ (t \in Present => value[t] = now[t])
  BY <1>2, <1>3 DEF Over, Row
<1>5. samples \in [DOMAIN Tiers -> [Series -> RowsUpTo(clock)]] /\ Finest \in DOMAIN Tiers
      /\ \A i \in 2..Coarsest : i \in DOMAIN Tiers /\ i # Finest
  BY <1>1, TierSizes DEF TiersTypeOK
<1> HIDE DEF value
<1>6. recorded'[t] = record(t, recorded[t])
  BY <1>1, <1>2
<1>7. finest[t] = record(t, samples[Finest][t])
  BY <1>2
<1> HIDE DEF record, finest
<1>8. \A i \in DOMAIN Tiers : samples'[i][t] = IF i = Finest THEN record(t, samples[i][t]) ELSE samples[i][t]
  BY <1>1, <1>5, <1>7
<1>9. Of(t)' = [i \in DOMAIN Tiers |-> samples'[i][t]] /\ Of(t) = [i \in DOMAIN Tiers |-> samples[i][t]]
  BY DEF Of
<1>10. CASE t \in written
  <2>1. t \in Present /\ value[t] = counter'[t]
    BY <1>1, <1>4, <1>10
  <2>2. \A rows : record(t, rows) = Over(Row(clock, counter'[t]), rows)
    BY <1>10, <2>1 DEF record
  <2>3. Recorded(t)
    BY <1>5, <1>6, <1>8, <1>9, <2>2 DEF Recorded
  <2> QED
    BY <1>1, <1>3, <2>1, <2>3 DEF Present
<1>11. CASE t \notin written
  <2>1. \A rows : record(t, rows) = rows
    BY <1>11 DEF record
  <2>2. \A i \in DOMAIN Tiers : samples'[i][t] = samples[i][t]
    BY <1>8, <2>1
  <2>3. recorded'[t] = recorded[t] /\ Of(t)' = Of(t)
    BY <1>6, <1>9, <2>1, <2>2
  <2> QED
    BY <1>1, <1>3, <2>3 DEF Present
<1> QED
  BY <1>10, <1>11

LEMMA RoundMeters ==
    ASSUME TiersTypeOK, TiersTypeOK', MeterInv, NEW transferring \in SUBSET DOMAIN counter,
           Round(transferring)
    PROVE  MeterInv'
<1>1. /\ done = "nothing" /\ done' = "nothing" /\ clock' = clock /\ NoRoundYet
      /\ DOMAIN measured' = {clock} \cup DOMAIN measured
      /\ moved' = [t \in Torrents |->
             IF t \in transferring /\ firstSeen[t] > 0 THEN moved[t] + Unit ELSE moved[t]]
      /\ firstSeen' = [t \in Torrents |->
             IF t \in Present /\ firstSeen[t] = 0 THEN clock ELSE firstSeen[t]]
  BY DEF Round, Over, Row
<1>2. /\ clock \in Nat /\ clock > 0 /\ Unit \in Nat
      /\ moved \in [Torrents -> Nat] /\ firstSeen \in [Torrents -> Nat]
      /\ recorded \in [Series -> RowsUpTo(clock)]
  BY TorrentsAreSane DEF MeterInv, TiersTypeOK
<1>3. moved' \in [Torrents -> Nat] /\ firstSeen' \in [Torrents -> Nat]
  BY <1>1, <1>2
<1>4. Present \in SUBSET Torrents
  BY DEF TiersTypeOK, Present
<1>5. \A t \in Torrents : /\ Present' = Present
                          /\ t \in Present =>
                                 counter'[t] = counter[t] + IF t \in transferring THEN Unit ELSE 0
  BY RoundOfTorrent
<1>6. \A t \in Present' : counter'[t] \in Nat
  <2>1. \A t \in Torrents : t \in Present' => counter'[t] \in Nat
    BY <1>2, <1>5 DEF MeterInv
  <2>2. Present' \in SUBSET Torrents
    BY DEF TiersTypeOK, Present
  <2> QED
    BY <2>1, <2>2
<1>7. ASSUME NEW t \in Torrents PROVE MeterOf(t)'
  <2> DEFINE all == recorded[t]
             top == moved[t]
             more == moved'[t]
             value == counter'[t]
             tiers == Of(t)
             next == Of(t)'
  <2>1. /\ t \in Series /\ all \in RowsUpTo(clock) /\ top \in Nat /\ more \in Nat /\ top <= more
        /\ DOMAIN all \subseteq DOMAIN measured /\ clock \notin DOMAIN all
        /\ DOMAIN all # {} => t \in Present /\ firstSeen[t] > 0
        /\ TiersHaveSources(tiers, all)
    BY <1>1, <1>2 DEF Series, MeterInv, MeterOf, NoRoundYet
  <2>2. next \in [DOMAIN Tiers -> RowsUpTo(clock)]
    BY <1>1, <2>1 DEF Of, TiersTypeOK
  <2>3. PICK M : Metered(M, all, top) /\ (t \in Present => ReadsUpTo(M, all, top, counter[t]))
    BY DEF MeterInv, MeterOf
  <2>4. Metered(M, all, more)
    BY <2>1, <2>3, MeterGoesOn
  <2>5. ASSUME t \in Present PROVE ReadsUpTo(M, all, more, value) /\ value \in Nat
    <3>1. value = counter[t] + IF t \in transferring THEN Unit ELSE 0
      BY <1>5, <2>5
    <3>2. counter[t] \in Nat /\ value \in Nat
      BY <1>2, <2>5, <3>1 DEF MeterInv
    <3>3. ASSUME NEW x \in DOMAIN all PROVE 0 <= all[x] /\ value - all[x] <= more - M[x]
      <4>1. 0 <= all[x] /\ counter[t] - all[x] <= top - M[x]
        BY <2>3, <2>5 DEF ReadsUpTo
      <4>2. all[x] \in Int /\ M[x] \in Int
        BY <2>1, <2>3, RowsAre DEF Metered
      <4>3. more = top + IF t \in transferring THEN Unit ELSE 0
        BY <1>1, <2>1, <3>3
      <4> HIDE DEF all, more, value, top
      <4> QED
        BY <1>2, <2>1, <3>1, <3>2, <4>1, <4>2, <4>3
    <3> QED
      BY <3>2, <3>3 DEF ReadsUpTo
  <2>6. t \in Present => t \in Present' /\ firstSeen'[t] > 0
    BY <1>1, <1>2, <1>5
  <2>7. CASE recorded'[t] = all /\ next = tiers
    <3>1. \E K : /\ Metered(K, recorded'[t], more)
                 /\ t \in Present' => ReadsUpTo(K, recorded'[t], more, value)
      BY <1>5, <2>4, <2>5, <2>7
    <3> QED
      BY <1>1, <2>1, <2>2, <2>6, <2>7, <3>1 DEF MeterOf
  <2>8. CASE t \in Present /\ Recorded(t)
    <3> DEFINE grown == Over(Row(clock, value), all)
    <3>1. recorded'[t] = grown /\ next[Finest] = Over(Row(clock, value), tiers[Finest])
          /\ \A i \in 2..Coarsest : next[i] = tiers[i]
      BY <2>8 DEF Recorded
    <3>2. DOMAIN grown = {clock} \cup DOMAIN all
      BY DEF Over, Row
    <3> HIDE DEF all, more, value, top, tiers, next
    <3>3. TiersHaveSources(next, grown)
      BY <1>2, <2>1, <3>1, RecordHasSources
    <3>4. value \in Nat /\ ReadsUpTo(M, all, more, value)
      BY <2>5, <2>8
    <3>5. \E K : Metered(K, grown, more) /\ ReadsUpTo(K, grown, more, value)
      BY <1>2, <2>1, <2>4, <3>4, MeterRecords
    <3>6. DOMAIN grown \subseteq DOMAIN measured'
      BY <1>1, <2>1, <3>2
    <3> HIDE DEF grown
    <3> QED
      BY <1>1, <2>2, <2>6, <2>8, <3>1, <3>3, <3>5, <3>6 DEF MeterOf, next, more, value
  <2> QED
    BY <2>7, <2>8, RoundOfTorrent
<1> QED
  BY <1>1, <1>2, <1>3, <1>6, <1>7 DEF MeterInv

LEMMA TickMeters ==
    ASSUME TiersTypeOK, MeterInv, Tick
    PROVE  MeterInv'
<1>1. /\ clock' = clock + 1
      /\ UNCHANGED <<counter, samples, gauges, firstSeen, last, recorded, measured, moved>>
  BY DEF Tick
<1>2. clock \in Nat
  BY DEF TiersTypeOK
<1>3. ASSUME NEW t \in Torrents PROVE MeterOf(t)'
  <2>1. Of(t)' = Of(t) /\ Present' = Present
    BY <1>1 DEF Of, Present
  <2>2. Of(t) \in [DOMAIN Tiers -> RowsUpTo(clock)] /\ TiersHaveSources(Of(t), recorded[t])
    BY DEF MeterInv, MeterOf
  <2>3. Of(t) \in [DOMAIN Tiers -> RowsUpTo(clock + 1)]
    BY <1>2, <2>2, RowsGrow
  <2>4. t \in Present => counter[t] \in Nat
    BY DEF MeterInv
  <2> QED
    BY <1>1, <2>1, <2>2, <2>3, <2>4, MeterKept
<1> QED
  BY <1>1, <1>2, <1>3 DEF MeterInv, Present

LEMMA CounterMeters ==
    ASSUME TiersTypeOK, MeterInv,
           UNCHANGED <<clock, samples, firstSeen, recorded, measured, moved>>,
           Present \subseteq Present', \A t \in Present' : counter'[t] \in Nat,
           \A t \in Present : counter'[t] <= counter[t]
    PROVE  MeterInv'
<1>1. ASSUME NEW t \in Torrents PROVE MeterOf(t)'
  <2>1. Of(t)' = Of(t)
    BY DEF Of
  <2>2. /\ Of(t) \in [DOMAIN Tiers -> RowsUpTo(clock)] /\ TiersHaveSources(Of(t), recorded[t])
        /\ DOMAIN recorded[t] # {} => t \in Present
    BY DEF MeterInv, MeterOf
  <2>3. t \in Present' => counter'[t] \in Int
    OBVIOUS
  <2> QED
    BY <2>1, <2>2, <2>3, MeterKept
<1> QED
  BY <1>1 DEF MeterInv

LEMMA PassMeters ==
    ASSUME TiersTypeOK, MeterInv, Pass
    PROVE  MeterInv'
<1>1. /\ samples' = BySeries([s \in Series |-> Retained(CaughtUp[s])])
      /\ UNCHANGED <<clock, counter, firstSeen, last, recorded, measured, moved>>
  BY DEF Pass
<1>2. clock \in Nat /\ recorded \in [Series -> RowsUpTo(clock)]
  BY DEF TiersTypeOK
<1>3. ASSUME NEW t \in Torrents PROVE MeterOf(t)'
  <2> DEFINE tiers == Of(t)
             r == RolledUp("counter", tiers, Window)
  <2>1. t \in Series /\ tiers \in [DOMAIN Tiers -> RowsUpTo(clock)]
        /\ TiersHaveSources(tiers, recorded[t]) /\ recorded[t] \in RowsUpTo(clock)
    BY <1>2 DEF MeterInv, MeterOf, Series
  <2>2. r \in [DOMAIN Tiers -> RowsUpTo(clock)] /\ TiersHaveSources(r, recorded[t])
    <3> HIDE DEF tiers
    <3> QED
      BY <1>2, <2>1, RolledUpHasSources
  <2>3. Of(t)' = [i \in DOMAIN Tiers |-> Retained(r)[i]]
    BY <1>1, <2>1 DEF Of, BySeries, CaughtUp
  <2> HIDE DEF r
  <2>4. Retained(r) \in [DOMAIN Tiers -> RowsUpTo(clock)]
    BY <1>2, <2>2, RetainedType
  <2>5. Of(t)' = Retained(r)
    BY <2>3, <2>4
  <2>6. TiersHaveSources(Retained(r), recorded[t])
    <3>1. Retained(r) = [i \in DOMAIN Tiers |-> Since(r[i], clock - Tiers[i].retain)]
      BY DEF Retained, Since
    <3>2. ASSUME NEW i \in 1..Len(Tiers)
          PROVE  HasSources(Retained(r)[i], recorded[t], Tiers[i].bucket)
      <4>1. HasSources(r[i], recorded[t], Tiers[i].bucket) /\ i \in DOMAIN Tiers
        BY <2>2, TierSizes DEF TiersHaveSources
      <4>2. HasSources(Since(r[i], clock - Tiers[i].retain), recorded[t], Tiers[i].bucket)
        BY <4>1, SinceHasSources
      <4> QED
        BY <3>1, <4>1, <4>2
    <3> QED
      BY <3>2 DEF TiersHaveSources
  <2>7. t \in Present => t \in Present' /\ counter'[t] \in Nat /\ counter'[t] = counter[t]
    BY <1>1 DEF MeterInv, Present
  <2>8. t \in Present' => t \in Present
    BY <1>1 DEF Present
  <2> QED
    BY <1>1, <2>4, <2>5, <2>6, <2>7, <2>8, MeterKept
<1> QED
  BY <1>1, <1>3 DEF MeterInv, Present

LEMMA RebuildMeters ==
    ASSUME TiersTypeOK, MeterInv, Rebuild
    PROVE  MeterInv'
<1>1. /\ samples' = [i \in DOMAIN Tiers |-> [s \in Series |->
             IF s = Total THEN RunningSum([t \in Torrents |-> CaughtUp[t][i]]) ELSE CaughtUp[s][i]]]
      /\ UNCHANGED <<clock, counter, firstSeen, recorded, measured, moved>>
  BY DEF Rebuild
<1>2. clock \in Nat /\ recorded \in [Series -> RowsUpTo(clock)]
  BY DEF TiersTypeOK
<1>3. ASSUME NEW t \in Torrents PROVE MeterOf(t)'
  <2> DEFINE tiers == Of(t)
             r == RolledUp("counter", tiers, Window)
  <2>1. t \in Series /\ t # Total /\ tiers \in [DOMAIN Tiers -> RowsUpTo(clock)]
        /\ TiersHaveSources(tiers, recorded[t]) /\ recorded[t] \in RowsUpTo(clock)
    BY <1>2, TorrentsAreSane DEF MeterInv, MeterOf, Series
  <2>2. r \in [DOMAIN Tiers -> RowsUpTo(clock)] /\ TiersHaveSources(r, recorded[t])
    <3> HIDE DEF tiers
    <3> QED
      BY <1>2, <2>1, RolledUpHasSources
  <2>3. Of(t)' = [i \in DOMAIN Tiers |-> r[i]]
    BY <1>1, <2>1 DEF Of, CaughtUp
  <2> HIDE DEF r
  <2>4. Of(t)' = r
    BY <2>2, <2>3
  <2>5. t \in Present => t \in Present' /\ counter'[t] \in Nat /\ counter'[t] = counter[t]
    BY <1>1 DEF MeterInv, Present
  <2>6. t \in Present' => t \in Present
    BY <1>1 DEF Present
  <2> QED
    BY <1>1, <2>2, <2>4, <2>5, <2>6, MeterKept
<1> QED
  BY <1>1, <1>3 DEF MeterInv, Present

LEMMA StepMeters == TiersInv /\ TiersInv' /\ MeterInv /\ [TiersNext]_allVars => MeterInv'
<1> SUFFICES ASSUME TiersTypeOK, TiersTypeOK', MeterInv, [TiersNext]_allVars PROVE MeterInv'
  BY DEF TiersInv
<1>1. ASSUME UNCHANGED <<clock, counter, samples, firstSeen, recorded, measured, moved>>
      PROVE  MeterInv'
  <2>1. Present' = Present /\ \A t \in Present : counter[t] \in Nat
    BY <1>1 DEF Present, MeterInv
  <2> QED
    BY <1>1, <2>1, CounterMeters
<1>2. CASE UNCHANGED allVars
  BY <1>1, <1>2 DEF allVars, tierVars
<1>3. CASE Start
  BY <1>1, <1>3 DEF Start, tierVars
<1>4. CASE Stop
  BY <1>1, <1>4 DEF Stop
<1>5. CASE World
  <2>1. CASE Tick
    BY <2>1, TickMeters
  <2>2. ASSUME NEW t \in Torrents, AddTorrent(t) PROVE MeterInv'
    <3>1. /\ counter' = Over(Row(t, PartDone), counter) /\ t \notin Present
          /\ UNCHANGED <<clock, samples, firstSeen, recorded, measured, moved>>
      BY <2>2 DEF AddTorrent
    <3>2. /\ Present' = Present \cup {t} /\ counter'[t] = PartDone
          /\ \A u \in Present : counter'[u] = counter[u]
      BY <3>1 DEF Over, Row, Present
    <3>3. PartDone \in Nat /\ \A u \in Present : counter[u] \in Nat
      BY TorrentsAreSane DEF MeterInv
    <3> QED
      BY <3>1, <3>2, <3>3, CounterMeters
  <2>3. ASSUME NEW t \in Torrents, ResetTorrent(t) PROVE MeterInv'
    <3>1. /\ counter' = [counter EXCEPT ![t] = 0]
          /\ UNCHANGED <<clock, samples, firstSeen, recorded, measured, moved>>
      BY <2>3 DEF ResetTorrent
    <3>2. Present' = Present /\ \A u \in Present : counter[u] \in Nat
      BY <3>1 DEF Present, MeterInv
    <3>3. \A u \in Present : counter'[u] = IF u = t THEN 0 ELSE counter[u]
      BY <3>1 DEF Present
    <3> QED
      BY <3>1, <3>2, <3>3, CounterMeters
  <2> QED
    BY <1>5, <2>1, <2>2, <2>3 DEF World
<1>6. CASE Store
  <2>1. ASSUME NEW transferring \in SUBSET {t \in Present \cap Movers : moved[t] < MaxMoved},
               Round(transferring)
        PROVE  MeterInv'
    <3>1. transferring \in SUBSET DOMAIN counter
      BY DEF Present
    <3> QED
      BY <2>1, <3>1, RoundMeters
  <2>2. CASE Pass
    BY <2>2, PassMeters
  <2>3. CASE Rebuild
    BY <2>3, RebuildMeters
  <2> QED
    BY <1>6, <2>1, <2>2, <2>3 DEF Store
<1> QED
  BY <1>2, <1>3, <1>4, <1>5, <1>6 DEF TiersNext

-----------------------------------------------------------------------------
(* Charts. *)

LEMMA MinExists ==
    ASSUME NEW c \in Nat, NEW T \in SUBSET (0..c), T # {}
    PROVE  T \in SUBSET Int /\ Min(T) \in T /\ \A y \in T : Min(T) <= y
<1>1. T \in SUBSET Nat /\ T \in SUBSET Int
  OBVIOUS
<1>2. PICK m \in T : \A y \in T : m <= y
  BY <1>1, SmallestElement
<1>3. \A x \in T : (\A y \in T : x <= y) => x = m
  BY <1>1, <1>2
<1>4. Min(T) = m
  BY <1>2, <1>3 DEF Min
<1> QED
  BY <1>1, <1>2, <1>4

\* The row a chart reads at an instant.
RowAt(rows, x) ==
    LET upTo == {ts \in DOMAIN rows : ts <= x}
    IN IF upTo = {} THEN Min(DOMAIN rows) ELSE Max(upTo)

LEMMA RowAtMoves ==
    ASSUME NEW c \in Nat, NEW rows \in RowsUpTo(c), DOMAIN rows # {}, NEW x \in Int, NEW y \in Int,
           x <= y
    PROVE  RowAt(rows, x) \in DOMAIN rows /\ RowAt(rows, x) <= RowAt(rows, y)
<1> DEFINE D == DOMAIN rows
           upTo(z) == {ts \in D : ts <= z}
<1>1. D \in SUBSET (0..c) /\ D # {} /\ \A ts \in D : ts \in Int
  BY RowsAre
<1> HIDE DEF D
<1>2. Min(D) \in D /\ \A ts \in D : Min(D) <= ts
  BY <1>1, MinExists
<1>3. ASSUME NEW z \in Int, upTo(z) # {}
      PROVE  Max(upTo(z)) \in upTo(z) /\ \A ts \in upTo(z) : ts <= Max(upTo(z))
  <2> DEFINE T == upTo(z)
  <2>1. T \in SUBSET (0..c) /\ T # {}
    BY <1>1, <1>3
  <2> HIDE DEF T
  <2>2. Max(T) \in T /\ \A ts \in T : ts <= Max(T)
    BY <2>1, MaxExists
  <2> QED
    BY <2>2 DEF T
<1>4. \A z \in Int : RowAt(rows, z) = IF upTo(z) = {} THEN Min(D) ELSE Max(upTo(z))
  BY DEF RowAt, D
<1>5. upTo(x) \subseteq upTo(y) /\ upTo(x) \subseteq D /\ upTo(y) \subseteq D
  <2>1. ASSUME NEW ts \in upTo(x) PROVE ts \in upTo(y)
    <3>1. ts \in Int /\ ts <= x /\ ts \in D
      BY <1>1
    <3> QED
      BY <3>1
  <2> QED
    BY <2>1
<1> HIDE DEF upTo
<1>6. CASE upTo(x) = {} /\ upTo(y) = {}
  BY <1>1, <1>2, <1>4, <1>6 DEF D
<1>7. CASE upTo(x) = {} /\ upTo(y) # {}
  BY <1>1, <1>2, <1>3, <1>4, <1>5, <1>7 DEF D
<1>8. CASE upTo(x) # {}
  <2>1. upTo(y) # {} /\ Max(upTo(x)) \in upTo(x) /\ Max(upTo(x)) <= Max(upTo(y))
    BY <1>3, <1>5, <1>8
  <2> QED
    BY <1>4, <1>5, <1>8, <2>1 DEF D
<1> QED
  BY <1>6, <1>7, <1>8

\* A meter of the recorded rows is one for what a chart reads off a tier.
LEMMA ChartHasMeter ==
    ASSUME NEW c \in Nat, NEW all \in RowsUpTo(c), NEW rows \in RowsUpTo(c), NEW size \in Sizes,
           HasSources(rows, all, size), NEW top \in Nat, NEW M, Metered(M, all, top)
    PROVE  \E G \in [Int -> 0..top] : \A x, y \in Int : x <= y =>
               /\ CumulativeAt(rows, x) \in Int /\ CumulativeAt(rows, y) \in Int
               /\ G[x] <= G[y]
               /\ CumulativeAt(rows, y) - CumulativeAt(rows, x) <= G[y] - G[x]
<1>1. CASE DOMAIN rows = {}
  <2>1. \A x : CumulativeAt(rows, x) = 0
    BY <1>1 DEF CumulativeAt
  <2> DEFINE G == [x \in Int |-> 0]
  <2>2. G \in [Int -> 0..top] /\ \A x \in Int : G[x] = 0
    OBVIOUS
  <2> HIDE DEF G
  <2> QED
    BY <2>1, <2>2
<1>2. CASE DOMAIN rows # {}
  <2> DEFINE Source(b, u) == u \in DOMAIN all /\ Bucket(u, size) = b /\ rows[b] = all[u]
             src(b) == CHOOSE u : Source(b, u)
             G == [x \in Int |-> M[src(RowAt(rows, x))]]
  <2>1. \A b \in DOMAIN rows : Source(b, src(b))
    <3>1. \A b \in DOMAIN rows : \E u : Source(b, u)
      BY DEF HasSources
    <3> HIDE DEF Source
    <3> QED
      BY <3>1
  <2> HIDE DEF src
  <2>2. \A x \in Int : RowAt(rows, x) \in DOMAIN rows
    BY <1>2, RowAtMoves
  <2>3. \A u \in DOMAIN all : u \in Int /\ all[u] \in Int
    BY RowsAre
  <2>4. \A x \in Int : CumulativeAt(rows, x) = all[src(RowAt(rows, x))]
    <3>1. ASSUME NEW x \in Int PROVE CumulativeAt(rows, x) = rows[RowAt(rows, x)]
      BY <1>2 DEF CumulativeAt, RowAt
    <3> QED
      BY <2>1, <2>2, <3>1
  <2>5. ASSUME NEW x \in Int, NEW y \in Int, x <= y
        PROVE  src(RowAt(rows, x)) <= src(RowAt(rows, y))
    <3> DEFINE a == RowAt(rows, x)
               b == RowAt(rows, y)
    <3>1. a \in DOMAIN rows /\ b \in DOMAIN rows /\ a <= b
      BY <1>2, <2>5, RowAtMoves
    <3>2. a \in Int /\ b \in Int
      BY <3>1, RowsAre
    <3> HIDE DEF a, b
    <3>3. src(a) \in Int /\ src(b) \in Int /\ Bucket(src(a), size) = a /\ Bucket(src(b), size) = b
      BY <2>1, <2>3, <3>1
    <3>4. ASSUME src(b) < src(a) PROVE src(a) = src(b)
      <4>1. b <= a
        BY <3>3, <3>4, BucketMonotone
      <4> QED
        BY <3>1, <3>2, <4>1
    <3> QED
      BY <3>3, <3>4 DEF a, b
  <2>6. \A x \in Int : src(RowAt(rows, x)) \in DOMAIN all
    BY <2>1, <2>2
  <2>7. G \in [Int -> 0..top]
    BY <2>6 DEF Metered
  <2>8. ASSUME NEW x \in Int, NEW y \in Int, x <= y
        PROVE  /\ CumulativeAt(rows, x) \in Int /\ CumulativeAt(rows, y) \in Int
               /\ G[x] <= G[y]
               /\ CumulativeAt(rows, y) - CumulativeAt(rows, x) <= G[y] - G[x]
    <3> DEFINE u == src(RowAt(rows, x))
               v == src(RowAt(rows, y))
    <3>1. u \in DOMAIN all /\ v \in DOMAIN all /\ u <= v
      BY <2>5, <2>6, <2>8
    <3>2. CumulativeAt(rows, x) = all[u] /\ CumulativeAt(rows, y) = all[v]
          /\ G[x] = M[u] /\ G[y] = M[v]
      BY <2>4
    <3> HIDE DEF u, v, G
    <3> QED
      BY <2>3, <3>1, <3>2 DEF Metered
  <2> QED
    BY <2>7, <2>8
<1> QED
  BY <1>1, <1>2

\* Rounded down, a slot's rate is no more than what was transferred in it.
LEMMA RateIsLess ==
    ASSUME NEW delta \in Int, NEW step \in Sizes, NEW bound \in Nat, delta <= bound
    PROVE  Rate(delta, step) \in Nat /\ step * Rate(delta, step) <= bound
<1>1. CASE Rate(delta, step) = 0
  BY <1>1 DEF Sizes
<1>2. CASE Rate(delta, step) # 0
  <2>1. ~(delta < 0) /\ Rate(delta, step) = delta \div step
    BY <1>2 DEF Rate
  <2>2. delta \in Nat
    BY <2>1
  <2>3. delta \div step \in Nat /\ (delta \div step) * step <= delta
    BY <2>2 DEF Sizes
  <2> DEFINE k == delta \div step
  <2>4. k \in Nat /\ k * step <= delta /\ k = Rate(delta, step)
    BY <2>1, <2>3
  <2> HIDE DEF k
  <2>5. step * k = k * step /\ k * step \in Int
    BY <2>4 DEF Sizes
  <2> QED
    BY <2>4, <2>5
<1> QED
  BY <1>1, <1>2

\* The slots of a chart, the first ones of them, and the rates up to there.
Slots(start, step, end) == {g \in start..end : (g - start) % step = 0}
SlotsTo(start, step, end, x) == {g \in Slots(start, step, end) : g <= x}
RatesTo(rates, start, step, end, x) == [g \in SlotsTo(start, step, end, x) |-> rates[g]]

LEMMA SlotsApart ==
    ASSUME NEW start \in Int, NEW step \in Sizes, NEW g \in Int, NEW h \in Int, g < h, start <= g,
           (g - start) % step = 0, (h - start) % step = 0
    PROVE  g <= h - step
<1> DEFINE a == g - start
           b == h - start
<1>1. a \in Nat /\ b \in Nat /\ a < b /\ a % step = 0 /\ b % step = 0
  OBVIOUS
<1> HIDE DEF a, b
<1>2. ASSUME NEW n \in Nat, n % step = 0 PROVE Bucket(n, step) = n
  <2>1. n = (n \div step) * step
    BY <1>2 DEF Sizes
  <2> QED
    BY <2>1 DEF Bucket
<1>3. Bucket(a, step) = a /\ Bucket(b, step) = b
  BY <1>1, <1>2
<1>4. a + step <= b
  BY <1>1, <1>3, BucketsApart
<1> QED
  BY <1>4 DEF a, b, Sizes

\* What the slots of a chart show does not add up to more than a meter that is over
\* each of them.
LEMMA SlotsAddUp ==
    ASSUME NEW start \in Int, NEW step \in Sizes, NEW end \in Int, NEW top \in Nat,
           NEW G \in [Int -> 0..top], \A x, y \in Int : x <= y => G[x] <= G[y],
           NEW rates \in [Slots(start, step, end) -> Nat],
           \A g \in Slots(start, step, end) : step * rates[g] <= G[g] - G[g - step]
    PROVE  step * SumOf(rates) <= top
<1> DEFINE S(n) == SlotsTo(start, step, end, start - 1 + n)
           R(n) == RatesTo(rates, start, step, end, start - 1 + n)
           Claim(n) == \A y \in Int : (start - step <= y /\ \A g \in S(n) : g <= y)
                           => step * SumOf(R(n)) <= G[y] - G[start - step]
           N == {n \in Nat : Claim(n)}
<1>0. Slots(start, step, end) \in SUBSET (start..end) /\ step \in Int /\ step >= 1
  BY DEF Slots, Sizes
<1>1. \A n \in Nat : /\ IsFiniteSet(S(n)) /\ R(n) \in [S(n) -> Int] /\ SumOf(R(n)) \in Int
                     /\ \A g \in S(n) : g \in Int /\ start <= g /\ (g - start) % step = 0
  <2>1. ASSUME NEW n \in Nat
        PROVE  /\ IsFiniteSet(S(n)) /\ R(n) \in [S(n) -> Int] /\ SumOf(R(n)) \in Int
               /\ \A g \in S(n) : g \in Int /\ start <= g /\ (g - start) % step = 0
    <3>1. IsFiniteSet(start..end) /\ S(n) \in SUBSET (start..end)
      BY <1>0, FS_Interval DEF SlotsTo
    <3>2. IsFiniteSet(S(n))
      BY <3>1, FS_Subset
    <3>3. R(n) \in [S(n) -> Int]
      BY DEF RatesTo, SlotsTo
    <3>4. \A g \in S(n) : g \in Int /\ start <= g /\ (g - start) % step = 0
      BY DEF SlotsTo, Slots
    <3> HIDE DEF S, R
    <3> QED
      BY <3>2, <3>3, <3>4, SumType
  <2> QED
    BY <2>1
<1> HIDE DEF S, R
<1>2. Claim(0)
  <2>1. S(0) = {}
    BY DEF SlotsTo, Slots, S
  <2>2. SumOf(R(0)) = 0
    <3>1. R(0) \in [{} -> Int]
      BY <2>1 DEF RatesTo, R, S
    <3> QED
      BY <3>1, SumEmpty
  <2>3. ASSUME NEW y \in Int, start - step <= y PROVE step * SumOf(R(0)) <= G[y] - G[start - step]
    <3>1. G[start - step] <= G[y] /\ start - step \in Int
      BY <1>0, <2>3
    <3>2. G[start - step] \in Int /\ G[y] \in Int /\ step * 0 = 0
      BY <1>0, <3>1
    <3> QED
      BY <2>2, <3>1, <3>2
  <2> QED
    BY <2>3
<1>3. ASSUME NEW n \in Nat, Claim(n) PROVE Claim(n + 1)
  <2> DEFINE h == start + n
  <2>1. h \in Int /\ start - 1 + (n + 1) = h /\ start - 1 + n = h - 1 /\ start <= h
    OBVIOUS
  <2> HIDE DEF h
  <2>2. S(n + 1) = IF h \in Slots(start, step, end) THEN S(n) \cup {h} ELSE S(n)
    <3>1. S(n + 1) = {g \in Slots(start, step, end) : g <= h}
          /\ S(n) = {g \in Slots(start, step, end) : g <= h - 1}
      BY <2>1 DEF SlotsTo, S
    <3>2. \A g \in Slots(start, step, end) : g \in Int /\ (g <= h <=> g <= h - 1 \/ g = h)
      BY <1>0, <2>1
    <3> QED
      BY <3>1, <3>2
  <2>3. CASE h \notin Slots(start, step, end)
    <3>1. S(n + 1) = S(n) /\ R(n + 1) = R(n)
      BY <2>2, <2>3 DEF RatesTo, R, S
    <3> QED
      BY <1>3, <3>1
  <2>4. CASE h \in Slots(start, step, end)
    <3>1. h \notin S(n) /\ \A g \in S(n) : g <= h - step
      <4>1. ASSUME NEW g \in S(n) PROVE g < h /\ g <= h - step
        <5>1. g \in Int /\ start <= g /\ (g - start) % step = 0 /\ g <= h - 1
          BY <1>1, <2>1 DEF SlotsTo, S
        <5>2. (h - start) % step = 0
          BY <2>4 DEF Slots
        <5> QED
          BY <2>1, <5>1, <5>2, SlotsApart
      <4> QED
        BY <2>1, <4>1
    <3>2. SumOf(R(n + 1)) = rates[h] + SumOf(R(n))
      <4> DEFINE D == S(n + 1)
                 values == R(n + 1)
      <4>1. D = S(n) \cup {h} /\ D \ {h} = S(n) /\ h \in D
        BY <2>2, <2>4, <3>1
      <4>2. values \in [D -> Int] /\ IsFiniteSet(D)
        <5>1. n + 1 \in Nat
          OBVIOUS
        <5> QED
          BY <1>1, <5>1
      <4>3. values[h] = rates[h] /\ [y \in D \ {h} |-> values[y]] = R(n)
        BY <4>1 DEF RatesTo, R, S
      <4> HIDE DEF D, values
      <4>4. SumOf(values) = values[h] + SumOf([y \in D \ {h} |-> values[y]])
        BY ONLY <4>1, <4>2, SumAdd
      <4> QED
        BY <4>3, <4>4 DEF values
    <3>3. step * SumOf(R(n)) <= G[h - step] - G[start - step]
      <4>1. h - step \in Int /\ start - step <= h - step
        BY <1>0, <2>1
      <4> QED
        BY <1>3, <3>1, <4>1
    <3>4. step * rates[h] <= G[h] - G[h - step]
      BY <2>4
    <3>5. rates[h] \in Int /\ SumOf(R(n)) \in Int
      <4>1. rates[h] \in Nat
        BY <2>4
      <4> QED
        BY <1>1, <4>1
    <3> DEFINE a == rates[h]
               b == SumOf(R(n))
    <3>6. step * (a + b) = step * a + step * b /\ step * a \in Int /\ step * b \in Int
      <4>1. a \in Int /\ b \in Int
        BY <3>5
      <4> HIDE DEF a, b
      <4> QED
        BY <1>0, <4>1
    <3>7. ASSUME NEW y \in Int, \A g \in S(n + 1) : g <= y
          PROVE  step * SumOf(R(n + 1)) <= G[y] - G[start - step]
      <4>1. h <= y
        BY <2>2, <2>4, <3>7
      <4>2. G[h] <= G[y]
        BY <2>1, <4>1
      <4>3. G[h] \in Int /\ G[y] \in Int /\ G[h - step] \in Int /\ G[start - step] \in Int
        BY <1>0, <2>1
      <4> HIDE DEF a, b
      <4>4. step * a + step * b <= G[y] - G[start - step]
        <5>1. step * a <= G[h] - G[h - step] /\ step * b <= G[h - step] - G[start - step]
          BY <3>3, <3>4 DEF a, b
        <5> QED
          BY <3>6, <4>2, <4>3, <5>1
      <4> QED
        BY <3>2, <3>6, <4>4 DEF a, b
    <3> QED
      BY <3>7
  <2> QED
    BY <2>3, <2>4
<1> HIDE DEF Claim
<1>4. Nat \subseteq N
  <2>1. 0 \in N
    BY <1>2
  <2>2. \A n \in Nat : n \in N => n + 1 \in N
    BY <1>3
  <2> HIDE DEF N
  <2> QED
    BY <2>1, <2>2, NaturalInduction
<1>5. PICK n \in Nat : S(n) = Slots(start, step, end)
  <2>1. CASE start <= end
    <3>1. end - start + 1 \in Nat /\ start - 1 + (end - start + 1) = end
      BY <2>1
    <3>2. S(end - start + 1) = Slots(start, step, end)
      BY <3>1 DEF SlotsTo, Slots, S
    <3> QED
      BY <3>1, <3>2
  <2>2. CASE ~(start <= end)
    <3>1. S(0) = Slots(start, step, end)
      BY <2>2 DEF SlotsTo, Slots, S
    <3> QED
      BY <3>1
  <2> QED
    BY <2>1, <2>2
<1>6. R(n) = rates
  BY <1>5 DEF RatesTo, R, S
<1>7. Claim(n)
  BY <1>4
<1>8. PICK y \in Int : start - step <= y /\ \A g \in S(n) : g <= y
  <2>1. CASE start - step <= end
    <3>1. \A g \in S(n) : g <= end
      BY <1>0, <1>5
    <3> QED
      BY <2>1, <3>1
  <2>2. CASE ~(start - step <= end)
    <3>1. S(n) = {} /\ start - step \in Int
      BY <1>0, <1>5, <2>2
    <3> QED
      BY <3>1
  <2> QED
    BY <2>1, <2>2
<1>9. step * SumOf(rates) <= G[y] - G[start - step]
  BY <1>6, <1>7, <1>8 DEF Claim
<1>10. G[y] \in 0..top /\ G[start - step] \in 0..top /\ step * SumOf(rates) \in Int
  <2>1. start - step \in Int /\ SumOf(rates) \in Int
    BY <1>0, <1>1, <1>6
  <2> QED
    BY <1>0, <2>1
<1> QED
  BY <1>9, <1>10

LEMMA FetchedHasSources ==
    ASSUME NEW c, NEW rows \in RowsUpTo(c), NEW all, NEW size, HasSources(rows, all, size),
           NEW start, NEW step
    PROVE  /\ Fetched(rows, start, step) \in RowsUpTo(c)
           /\ HasSources(Fetched(rows, start, step), all, size)
<1> DEFINE before == {0} \cup {ts \in DOMAIN rows : ts <= start - step}
           S == {t \in DOMAIN rows : t >= Max(before)}
<1>1. Fetched(rows, start, step) = [ts \in S |-> rows[ts]]
  BY DEF Fetched
<1>2. S \in SUBSET (0..c) /\ S \subseteq DOMAIN rows /\ \A ts \in S : rows[ts] \in Int
  <2>1. DOMAIN rows \in SUBSET (0..c) /\ \A ts \in DOMAIN rows : rows[ts] \in Int
    BY RowsAre
  <2> QED
    BY <2>1
<1> HIDE DEF S
<1>3. [ts \in S |-> rows[ts]] \in [S -> Int]
  BY <1>2
<1> QED
  BY <1>1, <1>2, <1>3, RowsAgain DEF HasSources

\* The grid of a chart, whatever its range, and the tier its rows are read from.
LEMMA QueryReads ==
    ASSUME TiersTypeOK, NEW t \in Torrents, NEW range, firstSeen[t] \in Nat, range \in Nat,
           Of(t) \in [DOMAIN Tiers -> RowsUpTo(clock)]
    PROVE  \E step \in Sizes, start \in Int, i \in 1..Len(Tiers) :
               Query(range, t) = [step |-> step,
                                  points |-> ResampleGrid(Fetched(samples[i][t], start, step),
                                                          start, step)]
<1> DEFINE N == Len(Tiers)
           pick == PickTier(range)
           step == Tiers[pick].bucket
           start == Max({clock - range, FirstTS(t)})
           fetched(i) == Fetched(samples[i][t], start, step)
           filled == {i \in Finest..pick : Cardinality(DOMAIN fetched(i)) >= 2}
           i == Max({Finest} \cup filled)
<1>0. N \in Nat /\ 1 <= N /\ DOMAIN Tiers = 1..N /\ Finest = 1 /\ Coarsest = N /\ clock \in Nat
  BY TierSizes DEF TiersTypeOK
<1>1. Query(range, t) = [step |-> step, points |-> ResampleGrid(fetched(i), start, step)]
  BY DEF Query
<1>2. pick \in 1..N
  <2> DEFINE T == {Coarsest} \cup {k \in DOMAIN Tiers : range <= Tiers[k].retain}
  <2>1. T \in SUBSET (1..N) /\ T \in SUBSET (0..N) /\ T # {} /\ pick = Min(T)
    BY <1>0 DEF PickTier
  <2> HIDE DEF T
  <2>2. Min(T) \in T
    BY <1>0, <2>1, MinExists
  <2> QED
    BY <2>1, <2>2
<1>3. step \in Sizes
  BY <1>2, TierSizes
<1>4. FirstTS(t) \in Int
  <2> DEFINE stamps == UNION {DOMAIN samples[k][t] : k \in DOMAIN Tiers}
  <2>1. stamps \in SUBSET (0..clock)
    <3>1. \A k \in DOMAIN Tiers : DOMAIN samples[k][t] \in SUBSET (0..clock)
      <4>1. \A k \in DOMAIN Tiers : samples[k][t] \in RowsUpTo(clock)
        BY DEF Of
      <4> QED
        BY <4>1, RowsAre
    <3> QED
      BY <3>1
  <2>2. FirstTS(t) = IF firstSeen[t] > 0 THEN firstSeen[t]
                     ELSE IF stamps = {} THEN 0 ELSE Min(stamps)
    BY DEF FirstTS
  <2> HIDE DEF stamps
  <2>3. stamps # {} => Min(stamps) \in Int
    BY <1>0, <2>1, MinExists
  <2> QED
    BY <2>2, <2>3
<1>5. start \in Int
  <2> DEFINE a == clock - range
             b == FirstTS(t)
  <2>1. a \in Int /\ b \in Int
    BY <1>0, <1>4
  <2> HIDE DEF a, b
  <2> DEFINE T == {a, b}
  <2>2. T \in SUBSET Int /\ a \in T /\ b \in T
    BY <2>1
  <2>3. (a <= b => \A y \in T : y <= b) /\ (b <= a => \A y \in T : y <= a)
    BY <2>1
  <2>4. Max(T) \in Int
    <3> HIDE DEF T
    <3>1. CASE a <= b
      BY ONLY <2>1, <2>2, <2>3, <3>1, MaxIs
    <3>2. CASE b <= a
      BY ONLY <2>1, <2>2, <2>3, <3>2, MaxIs
    <3> QED
      BY <2>1, <3>1, <3>2
  <2> QED
    BY <2>4 DEF a, b
<1>6. i \in 1..N
  <2> DEFINE T == {Finest} \cup filled
  <2>1. T \in SUBSET (1..N) /\ T \in SUBSET (0..N) /\ T # {}
    BY <1>0, <1>2
  <2> HIDE DEF T
  <2>2. Max(T) \in T
    BY <1>0, <2>1, MaxExists
  <2> QED
    BY <2>1, <2>2 DEF T
<1> HIDE DEF step, start, i
<1> QED
  BY <1>1, <1>3, <1>5, <1>6

LEMMA InvGivesNoPhantoms == TiersInv /\ MeterInv => NoPhantomTraffic
<1> SUFFICES ASSUME TiersTypeOK, MeterInv, NEW t \in Torrents, NEW range \in Ranges
             PROVE  Query(range, t).step * SumOf(Query(range, t).points) <= moved[t]
  BY DEF NoPhantomTraffic, TiersInv
<1> DEFINE all == recorded[t]
           top == moved[t]
<1>1. /\ clock \in Nat /\ all \in RowsUpTo(clock) /\ top \in Nat /\ range \in Nat
      /\ firstSeen[t] \in Nat /\ Of(t) \in [DOMAIN Tiers -> RowsUpTo(clock)]
      /\ TiersHaveSources(Of(t), all)
  BY TorrentsAreSane DEF TiersTypeOK, MeterInv, MeterOf, Series
<1>2. PICK M : Metered(M, all, top)
  BY DEF MeterInv, MeterOf
<1>3. PICK step \in Sizes, start \in Int, i \in 1..Len(Tiers) :
               Query(range, t) = [step |-> step,
                                  points |-> ResampleGrid(Fetched(samples[i][t], start, step),
                                                          start, step)]
  BY <1>1, QueryReads
<1> DEFINE rows == Fetched(samples[i][t], start, step)
           rates == ResampleGrid(rows, start, step)
           size == Tiers[i].bucket
<1>4. rows \in RowsUpTo(clock) /\ HasSources(rows, all, size) /\ size \in Sizes
  <2>1. i \in DOMAIN Tiers /\ size \in Sizes
    BY TierSizes
  <2>2. samples[i][t] \in RowsUpTo(clock) /\ HasSources(samples[i][t], all, size)
    BY <1>1, <2>1 DEF Of, TiersHaveSources
  <2> HIDE DEF size, all
  <2> QED
    BY <2>1, <2>2, FetchedHasSources
<1> HIDE DEF rows, size, all, top
<1>5. PICK G \in [Int -> 0..top] : \A x, y \in Int : x <= y =>
               /\ CumulativeAt(rows, x) \in Int /\ CumulativeAt(rows, y) \in Int
               /\ G[x] <= G[y]
               /\ CumulativeAt(rows, y) - CumulativeAt(rows, x) <= G[y] - G[x]
  BY <1>1, <1>2, <1>4, ChartHasMeter
<1>6. rates = [g \in Slots(start, step, clock) |->
                  Rate(CumulativeAt(rows, g) - CumulativeAt(rows, g - step), step)]
  BY DEF ResampleGrid, Slots
<1>7. ASSUME NEW g \in Slots(start, step, clock)
      PROVE  rates[g] \in Nat /\ step * rates[g] <= G[g] - G[g - step]
  <2> DEFINE delta == CumulativeAt(rows, g) - CumulativeAt(rows, g - step)
             bound == G[g] - G[g - step]
  <2>1. g \in Int /\ g - step \in Int /\ g - step <= g
    BY <1>1 DEF Slots, Sizes
  <2>2. /\ CumulativeAt(rows, g - step) \in Int /\ CumulativeAt(rows, g) \in Int
        /\ G[g - step] <= G[g] /\ delta <= bound
    BY <1>5, <2>1
  <2>3. G[g] \in 0..top /\ G[g - step] \in 0..top
    BY <2>1
  <2>4. delta \in Int /\ bound \in Nat
    <3> DEFINE ca == CumulativeAt(rows, g)
               cb == CumulativeAt(rows, g - step)
               ga == G[g]
               gb == G[g - step]
    <3>1. ca \in Int /\ cb \in Int /\ ga \in Int /\ gb \in Int /\ gb <= ga
      <4>1. ca \in Int /\ cb \in Int /\ gb <= ga
        BY ONLY <2>2 DEF ca, cb, ga, gb
      <4>2. ga \in 0..top /\ gb \in 0..top
        BY ONLY <2>3 DEF ga, gb
      <4> HIDE DEF ca, cb, ga, gb
      <4> QED
        BY ONLY <4>1, <4>2
    <3> HIDE DEF ca, cb, ga, gb
    <3>2. ca - cb \in Int /\ ga - gb \in Nat
      BY ONLY <3>1
    <3> QED
      BY <3>2 DEF ca, cb, ga, gb
  <2>5. rates[g] = Rate(delta, step)
    BY <1>6
  <2>6. delta <= bound
    BY <2>2
  <2> HIDE DEF delta, bound, rates
  <2>7. Rate(delta, step) \in Nat /\ step * Rate(delta, step) <= bound
    BY <2>4, <2>6, RateIsLess
  <2> QED
    BY <2>5, <2>7 DEF bound
<1>8. rates \in [Slots(start, step, clock) -> Nat]
  BY <1>6, <1>7
<1> HIDE DEF rates
<1>9. step * SumOf(rates) <= top
  <2>1. clock \in Int /\ \A x, y \in Int : x <= y => G[x] <= G[y]
    BY <1>1, <1>5
  <2> QED
    BY <1>1, <1>7, <1>8, <2>1, SlotsAddUp
<1> QED
  BY <1>3, <1>9 DEF rates, rows, top

\* Whatever a torrent's counter was when it was first seen, however often it was reset
\* and whichever tiers hold what is left of it, the rates of its chart never add up to
\* more than it has transferred since (Query, resampleGrid).
THEOREM ChartsInventNothing == TiersSpec => []NoPhantomTraffic
<1>1. TiersInv /\ MeterInv /\ [TiersNext]_allVars => (TiersInv /\ MeterInv)'
  BY StepKeepsTiers, StepMeters
<1>2. TiersInit => TiersInv /\ MeterInv
  BY InitHolds, MeterInit
<1> QED
  BY <1>1, <1>2, InvGivesNoPhantoms, PTL DEF TiersSpec

-----------------------------------------------------------------------------
(* Rebuilt totals. *)

\* The instants of a tier's rows; what a torrent has until then, and its latest value.
Stamps(tier) == UNION {DOMAIN tier[t] : t \in Torrents}
Until(rows, x) == {u \in DOMAIN rows : u <= x}
Latest(rows, x) == IF Until(rows, x) = {} THEN 0 ELSE rows[Max(Until(rows, x))]
LatestOf(tier, x) == [t \in Torrents |-> Latest(tier[t], x)]

\* The state of a running sum at an instant, and how it moves on to the next one.
SumState(tier, x) ==
    [sum |-> SumOf(LatestOf(tier, x)),
     of |-> LatestOf(tier, x),
     rows |-> [y \in {y \in Stamps(tier) : y <= x} |-> SumOf(LatestOf(tier, y))]]
AddStamp(tier, state, ts) ==
    LET at == {t \in Torrents : ts \in DOMAIN tier[t]}
        sum == state.sum + SumOf([t \in at |-> tier[t][ts] - state.of[t]])
    IN [sum |-> sum,
        of |-> [t \in Torrents |-> IF t \in at THEN tier[t][ts] ELSE state.of[t]],
        rows |-> Over(Row(ts, sum), state.rows)]
SumBefore == [sum |-> 0, of |-> [t \in Torrents |-> 0], rows |-> NoRows]

LEMMA LatestStamp ==
    ASSUME NEW c \in Nat, NEW T \in SUBSET (0..c)
    PROVE  /\ Max({-1} \cup T) \in {-1} \cup T
           /\ \A y \in {-1} \cup T : y <= Max({-1} \cup T)
<1> DEFINE S == {-1} \cup T
<1>1. S \in SUBSET Int /\ S # {} /\ \A y \in S : y <= c
  OBVIOUS
<1> HIDE DEF S
<1>2. PICK m \in S : \A y \in S : y <= m
  <2>1. c \in Int
    OBVIOUS
  <2> QED
    BY ONLY <1>1, <2>1, GreatestElement
<1>3. Max(S) = m
  BY <1>1, <1>2, MaxIs
<1>4. Max(S) \in S /\ \A y \in S : y <= Max(S)
  BY <1>2, <1>3
<1> QED
  BY <1>4 DEF S

LEMMA LatestType ==
    ASSUME NEW c \in Nat, NEW rows \in RowsUpTo(c), NEW x \in Int
    PROVE  Latest(rows, x) \in Int
<1> DEFINE T == Until(rows, x)
<1>1. T \in SUBSET (0..c) /\ T \in SUBSET DOMAIN rows
  BY RowsAre DEF Until
<1>2. T # {} => Max(T) \in T
  <2> HIDE DEF T
  <2> QED
    BY <1>1, MaxExists
<1>3. T # {} => rows[Max(T)] \in Int
  BY <1>1, <1>2, RowsAre
<1> QED
  BY <1>3 DEF Latest

\* Between two neighbouring instants of a tier the latest values are the same, and at
\* an instant they are the rows of that instant.
LEMMA LatestMoves ==
    ASSUME NEW c \in Nat, NEW rows \in RowsUpTo(c), NEW p \in Int, NEW x \in Int, p < x,
           \A u \in DOMAIN rows : u < x => u <= p
    PROVE  Latest(rows, x) = IF x \in DOMAIN rows THEN rows[x] ELSE Latest(rows, p)
<1>0. DOMAIN rows \in SUBSET Int
  BY RowsAre
<1>1. CASE x \in DOMAIN rows
  <2> DEFINE T == Until(rows, x)
  <2>1. x \in T /\ T \in SUBSET Int /\ \A y \in T : y <= x
    BY <1>0, <1>1 DEF Until
  <2> HIDE DEF T
  <2>2. Max(T) = x
    BY <2>1, MaxIs
  <2>3. T # {}
    BY <2>1
  <2> QED
    BY <1>1, <2>2, <2>3 DEF Latest, T
<1>2. CASE x \notin DOMAIN rows
  <2>1. Until(rows, x) = Until(rows, p)
    BY <1>0, <1>2 DEF Until
  <2> QED
    BY <1>2, <2>1 DEF Latest
<1> QED
  BY <1>1, <1>2

LEMMA AddStampIs ==
    ASSUME NEW c \in Nat, NEW tier \in [Torrents -> RowsUpTo(c)], NEW x \in Stamps(tier),
           NEW p \in Int, p < x, \A u \in Stamps(tier) : u < x => u <= p
    PROVE  AddStamp(tier, SumState(tier, p), x) = SumState(tier, x)
<1>0. IsFiniteSet(Torrents)
  BY TorrentsAreSane
<1>1. \A t \in Torrents : tier[t] \in RowsUpTo(c) /\ DOMAIN tier[t] \in SUBSET (0..c)
  BY RowsAre
<1>2. Stamps(tier) \in SUBSET (0..c) /\ x \in Int
  BY <1>1 DEF Stamps
<1> DEFINE old == LatestOf(tier, p)
           new == LatestOf(tier, x)
           at == {t \in Torrents : x \in DOMAIN tier[t]}
           change == [t \in at |-> tier[t][x] - old[t]]
           state == SumState(tier, p)
<1>3. old \in [Torrents -> Int] /\ new \in [Torrents -> Int]
  BY <1>1, <1>2, LatestType DEF LatestOf
<1>4. \A t \in Torrents : new[t] = IF t \in at THEN tier[t][x] ELSE old[t]
  <2>1. ASSUME NEW t \in Torrents
        PROVE  Latest(tier[t], x) = IF x \in DOMAIN tier[t] THEN tier[t][x] ELSE Latest(tier[t], p)
    <3>1. tier[t] \in RowsUpTo(c) /\ \A u \in DOMAIN tier[t] : u < x => u <= p
      BY <1>1 DEF Stamps
    <3> QED
      BY <1>2, <3>1, LatestMoves
  <2> QED
    BY <2>1 DEF LatestOf
<1>5. change = [t \in at |-> new[t] - old[t]]
  BY <1>4
<1>6. at \in SUBSET Torrents /\ \A t \in Torrents \ at : new[t] = old[t]
  BY <1>4
<1>7. SumOf(new) = SumOf(old) + SumOf(change)
  <2> HIDE DEF old, new, at, change
  <2>1. SumOf(new) = SumOf(old) + SumOf([t \in at |-> new[t] - old[t]])
    BY <1>0, <1>3, <1>6, SumChanges
  <2> QED
    BY <1>5, <2>1
<1>8. state.sum = SumOf(old) /\ state.of = old
      /\ state.rows = [y \in {y \in Stamps(tier) : y <= p} |-> SumOf(LatestOf(tier, y))]
  BY DEF SumState
<1>9. [t \in Torrents |-> IF t \in at THEN tier[t][x] ELSE old[t]] = new
  <2> HIDE DEF old, new, at
  <2> QED
    BY <1>3, <1>4
<1>10. Over(Row(x, SumOf(new)), state.rows)
         = [y \in {y \in Stamps(tier) : y <= x} |-> SumOf(LatestOf(tier, y))]
  <2> DEFINE later == {y \in Stamps(tier) : y <= x}
             sooner == {y \in Stamps(tier) : y <= p}
             sums(y) == SumOf(LatestOf(tier, y))
  <2>1. later = {x} \cup sooner /\ x \notin sooner
    BY <1>2
  <2>2. new = LatestOf(tier, x)
    OBVIOUS
  <2> HIDE DEF later, sooner, new
  <2>3. Row(x, SumOf(new)) = [y \in {x} |-> sums(y)]
    BY <2>2 DEF Row
  <2>4. state.rows = [y \in sooner |-> sums(y)]
    BY <1>8 DEF sooner
  <2> HIDE DEF sums, state
  <2>5. Over(Row(x, SumOf(new)), state.rows) = [y \in {x} \cup sooner |-> sums(y)]
    BY <2>1, <2>3, <2>4 DEF Over
  <2> QED
    BY <2>1, <2>5 DEF later, sums
<1> HIDE DEF old, new, at, change, state
<1>11. AddStamp(tier, state, x) =
          [sum |-> SumOf(new), of |-> new, rows |-> Over(Row(x, SumOf(new)), state.rows)]
  BY <1>7, <1>8, <1>9 DEF AddStamp, at, change
<1> QED
  BY <1>10, <1>11 DEF SumState, new, state

\* The running sum is the sum of the latest values, at each of the tier's instants.
LEMMA RunningSumIs ==
    ASSUME NEW c \in Nat, NEW tier \in [Torrents -> RowsUpTo(c)]
    PROVE  RunningSum(tier) = [x \in Stamps(tier) |-> SumOf(LatestOf(tier, x))]
<1> DEFINE stamps == Stamps(tier)
           all == {-1} \cup stamps
           prev(x) == Max({-1} \cup {u \in stamps : u < x})
           next(f, x) == IF x = -1 THEN SumBefore ELSE AddStamp(tier, f[prev(x)], x)
           Body(f) == [x \in all |-> next(f, x)]
           good == [x \in all |-> SumState(tier, x)]
           top == Max({-1} \cup stamps)
<1>0. stamps \in SUBSET (0..c) /\ -1 \notin stamps /\ -1 \in all /\ all \in SUBSET Int
  <2>1. \A t \in Torrents : tier[t] \in RowsUpTo(c) /\ DOMAIN tier[t] \in SUBSET (0..c)
    BY RowsAre
  <2>2. stamps \in SUBSET (0..c)
    BY <2>1 DEF Stamps
  <2> HIDE DEF stamps
  <2> QED
    BY <2>2
<1>1. RunningSum(tier) = (CHOOSE f : f = Body(f))[top].rows
  BY DEF RunningSum, Stamps, AddStamp, SumBefore
<1>2. ASSUME NEW x \in stamps
      PROVE  prev(x) \in all /\ prev(x) < x /\ \A u \in stamps : u < x => u <= prev(x)
  <2> DEFINE T == {u \in stamps : u < x}
  <2>1. T \in SUBSET (0..c) /\ x \in Int /\ -1 < x /\ T \in SUBSET stamps /\ T \in SUBSET Int
        /\ \A u \in T : u < x
    BY <1>0
  <2>2. \A u \in stamps : u < x => u \in T
    OBVIOUS
  <2> HIDE DEF T, stamps
  <2> DEFINE m == Max({-1} \cup T)
  <2>3. m \in {-1} \cup T /\ \A y \in {-1} \cup T : y <= m
    BY <2>1, LatestStamp
  <2> HIDE DEF m
  <2>4. m \in all /\ m < x /\ \A u \in stamps : u < x => u <= m
    BY <2>1, <2>2, <2>3
  <2> QED
    BY <2>4 DEF m, T
<1>3. SumState(tier, -1) = SumBefore
  <2>1. LatestOf(tier, -1) = [t \in Torrents |-> 0]
    <3>1. ASSUME NEW t \in Torrents PROVE Until(tier[t], -1) = {}
      <4>1. tier[t] \in RowsUpTo(c) /\ DOMAIN tier[t] \in SUBSET (0..c)
        BY RowsAre
      <4> QED
        BY <4>1 DEF Until
    <3> QED
      BY <3>1 DEF LatestOf, Latest
  <2>2. SumOf(LatestOf(tier, -1)) = 0
    BY <2>1, SumOfZeros, TorrentsAreSane
  <2>3. {y \in Stamps(tier) : y <= -1} = {}
    BY <1>0
  <2>4. [y \in {} |-> SumOf(LatestOf(tier, y))] = NoRows
    BY DEF NoRows
  <2> QED
    BY <2>1, <2>2, <2>3, <2>4 DEF SumState, SumBefore
<1>4. ASSUME NEW x \in stamps PROVE AddStamp(tier, SumState(tier, prev(x)), x) = SumState(tier, x)
  <2> DEFINE p == prev(x)
  <2>1. p \in Int /\ p < x /\ x \in Stamps(tier) /\ \A u \in Stamps(tier) : u < x => u <= p
    BY <1>0, <1>2
  <2> HIDE DEF p
  <2>2. AddStamp(tier, SumState(tier, p), x) = SumState(tier, x)
    BY <2>1, AddStampIs
  <2> QED
    BY <2>2 DEF p
<1> HIDE DEF prev
<1>5. good = Body(good)
  <2>1. ASSUME NEW x \in all PROVE SumState(tier, x) = next(good, x)
    <3>1. CASE x = -1
      BY <1>3, <3>1
    <3>2. CASE x # -1
      <4>1. x \in stamps /\ prev(x) \in all
        BY <1>2, <3>2
      <4>2. good[prev(x)] = SumState(tier, prev(x))
        BY <4>1
      <4> HIDE DEF good, all
      <4> QED
        BY <1>4, <3>2, <4>1, <4>2
    <3> QED
      BY <3>1, <3>2
  <2> HIDE DEF next
  <2> QED
    BY <2>1
<1> DEFINE r == CHOOSE f : f = Body(f)
<1>6. r = Body(r)
  <2> HIDE DEF good, Body
  <2> QED
    BY <1>5
<1> HIDE DEF r
<1>7. \A x \in all : r[x] = next(r, x)
  <2> HIDE DEF next, all
  <2> QED
    BY <1>6
<1>8. r[-1] = SumState(tier, -1)
  BY <1>0, <1>3, <1>7
<1>9. ASSUME NEW x \in stamps, r[x] # SumState(tier, x) PROVE FALSE
  <2> DEFINE T == {y \in stamps : r[y] # SumState(tier, y)}
  <2>1. T \in SUBSET Nat /\ T # {}
    BY <1>0, <1>9
  <2>2. PICK y \in T : \A u \in T : y <= u
    <3> HIDE DEF T
    <3> QED
      BY <2>1, SmallestElement
  <2>3. y \in stamps /\ r[y] # SumState(tier, y) /\ y \in Int /\ y # -1 /\ y \in all
    BY <1>0, <2>2
  <2>4. prev(y) \in all /\ prev(y) < y /\ prev(y) \in Int
    BY <1>0, <1>2, <2>3
  <2>5. r[prev(y)] = SumState(tier, prev(y))
    <3>1. prev(y) \in stamps => prev(y) \notin T
      BY <1>0, <2>2, <2>3, <2>4
    <3> QED
      BY <1>8, <2>4, <3>1
  <2>6. r[y] = AddStamp(tier, r[prev(y)], y)
    BY <1>7, <2>3
  <2> QED
    BY <1>4, <2>3, <2>5, <2>6
<1>10. r[top].rows = [x \in stamps |-> SumOf(LatestOf(tier, x))]
  <2>1. top \in all /\ \A y \in stamps : y <= top
    <3> HIDE DEF stamps
    <3> QED
      BY <1>0, LatestStamp
  <2>2. r[top] = SumState(tier, top)
    BY <1>8, <1>9, <2>1
  <2>3. {y \in stamps : y <= top} = stamps
    BY <2>1
  <2> HIDE DEF top
  <2> QED
    BY <2>2, <2>3 DEF SumState
<1> QED
  BY <1>1, <1>10 DEF r

\* A reader's total, which leaves torrents without a row out, is the sum of the latest.
LEMMA ReadersTotal ==
    ASSUME NEW c \in Nat, NEW tier \in [Torrents -> RowsUpTo(c)], NEW x \in Int
    PROVE  SumOf(LatestOf(tier, x)) =
             SumOf([t \in {u \in Torrents : Until(tier[u], x) # {}} |->
                       tier[t][Max(Until(tier[t], x))]])
<1> DEFINE values == LatestOf(tier, x)
           E == {u \in Torrents : Until(tier[u], x) # {}}
<1>1. values \in [Torrents -> Int]
  <2>1. \A t \in Torrents : Latest(tier[t], x) \in Int
    BY LatestType
  <2> QED
    BY <2>1 DEF LatestOf
<1>2. E \in SUBSET Torrents /\ \A t \in Torrents \ E : values[t] = 0
  BY DEF LatestOf, Latest
<1>3. [t \in E |-> values[t]] = [t \in E |-> tier[t][Max(Until(tier[t], x))]]
  BY DEF LatestOf, Latest
<1> HIDE DEF values, E
<1>4. IsFiniteSet(Torrents)
  BY TorrentsAreSane
<1>5. SumOf(values) = SumOf([t \in E |-> values[t]])
  BY ONLY <1>1, <1>2, <1>4, SumWithoutZeros
<1> QED
  BY <1>3, <1>5 DEF values, E

\* What was recorded last is found in every tier that has caught up.
LEMMA NewestIsThere ==
    ASSUME NEW c \in Nat, NEW all \in RowsUpTo(c), DOMAIN all # {}, NEW rows, NEW size \in Sizes,
           NEW from \in Int, CaughtUpTo(rows, all, size, from, c)
    PROVE  LET b == Bucket(Max(DOMAIN all), size)
           IN b > from => (b \in DOMAIN rows /\ rows[b] = Newest(all))
<1> DEFINE m == Max(DOMAIN all)
           b == Bucket(m, size)
<1>1. DOMAIN all \in SUBSET (0..c)
  BY RowsAre
<1>2. m \in DOMAIN all /\ \A y \in DOMAIN all : y <= m
  <2> DEFINE T == DOMAIN all
  <2>1. T \in SUBSET (0..c) /\ T # {}
    BY <1>1
  <2> HIDE DEF T
  <2>2. Max(T) \in T /\ \A y \in T : y <= Max(T)
    BY <2>1, MaxExists
  <2> QED
    BY <2>2 DEF T
<1>3. m \in Int /\ m <= c
  BY <1>1, <1>2
<1> HIDE DEF m
<1>4. IsLast(all, size, c, m)
  BY <1>2, <1>3 DEF IsLast
<1>5. b \in Int
  BY <1>3, BucketIs DEF Bucket, Sizes
<1>6. b > from => b >= from
  <2> HIDE DEF b
  <2> QED
    BY <1>5
<1>7. b > from => b \in DOMAIN rows /\ rows[b] = all[m]
  BY <1>4, <1>6 DEF CaughtUpTo
<1> QED
  BY <1>7 DEF Newest, m

\* What the property says of one tier.
TierAddsUp(i, tier, all, now) ==
    /\ DOMAIN tier[Total] = Stamps(tier)
    /\ \A ts \in Stamps(tier) :
           tier[Total][ts] = SumOf([t \in {u \in Torrents : Until(tier[u], ts) # {}} |->
                                       tier[t][Max(Until(tier[t], ts))]])
    /\ \A t \in Torrents : DOMAIN all[t] # {} =>
           LET b == Bucket(Max(DOMAIN all[t]), Tiers[i].bucket)
           IN b > now - Tiers[i].retain => (b \in DOMAIN tier[t] /\ tier[t][b] = Newest(all[t]))

LEMMA AddsUpIs ==
    /\ RebuildIsTheSum <=>
           (done = "rebuild" => \A i \in DOMAIN Tiers : TierAddsUp(i, samples[i], recorded, clock))
    /\ RebuildIsTheSum' <=>
           (done' = "rebuild" =>
                \A i \in DOMAIN Tiers : TierAddsUp(i, samples'[i], recorded', clock'))
<1>1. RebuildIsTheSum <=>
          (done = "rebuild" => \A i \in DOMAIN Tiers : TierAddsUp(i, samples[i], recorded, clock))
  BY DEF RebuildIsTheSum, TierAddsUp, Stamps, Until
<1>2. RebuildIsTheSum' <=>
          (done' = "rebuild" =>
               \A i \in DOMAIN Tiers : TierAddsUp(i, samples'[i], recorded', clock'))
  BY DEF RebuildIsTheSum, TierAddsUp, Stamps, Until, Newest
<1> QED
  BY <1>1, <1>2

LEMMA RebuildSums ==
    ASSUME TiersInv, Rebuild
    PROVE  RebuildIsTheSum'
<1>1. /\ done # "rebuild" /\ clock' = clock /\ recorded' = recorded
      /\ samples' = [i \in DOMAIN Tiers |-> [s \in Series |->
             IF s = Total THEN RunningSum([t \in Torrents |-> CaughtUp[t][i]]) ELSE CaughtUp[s][i]]]
  BY DEF Rebuild
<1>2. PICK q \in Int : KeptSince(q)
  BY <1>1 DEF TiersInv
<1>3. /\ clock \in Nat /\ q <= clock /\ clock <= q + MaxSilence + 1
      /\ samples \in [DOMAIN Tiers -> [Series -> RowsUpTo(clock)]]
      /\ recorded \in [Series -> RowsUpTo(clock)]
  BY <1>1, <1>2, LastPassBounds DEF KeptSince, TiersTypeOK, TiersInv
<1>4. ASSUME NEW t \in Torrents, NEW i \in DOMAIN Tiers
      PROVE  /\ CaughtUp[t][i] \in RowsUpTo(clock)
             /\ CaughtUpTo(CaughtUp[t][i], recorded[t], Tiers[i].bucket, clock - Tiers[i].retain,
                           clock)
  <2>1. t \in Series
    BY DEF Series
  <2> DEFINE tiers == Of(t)
             all == recorded[t]
  <2>2. tiers \in [DOMAIN Tiers -> RowsUpTo(clock)] /\ all \in RowsUpTo(clock)
        /\ TiersHold(tiers, all, q)
    BY <1>2, <1>3, <2>1 DEF Of, KeptSince
  <2>3. CaughtUp[t] = RolledUp("counter", tiers, Window)
    BY <2>1 DEF CaughtUp
  <2> HIDE DEF tiers, all
  <2>4. IsChain(RolledUp("counter", tiers, Window), RowsUpTo(clock), "counter", tiers, Window)
    BY <1>3, <2>2, RolledUpType, TiersAreSane
  <2>5. i \in 1..Len(Tiers)
    BY TierSizes
  <2>6. CaughtUpTo(RolledUp("counter", tiers, Window)[i], all, Tiers[i].bucket,
                   clock - Tiers[i].retain, clock)
    BY <1>3, <2>2, <2>5, RolledUpCatchesUp
  <2> QED
    BY <2>3, <2>4, <2>6 DEF IsChain, all
<1> SUFFICES ASSUME NEW i \in DOMAIN Tiers PROVE TierAddsUp(i, samples'[i], recorded, clock)
  BY <1>1, AddsUpIs
<1> DEFINE tier == samples'[i]
           caught == [t \in Torrents |-> CaughtUp[t][i]]
<1>5. tier[Total] = RunningSum(caught) /\ \A t \in Torrents : tier[t] = caught[t]
  BY <1>1, TorrentsAreSane DEF Series
<1>6. caught \in [Torrents -> RowsUpTo(clock)]
  BY <1>4
<1>7. \A t \in Torrents : caught[t] = CaughtUp[t][i]
  OBVIOUS
<1> HIDE DEF tier, caught
<1>8. Stamps(tier) = Stamps(caught)
  BY <1>5 DEF Stamps
<1>9. DOMAIN tier[Total] = Stamps(tier)
  BY <1>3, <1>5, <1>6, <1>8, RunningSumIs
<1>10. ASSUME NEW ts \in Stamps(tier)
       PROVE  tier[Total][ts] = SumOf([t \in {u \in Torrents : Until(tier[u], ts) # {}} |->
                                          tier[t][Max(Until(tier[t], ts))]])
  <2>1. ts \in Stamps(caught) /\ ts \in Int
    <3>1. \A t \in Torrents : DOMAIN caught[t] \in SUBSET Int
      BY <1>6, RowsAre
    <3> QED
      BY <1>8, <3>1 DEF Stamps
  <2>2. tier[Total][ts] = SumOf(LatestOf(caught, ts))
    BY <1>3, <1>5, <1>6, <2>1, RunningSumIs
  <2>3. SumOf(LatestOf(caught, ts)) =
          SumOf([t \in {u \in Torrents : Until(caught[u], ts) # {}} |->
                    caught[t][Max(Until(caught[t], ts))]])
    BY <1>3, <1>6, <2>1, ReadersTotal
  <2>4. [t \in {u \in Torrents : Until(caught[u], ts) # {}} |->
             caught[t][Max(Until(caught[t], ts))]]
          = [t \in {u \in Torrents : Until(tier[u], ts) # {}} |->
                tier[t][Max(Until(tier[t], ts))]]
    <3> DEFINE E == {u \in Torrents : Until(caught[u], ts) # {}}
               G == {u \in Torrents : Until(tier[u], ts) # {}}
    <3>1. E = G
      BY <1>5
    <3>2. \A t \in E : tier[t] = caught[t]
      BY <1>5
    <3> HIDE DEF E, G
    <3> QED
      BY <3>1, <3>2 DEF E, G
  <2> QED
    BY <2>2, <2>3, <2>4
<1>11. ASSUME NEW t \in Torrents, DOMAIN recorded[t] # {}
       PROVE  LET b == Bucket(Max(DOMAIN recorded[t]), Tiers[i].bucket)
              IN b > clock - Tiers[i].retain =>
                     (b \in DOMAIN tier[t] /\ tier[t][b] = Newest(recorded[t]))
  <2> DEFINE all == recorded[t]
             rows == tier[t]
             size == Tiers[i].bucket
             from == clock - Tiers[i].retain
  <2>1. clock \in Nat /\ all \in RowsUpTo(clock) /\ DOMAIN all # {}
    BY <1>3, <1>11 DEF Series
  <2>2. size \in Sizes /\ from \in Int
    BY <1>3, TierSizes
  <2>3. CaughtUpTo(rows, all, size, from, clock)
    BY <1>4, <1>5, <1>7
  <2> HIDE DEF all, rows, size, from
  <2>4. LET b == Bucket(Max(DOMAIN all), size)
        IN b > from => (b \in DOMAIN rows /\ rows[b] = Newest(all))
    BY ONLY <2>1, <2>2, <2>3, NewestIsThere
  <2> QED
    BY <2>4 DEF all, rows, size, from
<1> QED
  BY <1>9, <1>10, <1>11 DEF TierAddsUp, tier

LEMMA StepSums == TiersInv /\ RebuildIsTheSum /\ [TiersNext]_allVars => RebuildIsTheSum'
<1> SUFFICES ASSUME TiersInv, RebuildIsTheSum, [TiersNext]_allVars, done' = "rebuild"
             PROVE  RebuildIsTheSum'
  BY DEF RebuildIsTheSum
<1>1. CASE UNCHANGED tierVars
  <2>1. samples' = samples /\ recorded' = recorded /\ clock' = clock /\ done' = done
    BY <1>1 DEF tierVars
  <2> QED
    BY <2>1, AddsUpIs
<1>2. CASE Stop \/ World
  BY <1>2 DEF Stop, World, Tick, AddTorrent, ResetTorrent
<1>3. CASE Store
  <2>1. Rebuild
    BY <1>3 DEF Store, Round, Pass
  <2> QED
    BY <2>1, RebuildSums
<1> QED
  BY <1>1, <1>2, <1>3 DEF TiersNext, Start, allVars

\* After a rebuild each tier's totals are what a reader would add up from the torrents'
\* rows, and the newest value of each torrent is among those
\* (RebuildGlobalFromTorrents).
THEOREM RebuildAddsUp == TiersSpec => []RebuildIsTheSum
<1>1. TiersInit => TiersInv /\ RebuildIsTheSum
  BY InitHolds DEF TiersInit, RebuildIsTheSum
<1>2. TiersInv /\ RebuildIsTheSum /\ [TiersNext]_allVars => (TiersInv /\ RebuildIsTheSum)'
  BY StepKeepsTiers, StepSums
<1> QED
  BY <1>1, <1>2, PTL DEF TiersSpec

=============================================================================
