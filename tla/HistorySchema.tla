---------------------------- MODULE HistorySchema ----------------------------
(***************************************************************************)
(* Opening the history database (insight/history/store.go New, migrate and *)
(* its migrations).  A file of any earlier build, or none, walks forward   *)
(* one transaction at a time; the process may die between two of them, and *)
(* a newer build's file is refused.                                        *)
(***************************************************************************)
EXTENDS Integers

VARIABLES
    file,       \* the database: its version, its tables and what they hold
    opening     \* New: "closed", "migrating", "refused" or "ready"

schemaVars == <<file, opening>>

SchemaVersion == 5

\* What a table called samples may be, by the columns that are asked for: the
\* store's own has res, hash, ts, down and up, the rate table of the first builds
\* all but res, and somebody else's may have hash and ts, or res with them.
WithKey == {"rates", "keyed", "alike", "counters"}
WithRes == {"alike", "counters"}
WithCounts == {"rates", "counters"}
Found == {"none", "foreign"} \cup WithKey

\* The rows that were found: the recent ones of the totals, and all the others.
Rows == {"recentTotals", "others"}

\* Builds before the first migration left a rate table, the counter table without
\* a version, or nothing.
Holding(samples) == [version |-> 0, since |-> 0, samples |-> samples, found |-> samples,
                     rows |-> Rows, seen |-> IF samples = "counters" THEN "lastSeen" ELSE "none",
                     metrics |-> FALSE, meta |-> FALSE]
Files ==
    {Holding(samples) : samples \in Found} \cup
    {[Holding("counters") EXCEPT !.version = v, !.since = v, !.metrics = v >= 3, !.meta = v >= 5,
          !.seen = IF v >= 2 THEN "firstSeen" ELSE "lastSeen"] : v \in 1..SchemaVersion + 1}

\* Mutant of LegacySamples: any table without the new column is dropped.
LegacyByAbsence(f) == f.samples \notin WithRes \cup {"none"}

\* legacySamples: positively the old shape; in any doubt it is not.
LegacySamples(f) == f.samples \in (WithKey \cap WithCounts) \ WithRes

\* Migration v, within its transaction.
Migrated(f, v) ==
    CASE v = 1 -> LET kept == IF LegacySamples(f)
                              THEN [f EXCEPT !.samples = "none", !.rows = {}] ELSE f
                  IN [kept EXCEPT !.samples = IF @ = "none" THEN "counters" ELSE @,
                                  !.seen = IF @ = "none" THEN "lastSeen" ELSE @]
      [] v = 2 -> [f EXCEPT !.seen = "firstSeen"]
      [] v = 3 -> [f EXCEPT !.metrics = TRUE]
      [] v = 4 -> [f EXCEPT !.rows = @ \ {"recentTotals"}]
      [] v = 5 -> [f EXCEPT !.meta = TRUE]

\* The second migration reads hash and ts of samples, the fourth hash and res.
Applies(f, v) ==
    /\ v = 2 => f.samples \in WithKey
    /\ v = 4 => f.samples \in WithKey \cap WithRes

SchemaInit == file \in Files /\ opening = "closed"

Open ==
    /\ opening = "closed"
    /\ opening' = IF file.version > SchemaVersion THEN "refused" ELSE "migrating"
    /\ UNCHANGED file

\* Mutant of Migrate: the version is stamped outside the transaction, first.
MigrateStampFirst ==
    /\ opening = "migrating" /\ file.version < SchemaVersion
    /\ LET v == file.version + 1
       IN \/ Applies(file, v) /\ file' = [Migrated(file, v) EXCEPT !.version = v]
             /\ UNCHANGED opening
          \/ file' = [file EXCEPT !.version = v] /\ opening' = "refused"

\* One migration: committed with its version, or rolled back with an error.
Migrate ==
    /\ opening = "migrating" /\ file.version < SchemaVersion
    /\ LET v == file.version + 1
       IN \/ Applies(file, v) /\ file' = [Migrated(file, v) EXCEPT !.version = v]
             /\ UNCHANGED opening
          \/ opening' = "refused" /\ UNCHANGED file

\* The write probe decides whether the store may be used.
Probe ==
    /\ opening = "migrating" /\ file.version = SchemaVersion
    /\ opening' \in {"ready", "refused"}
    /\ UNCHANGED file

\* The process dies or is told to stop; another start tries again.
Reopen ==
    /\ opening # "closed" /\ opening' = "closed"
    /\ UNCHANGED file

\* Whatever died in between, a file has exactly what its version says, and a store
\* in use has it all; that a table with res, hash and ts is the store's own is taken
\* for granted.  Two migrations lose rows that were found, and no others: the first
\* drops the old rate table, the fourth the recent rows of the totals.  Somebody
\* else's table without these columns keeps every row and its file is refused,
\* though not before it has been given tables of the store's (migrate's
\* transactions, legacySamples, New's probe).
UpgradeIsSafe ==
    /\ file.version > 0 =>
           /\ file.seen = IF file.version >= 2 THEN "firstSeen" ELSE "lastSeen"
           /\ file.metrics = (file.version >= 3)
           /\ file.meta = (file.version >= 5)
    /\ opening = "ready" => /\ file.version = SchemaVersion
                            /\ file.samples = IF file.found = "alike" THEN "alike" ELSE "counters"
    /\ "others" \notin file.rows => file.found = "rates"
    /\ file.found # "rates" =>
           ("recentTotals" \notin file.rows <=> (file.since < 4 /\ file.version >= 4))
    /\ file.found \in {"foreign", "keyed"} => file.rows = Rows /\ file.version < 4
=============================================================================
