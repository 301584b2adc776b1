----------------------------- MODULE TorrentDiff -----------------------------
(***************************************************************************)
(* What a poll's result becomes on the wire and in the browser's table.    *)
(*                                                                         *)
(* The torrent list of a poll is a function from info-hashes to rows.  The *)
(* poller (poll/poller.go tick) sends either the whole list or, against    *)
(* the previous list, the rows that are new, the changed fields of rows    *)
(* that are not (model/torrent.go DiffFrom) and the hashes that are gone.  *)
(* The browser (stores/torrents.svelte.ts) reconciles its table in place.  *)
(***************************************************************************)
EXTENDS Functions

CONSTANTS
    Hashes,     \* info-hashes
    Fields,     \* the fields of a row that travel (DownTotal does not)
    Vals,       \* their values
    BlankRow    \* the field initialisers of the browser's TorrentRow

Rows == [Fields -> Vals]

ASSUME BlankRowIsRow == BlankRow \in Rows

\* Every list a poll may return: no torrent, some, or all of them.
Lists == UNION {[S -> Rows] : S \in SUBSET Hashes}

\* Torrent.DiffFrom: the fields whose value changed, with the new value.
DiffFrom(t, prev) == [f \in {g \in Fields : t[g] # prev[g]} |-> t[f]]

\* The upserts of a tick: a new torrent whole, a known one as the non-empty
\* diff against the previous list; an unchanged one is left out.
Upserts(next, prev) ==
    LET new == DOMAIN next \ DOMAIN prev
        changed == {h \in DOMAIN next \cap DOMAIN prev :
                       DOMAIN DiffFrom(next[h], prev[h]) # {}}
    IN  [h \in new \cup changed |->
            IF h \in new THEN next[h] ELSE DiffFrom(next[h], prev[h])]

Removed(next, prev) == DOMAIN prev \ DOMAIN next

-----------------------------------------------------------------------------
\* TorrentRow.apply: a patch overwrites the fields it carries.
Patch(row, p) == [f \in Fields |-> IF f \in DOMAIN p THEN p[f] ELSE row[f]]

\* A patch for a hash the table does not have starts from the initialisers.
RowOf(table, h) == IF h \in DOMAIN table THEN table[h] ELSE BlankRow

ApplySnapshot(table, list) == [h \in DOMAIN list |-> Patch(RowOf(table, h), list[h])]

\* Mutant of ApplyUpserts: every patch starts from the initialisers.
ApplyToBlank(table, upserts) ==
    [h \in DOMAIN table \cup DOMAIN upserts |->
        IF h \in DOMAIN upserts THEN Patch(BlankRow, upserts[h]) ELSE table[h]]

ApplyUpserts(table, upserts) ==
    [h \in DOMAIN table \cup DOMAIN upserts |->
        IF h \in DOMAIN upserts THEN Patch(RowOf(table, h), upserts[h]) ELSE table[h]]

RemoveRows(table, hashes) == Restrict(table, DOMAIN table \ hashes)

\* The driver applies the upserts, then the removals.
ApplyDelta(table, upserts, removed) == RemoveRows(ApplyUpserts(table, upserts), removed)

=============================================================================
