------------------------------- MODULE RpcReply -------------------------------
(***************************************************************************)
(* What the JSON-RPC client makes of a reply (rpc/client.go Batch,         *)
(* rpc/torrents.go Poll and its decoders, rpc/detail.go): a batch is put   *)
(* back in order by the ids of its items, rows are read by position, and   *)
(* numbers arrive as JSON numbers or as strings.                           *)
(*                                                                         *)
(* A raw value is a record of its JSON kind and its contents; Nil is the   *)
(* value that is not there.  A row keeps the fields that something is      *)
(* decided by; the others are copied like them.                            *)
(***************************************************************************)
EXTENDS Integers, Sequences, FiniteSets

Nil == [json |-> "absent", is |-> 0]
Num(n) == [json |-> "number", is |-> n]
NumStr(n) == [json |-> "numeral", is |-> n]     \* a number in quotes
Str(s) == [json |-> "string", is |-> s]
List(rows) == [json |-> "list", is |-> rows]

AsInt(raw) == IF raw.json \in {"number", "numeral"} THEN raw.is ELSE 0
AsStr(raw) == IF raw.json = "absent" THEN "" ELSE raw.is

Failed == [ok |-> FALSE]

-----------------------------------------------------------------------------
(* Batch: one reply for n calls, its items in any order. *)

Batch(n, items) ==
    LET good(i) == {k \in DOMAIN items : items[k].id = i /\ ~items[k].failed}
        last(K) == CHOOSE k \in K : \A m \in K : m <= k
    IN [errs |-> {i \in 1..n : \E k \in DOMAIN items : items[k].id = i /\ items[k].failed},
        results |-> [i \in 1..n |-> IF good(i) = {} THEN Nil ELSE items[last(good(i))].result]]

-----------------------------------------------------------------------------
(* The torrent list. *)

TorrentFields == <<"hash", "downRate", "state", "active", "open", "checking", "message",
                   "left", "hashing">>
Field(row, name) == row[CHOOSE i \in DOMAIN TorrentFields : TorrentFields[i] = name]

\* isTrackerWarning: a failing transport, not a tracker's rejection.
TrackerMessages == {"transport", "failure reason", "tracker message", "received error message"}
Rejections == {"failure reason", "tracker message", "received error message"}
IsTrackerWarning(message) == message \in TrackerMessages \ Rejections

\* Mutant of DeriveStatus: is_open decides what is stopped, d.hashing nothing.
DeriveStatusByOpen(row) ==
    LET is(name) == AsInt(Field(row, name)) # 0
        message == AsStr(Field(row, "message"))
    IN IF is("checking") THEN "hashing"
       ELSE IF ~is("open") THEN "stopped"
       ELSE IF message # "" /\ ~IsTrackerWarning(message) THEN "error"
       ELSE IF is("left") THEN "downloading" ELSE "seeding"

DeriveStatus(row) ==
    LET is(name) == AsInt(Field(row, name)) # 0
        message == AsStr(Field(row, "message"))
    IN IF is("checking") \/ is("hashing") THEN "hashing"
       ELSE IF ~is("state") THEN "stopped"
       ELSE IF message # "" /\ ~IsTrackerWarning(message) THEN "error"
       ELSE IF ~is("active") \/ ~is("open") THEN "paused"
       ELSE IF is("left") THEN "downloading" ELSE "seeding"

\* The rows of a multicall that have all their fields; decoders skip the rest.
Kept(rows, good) ==
    LET upTo[n \in 0..Len(rows)] ==
            IF n = 0 THEN <<>>
            ELSE IF n \in good THEN Append(upTo[n - 1], rows[n]) ELSE upTo[n - 1]
    IN upTo[Len(rows)]
FullRows(rows, width) == Kept(rows, {i \in DOMAIN rows : Len(rows[i]) >= width})

DecodeTorrents(raw) ==
    LET rows == IF raw.json = "absent" THEN <<>> ELSE FullRows(raw.is, Len(TorrentFields))
    IN [i \in 1..Len(rows) |-> [hash |-> AsStr(Field(rows[i], "hash")),
                                downRate |-> AsInt(Field(rows[i], "downRate")),
                                status |-> DeriveStatus(rows[i])]]

SumRates(torrents) ==
    LET upTo[n \in 0..Len(torrents)] ==
            IF n = 0 THEN 0 ELSE upTo[n - 1] + torrents[n].downRate
    IN upTo[Len(torrents)]

\* Mutant of PollAnswer: only the list's own error is looked at.
PollAnswerListOnly(items) ==
    LET batch == Batch(3, items)
        torrents == DecodeTorrents(batch.results[1])
    IN IF 1 \in batch.errs \/ batch.results[1].json \notin {"list", "absent"} THEN Failed
       ELSE [ok |-> TRUE, torrents |-> torrents, downRate |-> SumRates(torrents),
             downTotal |-> AsInt(batch.results[2]), downLimit |-> AsInt(batch.results[3])]

\* Poll: d.multicall2, a total and a limit; one failure fails them all.
PollAnswer(items) ==
    LET batch == Batch(3, items)
        torrents == DecodeTorrents(batch.results[1])
    IN IF batch.errs # {} \/ batch.results[1].json \notin {"list", "absent"} THEN Failed
       ELSE [ok |-> TRUE, torrents |-> torrents, downRate |-> SumRates(torrents),
             downTotal |-> AsInt(batch.results[2]), downLimit |-> AsInt(batch.results[3])]

-----------------------------------------------------------------------------
(* The lists of the detail panel: what a row is called by is its position. *)

\* Mutant of Numbered: rows are numbered as they are kept.
NumberedAsKept(rows, width) ==
    LET kept == FullRows(rows, width) IN {<<i - 1, kept[i]>> : i \in 1..Len(kept)}

\* The full rows with the index the daemon knows them by.
Numbered(rows, width) ==
    {<<i - 1, rows[i]>> : i \in {k \in DOMAIN rows : Len(rows[k]) >= width}}

DecodeFiles(rows) ==
    {[index |-> numbered[1], path |-> AsStr(numbered[2][1]),
      done |-> IF AsInt(numbered[2][3]) > 0
               THEN <<AsInt(numbered[2][2]), AsInt(numbered[2][3])>> ELSE <<0, 1>>,
      priority |-> AsInt(numbered[2][4])] : numbered \in Numbered(rows, 4)}

TrackerEvents == <<"completed", "started", "stopped", "scrape">>
TrackerEvent(raw) ==
    IF raw.json \in {"number", "numeral"}
    THEN IF raw.is \in DOMAIN TrackerEvents THEN TrackerEvents[raw.is] ELSE ""
    ELSE IF AsStr(raw) = "none" THEN "" ELSE AsStr(raw)

DecodeTrackers(rows) ==
    {[index |-> numbered[1], url |-> AsStr(numbered[2][1]),
      enabled |-> AsInt(numbered[2][2]) # 0,
      event |-> TrackerEvent(numbered[2][3])] : numbered \in Numbered(rows, 3)}

\* multicallRows: a failed call or a result that is no list is an error.
RowsOf(item) == IF item.result.json = "list" THEN item.result.is ELSE <<>>
RowsAnswer(item, decoded) ==
    IF item.failed \/ item.result.json \notin {"list", "absent"} THEN Failed
    ELSE [ok |-> TRUE, rows |-> decoded]

\* primaryTrackerHost, of rows of a host and whether it is enabled.
PrimaryTrackerHost(rows) ==
    LET named == {i \in DOMAIN rows : Len(rows[i]) >= 2 /\ AsStr(rows[i][1]) # ""}
        enabled == {i \in named : AsInt(rows[i][2]) # 0}
        first(S) == CHOOSE i \in S : \A k \in S : i <= k
    IN IF enabled # {} THEN AsStr(rows[first(enabled)][1])
       ELSE IF named # {} THEN AsStr(rows[first(named)][1]) ELSE ""

\* Pieces: only the bitfield's own failure fails the answer.
PiecesAnswer(items) ==
    LET batch == Batch(2, items)
    IN IF 1 \in batch.errs THEN Failed
       ELSE [ok |-> TRUE, bitfield |-> AsStr(batch.results[1]),
             chunks |-> AsInt(batch.results[2])]
=============================================================================
