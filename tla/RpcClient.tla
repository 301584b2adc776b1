------------------------------ MODULE RpcClient ------------------------------
(***************************************************************************)
(* The daemon client as a whole: requests go through ScgiClient, and a     *)
(* body that comes back is read with RpcReply.  The daemon answers for     *)
(* what it knows at that moment, items of a batch in any order, any of     *)
(* them with an error of its own; it answers every item of a batch.        *)
(***************************************************************************)
EXTENDS ScgiClient, RpcReply

CONSTANTS
    TorrentLists,   \* what torrents the daemon may have: the phase of each
    Names           \* what the rows of the lists of the detail panel are called

Phases == {"check queued", "checking", "stopped", "stopped but open", "paused", "seeding",
           "leeching", "tracker down", "banned", "disk full", "stopped, disk full"}

ASSUME DaemonAssumption ==
    /\ TorrentLists \subseteq Seq(Phases)
    /\ Names \in Seq(STRING) /\ \A i \in DOMAIN Names : Names[i] # ""

VARIABLE answer     \* of the call that has just returned: what was asked, what was got

rpcVars == <<vars, answer>>

-----------------------------------------------------------------------------
(* The daemon: what is true, and how it tells. *)

\* The flags rtorrent reports for a torrent in a phase.
RowOf(hash, phase) ==
    LET flag(S) == NumStr(IF phase \in S THEN 1 ELSE 0)
        shut == {"check queued", "stopped", "paused", "stopped, disk full"}
        idle == shut \cup {"checking", "stopped but open"}
        message == CASE phase = "tracker down" -> "transport"
                     [] phase = "banned" -> "failure reason"
                     [] phase \in {"disk full", "stopped, disk full"} -> "storage error"
                     [] OTHER -> ""
    IN <<Str(hash), Num(IF phase \in {"leeching", "tracker down"} THEN 3 ELSE 0),
         flag(Phases \ {"stopped", "stopped but open", "stopped, disk full"}),
         flag(Phases \ idle), flag(Phases \ shut), flag({"checking"}), Str(message),
         Num(IF phase \in {"seeding", "banned"} THEN 0 ELSE 9),
         flag({"check queued", "checking"})>>

\* What a user means by the phase.
StatusOf(phase) ==
    CASE phase \in {"check queued", "checking"} -> "hashing"
      [] phase \in {"stopped", "stopped but open", "stopped, disk full"} -> "stopped"
      [] phase \in {"banned", "disk full"} -> "error"
      [] phase \in {"leeching", "tracker down"} -> "downloading"
      [] OTHER -> phase

\* The items of one reply, some failed, forwards or backwards, with or without
\* a stray one.
Item(id, result, failed) ==
    [id |-> id, failed |-> failed, result |-> IF failed THEN Nil ELSE result]
Reply(results, errs, backwards, stray) ==
    LET n == Len(results)
        asked(k) == IF backwards THEN n + 1 - k ELSE k
        told == [k \in 1..n |-> Item(asked(k), results[asked(k)], asked(k) \in errs)]
    IN IF stray THEN <<Item(n + 1, Num(7), FALSE)>> \o told ELSE told
Replies(results) ==
    {Reply(results, errs, backwards, stray) :
        errs \in SUBSET (1..Len(results)), backwards \in BOOLEAN, stray \in BOOLEAN}

Short == <<Str("?")>>      \* a row without its fields
DownTotal == 5
DownLimit == 6
Pieces == [bitfield |-> "FFC0", chunks |-> 10]
Listings == UNION {[1..n -> {"full", "short"}] : n \in 0..Len(Names)}

PollReplies(torrents) ==
    Replies(<<List([i \in 1..Len(torrents) |-> RowOf(i, torrents[i])]),
              NumStr(DownTotal), Num(DownLimit)>>)
FileRows(listing) ==
    [i \in DOMAIN listing |-> IF listing[i] = "short" THEN Short
                              ELSE <<Str(Names[i]), Num(i), NumStr(4), Num(1)>>]
TrackerRows(listing) ==
    [i \in DOMAIN listing |-> IF listing[i] = "short" THEN Short
                              ELSE <<Str(Names[i]), NumStr(i % 2), Num(i)>>]
HostRows(listing) ==
    [i \in DOMAIN listing |-> IF listing[i] = "short" THEN Short
                              ELSE <<Str(Names[i]), Num((i + 1) % 2)>>]
RowReplies(rows) ==
    {[id |-> 1, failed |-> FALSE, result |-> List(rows)],
     [id |-> 1, failed |-> TRUE, result |-> Nil],
     [id |-> 1, failed |-> FALSE, result |-> Str("garbage")]}

\* Questions, what is true about them, and the caller's answer.
Answers ==
    {[asked |-> "poll", of |-> pair[1], got |-> PollAnswer(pair[2])] : pair \in
        UNION {{torrents} \X PollReplies(torrents) : torrents \in TorrentLists}} \cup
    {[asked |-> "files", of |-> pair[1],
      got |-> RowsAnswer(pair[2], DecodeFiles(RowsOf(pair[2])))] : pair \in
        UNION {{listing} \X RowReplies(FileRows(listing)) : listing \in Listings}} \cup
    {[asked |-> "trackers", of |-> pair[1],
      got |-> RowsAnswer(pair[2], DecodeTrackers(RowsOf(pair[2])))] : pair \in
        UNION {{listing} \X RowReplies(TrackerRows(listing)) : listing \in Listings}} \cup
    {[asked |-> "host", of |-> listing,
      got |-> [ok |-> TRUE, host |-> PrimaryTrackerHost(HostRows(listing))]] :
        listing \in Listings} \cup
    {[asked |-> "pieces", of |-> <<>>, got |-> PiecesAnswer(items)] : items \in
        Replies(<<Str(Pieces.bitfield), Num(Pieces.chunks)>>)}

NoAnswer == [asked |-> "nothing", of |-> <<>>, got |-> Failed]

-----------------------------------------------------------------------------

RpcInit == Init /\ answer = NoAnswer

\* Call and Batch return once Do has: decoded, or with its error.
Returned(c) == call[c].at # "done" /\ call'[c].at = "done"

\* json.Unmarshal: what is left of a cut object or array is no JSON.
Decodes(frame) == frame.length = BodyLength

RpcNext ==
    /\ Next
    /\ IF \E c \in Calls : Returned(c) /\ call'[c].result = "body" /\ Decodes(call'[c].frame)
       THEN answer' \in Answers
       ELSE answer' = NoAnswer

RpcSpec == RpcInit /\ [][RpcNext]_rpcVars

\* The scheduler runs every goroutine that can run, and context timers fire.
\* Nothing is assumed of time here, nor of the daemon.
Running(c) == WF_vars(Do(c)) /\ WF_vars(Yank(c)) /\ WF_vars(WatchEnds(c))
              /\ WF_vars(Expire(c))
FairSpec == RpcSpec /\ \A c \in Calls : Running(c)

-----------------------------------------------------------------------------
(* Properties. *)

\* A cancelled call returns and gives its slot back without waiting for any
\* timer, its own or the read timeout, whatever the daemon does (Do's watcher,
\* the selects on ctx.Done).
CancelFreesSlot ==
    \A c \in Calls : (call[c].at \in UnderWay /\ Ended(c)) ~> (call[c].at = "done")

\* As long as time passes, every call ends and leaves no watcher behind, also
\* with a daemon that accepts and never answers (the connection deadline, the
\* dial budget, watchDone).
EveryCallEnds ==
    WF_vars(Tick) =>
        \A c \in Calls : (call[c].at = "queued") ~>
                            (call[c].at = "done" /\ call[c].watcher # "watching")

\* A poll tells of every torrent of the daemon, with the status a user means and
\* with rates and limits the daemon reported, or fails: an item that failed is
\* never a zero (Poll, decodeTorrents, deriveStatus, Batch).
PollAllOrNothing ==
    (answer.asked = "poll" /\ answer.got.ok) =>
        LET told == answer.got.torrents
            phases == answer.of
        IN /\ Len(told) = Len(phases)
           /\ \A i \in 1..Len(phases) : told[i].hash = i /\ told[i].status = StatusOf(phases[i])
           /\ answer.got.downRate =
                 3 * Cardinality({i \in DOMAIN phases : phases[i] \in {"leeching", "tracker down"}})
           /\ answer.got.downTotal = DownTotal /\ answer.got.downLimit = DownLimit

\* The index a file or tracker is shown with is the one that the daemon knows it
\* by, which f.priority.set and t.is_enabled.set will address, also after rows
\* that were skipped; the host shown is an enabled tracker's if there is one
\* (decodeFiles, decodeTrackers, primaryTrackerHost).
ListsAddressTheirItems ==
    LET listing == answer.of
        full == {i \in DOMAIN listing : listing[i] = "full"}
    IN /\ (answer.asked = "files" /\ answer.got.ok) =>
             /\ {file.index : file \in answer.got.rows} = {i - 1 : i \in full}
             /\ \A file \in answer.got.rows : file.path = Names[file.index + 1] /\ file.done[2] = 4
       /\ (answer.asked = "trackers" /\ answer.got.ok) =>
             /\ {tracker.index : tracker \in answer.got.rows} = {i - 1 : i \in full}
             /\ \A tracker \in answer.got.rows :
                    /\ tracker.url = Names[tracker.index + 1]
                    /\ tracker.enabled = ((tracker.index + 1) % 2 = 1)
       /\ answer.asked = "host" =>
             /\ (answer.got.host = "") <=> (full = {})
             /\ (\E i \in full : i % 2 = 0) =>
                    answer.got.host \in {Names[i] : i \in {k \in full : k % 2 = 0}}
=============================================================================
