---------------------------- MODULE LiveFeedProps ----------------------------
(* What the live feed must guarantee, and that it implements Mirror. *)
EXTENDS LiveFeed

\* The connection the tab reads from is one the server has not given up on.
Sound == cur # NoConn /\ cur \notin killed /\ handler[cur] # "returned"

\* Between the poller and the tab, oldest first.
Pipeline(c) == wire[c] \o chan[c]

\* The newest data of a tab that is on from and has q still to read is to.
Newest(q, from, to) ==
    \/ to = from /\ \A i \in 1..Len(q) : ~IsData(q[i])
    \/ \E i \in 1..Len(q) :
           IsData(q[i]) /\ q[i].seq = to /\ \A j \in (i + 1)..Len(q) : ~IsData(q[j])

\* A table that has received data on a connection the server stands by is
\* exactly the list that was published under the last sequence number it saw:
\* no diff was lost, doubled with effect, or applied to the wrong base.
MirrorFaithful == (Sound /\ lastSeq # 0) => table = published[lastSeq]

\* Nothing published is missing downstream: on such a connection the newest
\* data message, delivered or on its way, is the newest list the poller has
\* finished publishing.
NothingMissing ==
    (Sound /\ handler[cur] = "serving" /\ pc # "cast" /\ published # <<>>) =>
        Newest(Pipeline(cur), lastSeq, Len(published))

\* A tab that has read all it was sent knows whether rtorrent is reachable,
\* also when it joined in the middle of an outage or of its announcement.
HealthKnown ==
    (/\ Sound /\ handler[cur] = "serving"
     /\ wire[cur] = <<>> /\ chan[cur] = <<>>
     /\ pc \notin {"setStatus", "castStatus"})
    => (srvDown <=> health = "unreachable")

\* On one connection the table never goes back in time.
NeverBackwards ==
    [][(cur # NoConn /\ cur' = cur /\ Sound) => lastSeq' >= lastSeq]_vars

\* The feed is a Mirror of the poller's log, at whatever entry lastSeq names,
\* as long as the connection is sound.
Feed == INSTANCE Mirror WITH
            List <- Polled,
            log <- published,
            at <- IF Sound THEN lastSeq ELSE 0

FeedIsMirror == Feed!Spec

\* Once polls stop bringing news and connections stop breaking, the tab ends up
\* showing the last list, also after it was too slow and was thrown out.
Current ==
    /\ Sound
    /\ lastSeq = Len(published)
    /\ published # <<>> => table = published[lastSeq]

Converges == <>[][~Close]_vars => <>[]Current

=============================================================================
