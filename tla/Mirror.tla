-------------------------------- MODULE Mirror --------------------------------
(***************************************************************************)
(* What the live feed promises one browser tab.  The server publishes a    *)
(* log of torrent lists.  On each connection the tab's table is first put  *)
(* on some entry of the log and from there it only follows the log, entry  *)
(* by entry, without a gap.  A table that is about to be replaced (the     *)
(* server has given up on the connection, or a new one has delivered       *)
(* nothing yet) is promised nothing.                                       *)
(***************************************************************************)
EXTENDS Naturals, Sequences

CONSTANT List           \* what can be published

VARIABLES
    log,        \* the lists published so far
    table,      \* what the tab shows
    at          \* the entry it shows, 0 when it is promised nothing

vars == <<log, table, at>>

Init == log = <<>> /\ at = 0

Publish(w) == log' = Append(log, w) /\ UNCHANGED <<table, at>>

\* The first data of a connection: any entry, in practice a recent one.
Land(n) == at = 0 /\ at' = n /\ table' = log[n] /\ UNCHANGED log

Follow == at # 0 /\ at < Len(log) /\ at' = at + 1 /\ table' = log[at'] /\ UNCHANGED log

\* The connection is closed, replaced or given up on.
Detach == at' = 0 /\ UNCHANGED <<log, table>>

\* Nothing is promised of a detached table.
Drift == at = 0 /\ at' = 0 /\ UNCHANGED log

Next ==
    \/ \E w \in List : Publish(w)
    \/ \E n \in 1..Len(log) : Land(n)
    \/ Follow
    \/ Detach
    \/ Drift

Spec == Init /\ [][Next]_vars

=============================================================================
