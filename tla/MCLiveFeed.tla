----------------------------- MODULE MCLiveFeed -----------------------------
(* LiveFeed for TLC: two torrents of two fields, four lists that differ by an
   arrival, a departure, a change of one field and a change of the other. *)
EXTENDS LiveFeedProps, TLC

CONSTANTS a, b, k1, k2

MCHashes == {a, b}
MCFields == {"rate", "done"}
MCVals == 0..1
Row(r, d) == [rate |-> r, done |-> d]
MCBlankRow == Row(0, 0)

MCConns == {k1, k2}
OneConn == {k1}

Alone == a :> Row(1, 0)
Both  == a :> Row(1, 1) @@ b :> Row(1, 0)
Calm  == a :> Row(0, 1) @@ b :> Row(1, 0)
Other == b :> Row(1, 1)

MCPolled == {Alone, Both, Calm, Other}
TwoLists == {Alone, Calm}

=============================================================================
