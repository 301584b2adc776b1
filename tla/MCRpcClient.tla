----------------------------- MODULE MCRpcClient -----------------------------
(* RpcClient for TLC: two callers share one slot. *)
EXTENDS RpcClient

CONSTANTS c1, c2

TwoCalls == {c1, c2}
SomeDeadlines == {1, Never}
ThreeNames == <<"first", "second", "third">>
MCTorrentLists == {<<>>} \cup {<<p>> : p \in Phases} \cup {<<p, "leeching">> : p \in Phases}
=============================================================================
