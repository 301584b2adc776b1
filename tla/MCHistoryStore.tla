---------------------------- MODULE MCHistoryStore ----------------------------
(* HistoryStore for TLC: one torrent. *)
EXTENDS HistoryStore

CONSTANT h1

OneTorrent == {h1}

=============================================================================
