---------------------------- MODULE MCHistoryTiers ----------------------------
(* HistoryTiers for TLC: three tiers stand for four, with buckets of 1, 2 and 4. *)
EXTENDS HistoryTiers

CONSTANTS t1, t2

MCTorrents == {t1, t2}
FirstTorrent == {t1}
MCTiers == <<[bucket |-> 1, retain |-> 4], [bucket |-> 2, retain |-> 6],
             [bucket |-> 4, retain |-> 8]>>
MCWindow == <<0, 2, 3>>
MCGaugeWindow == <<0, 2, 2>>
=============================================================================
