---------------------------- MODULE MCDetailPanel ----------------------------
(* DetailPanel for TLC: two torrents, the pieces and a tab with mutations. *)
EXTENDS DetailPanel

CONSTANTS h1, h2

MCHashes == {h1, h2}
MCTabs == {"general", "files"}
MCSlots == 1..3
=============================================================================
