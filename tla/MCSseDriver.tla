---------------------------- MODULE MCSseDriver ----------------------------
(* SseDriver for TLC.  A tick is 15 s: the staleness tolerance is one, the *)
(* first-message rule two.                                                 *)
EXTENDS SseDriver

=============================================================================
