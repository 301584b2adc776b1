---------------------------- MODULE MCPollCadence ----------------------------
(* PollCadence for TLC: three streams. *)
EXTENDS PollCadence

CONSTANTS c1, c2, c3

MCClients == {c1, c2, c3}

=============================================================================
