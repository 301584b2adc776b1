---------------------------- MODULE MCTrackerCache ----------------------------
(* TrackerCache for TLC. *)
EXTENDS TrackerCache

CONSTANTS t1, hostA, hostB, f1, f2, x1, x2

OneTorrent == {t1}
MCHosts == {hostA, hostB}
OneFlight == {f1}
TwoFlights == {f1, f2}
OneToggle == {x1}
TwoToggles == {x1, x2}

=============================================================================
