---------------------------- MODULE MCNodeCache ----------------------------
(* The node cache with one agent ID, two refresh goroutines, two datastore *)
(* writes and two clock ticks: enough for two refreshes of the same node   *)
(* to read different versions at different times and commit in either    *)
(* order.                                                                 *)
EXTENDS NodeCache, TLC

CONSTANTS a1, r1, r2

MCIds == {a1}
MCRefreshers == {r1, r2}
MCMaxVer == 2
MCMaxTime == 2

=============================================================================
