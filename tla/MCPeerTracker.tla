--------------------------- MODULE MCPeerTracker ---------------------------
(* Small instances of PeerTracker for TLC.                                 *)
EXTENDS PeerTracker, TLC

CONSTANTS w1, w2

(* Two PIDs, each reused once; two caller goroutines.                     *)
MCPids == {1, 2}
MCWatchers == {w1, w2}
(* One caller goroutine, for the liveness run (no symmetry reduction).    *)
MCOneWatcher == {w1}
(* Two channels: one PID registered, reaped and registered again after  *)
(* reuse, or two PIDs registered at once.                                 *)
MCMaxChans == 2
MCMaxInc == 1
(* Smaller than the 5 of the code so that a batch can leave events        *)
(* queued with two PIDs.                                                   *)
MCReceiveCap == 1

(* The caller goroutines are interchangeable.                             *)
WatcherSymmetry == Permutations(MCWatchers)

=============================================================================
