--------------------------- MODULE MCExpiryCache ---------------------------
(***************************************************************************)
(* A TLC instance of ExpiryCache: two keys, so that a GC moves one key's *)
(* entry while another is being read; two values, so that a stale hit is *)
(* told from a fresh one; two clients, so that a Set and a Delete fall   *)
(* between the two halves of a Get; and a clock long enough for two GCs. *)
(***************************************************************************)
EXTENDS ExpiryCache, TLC

CONSTANTS k1, k2, v1, v2, c1, c2

MCKeys == {k1, k2}
MCValues == {v1, v2}
MCClients == {c1, c2}
MCMaxTime == 4
MCGCInterval == 2

Symmetry == Permutations(MCKeys) \cup Permutations(MCValues) \cup Permutations(MCClients)

=============================================================================
