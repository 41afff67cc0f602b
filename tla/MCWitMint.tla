----------------------------- MODULE MCWitMint -----------------------------
(* The wit mint command with an 8-bit Duration, 4 ticks to the second and *)
(* a 4-bit request TTL: (2^3 + 2) * 4 = 40 is below 2^7 = 128, as         *)
(* (2^31 + 2) * 10^9 is below 2^63, so the run reaches TTLs that round    *)
(* up, that pass the int32 range, and that wrap the Duration sum.         *)
EXTENDS WitMint

MCDurationHalf == 2^7
MCSecond == 4
MCTtlHalf == 2^3
MCLifetimes == {MCSecond, 3 * MCSecond}

=============================================================================
