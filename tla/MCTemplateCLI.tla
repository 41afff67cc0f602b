---------------------------- MODULE MCTemplateCLI ----------------------------
(* Three template IDs with pages of two, so a listing takes two pages and *)
(* other clients' writes fall between them; TTL flags below zero, zero    *)
(* and past a 4-bit int32: 8 would wrap to -8 and 17 to 1.                *)
EXTENDS TemplateCLI

CONSTANTS s1

MCIds == {1, 2, 3}
MCSels == {s1}
MCTtlHalf == 2^3
MCTtlFlags == {-1, 0, MCTtlHalf, 2 * MCTtlHalf + 1}
MCPageSize == 2
MCMaxOps == 2
MCMaxCreates == 1

====
