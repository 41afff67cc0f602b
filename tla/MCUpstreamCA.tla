---------------------------- MODULE MCUpstreamCA ----------------------------
(* The disk UpstreamAuthority plugin on two key pairs, two file locations  *)
(* and one trust domain, with two rewrites of the files and two Configure  *)
(* calls: enough to reconfigure to other files, to break the files after   *)
(* a Configure, and to repair them.                                       *)
EXTENDS UpstreamCA, TLC

CONSTANTS k1, k2, p1, p2, td1

MCKeys == {k1, k2}
MCPaths == {p1, p2}
MCTrustDomains == {td1}
MCMaxWrites == 2
MCMaxConfigures == 2

=============================================================================
