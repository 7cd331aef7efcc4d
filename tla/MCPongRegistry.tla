--------------------------- MODULE MCPongRegistry ---------------------------
(* Instances of PongRegistry for TLC.                                      *)
EXTENDS PongRegistry, TLC

CONSTANTS g1, s1, s2, s3, s4

MCSymmetry == Permutations({s1, s2, s3, s4})
=============================================================================
