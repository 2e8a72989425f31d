---------------------------- MODULE MCDiscovery ----------------------------
(* Instances of neighbour discovery for TLC.                               *)
EXTENDS Discovery
CONSTANTS n1, m1, m2, a1, i1, i2
=============================================================================
