--------------------------- MODULE MCStateHistory ---------------------------
(* An instance of the State actor with its history variables for TLC.      *)
EXTENDS StateHistory

CONSTANTS c1, c2, n1, h1
=============================================================================
