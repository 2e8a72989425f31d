------------------------------- MODULE MCCli -------------------------------
(* An instance of the command line over neighbour discovery for TLC.       *)
EXTENDS Cli
CONSTANTS n1, m1, m2, a1, i1
=============================================================================
