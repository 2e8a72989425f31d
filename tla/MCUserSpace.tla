---------------------------- MODULE MCUserSpace ----------------------------
(* Instances of UserSpace::run for TLC.                                    *)
EXTENDS UserSpace
CONSTANTS i1, i2
=============================================================================
