----------------------------- MODULE MCRuntime -----------------------------
(* An instance of the runtime for TLC.                                     *)
EXTENDS Runtime
CONSTANTS w1, w2, r1, r2
=============================================================================
