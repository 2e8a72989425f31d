---------------------------- MODULE MCLifecycle ----------------------------
(* An instance of the life cycle for TLC: two interfaces are configured.   *)
EXTENDS Lifecycle
CONSTANTS n1, n2
TwoNames == <<n1, n2>>
=============================================================================
