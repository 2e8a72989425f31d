---------------------------- MODULE MCDataPlane ----------------------------
(***************************************************************************)
(* Instances of the data plane for TLC.  An address has two bytes of one   *)
(* bit.                                                                    *)
(***************************************************************************)
EXTENDS DataPlane

CONSTANTS c1, c2, cpu1

(* A network of addresses and one of these addresses itself.  The trie     *)
(* takes 2/1 for the addresses 0 and 2, the network is 2 and 3.            *)
NetworkAndHost == {<<2, 1>>, <<2, 2>>}

(* The host alone.                                                         *)
HostOnly == {<<2, 2>>}

OneHop == {[ifidx |-> 1, src_mac |-> 1, dst_mac |-> 2, total |-> 1]}
=============================================================================
