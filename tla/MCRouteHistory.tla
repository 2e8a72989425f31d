--------------------------- MODULE MCRouteHistory ---------------------------
(***************************************************************************)
(* An instance of the data plane with the history of the routes for TLC.   *)
(* An address has two bytes of one bit.                                    *)
(***************************************************************************)
EXTENDS RouteHistory

CONSTANTS c1, cpu1

(* A network of addresses and one of these addresses itself.  The trie     *)
(* takes 2/1 for the addresses 0 and 2, the network is 2 and 3.            *)
NetworkAndHost == {<<2, 1>>, <<2, 2>>}

(* A hop to forward by, and an entry without any.                          *)
AHop == [ifidx |-> 1, src_mac |-> 1, dst_mac |-> 2, total |-> 1]
NoHop == [ifidx |-> 0, src_mac |-> 0, dst_mac |-> 0, total |-> 0]
SomeHops == {AHop, NoHop}
=============================================================================
