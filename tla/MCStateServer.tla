--------------------------- MODULE MCStateServer ---------------------------
(***************************************************************************)
(* Instances of the State actor for TLC.  An address has two bytes of one  *)
(* bit, enough for the byte order of the trie to differ from the order of  *)
(* the network bits.                                                       *)
(***************************************************************************)
EXTENDS StateServer

CONSTANTS c1, c2, n1, h1, r1, r2

(* 0/1 and 2/1 share a node of the trie, whose first bit is the lowest one *)
(* of the address; 1/2 has a node of its own; 2/3 is a length the kernel   *)
(* refuses.                                                                *)
SomePrefixes == {<<0, 1>>, <<2, 1>>, <<1, 2>>, <<2, 3>>}
=============================================================================
