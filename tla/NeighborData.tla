---------------------------- MODULE NeighborData ----------------------------
(***************************************************************************)
(* What neighbour discovery is about: the hello of a node as disco_handler *)
(* sees it, and the Neighbor the node is remembered by.                    *)
(***************************************************************************)
CONSTANTS
  NodeIds,      \* ids of nodes
  Macs,         \* hardware addresses a hello may carry
  Addresses,    \* protocol addresses a hello may carry
  Interfaces,   \* the interfaces of this node
  None          \* nothing known

(* A hello as disco_handler sees it: op is 0, id, ip and mac come from the *)
(* packet, ifidx says which interface it came in on.                       *)
Hello == [id : NodeIds, mac : Macs, ip : Addresses, ifidx : Interfaces]

(* NeighborInterface.  local_ip and local_mac follow from local_ifidx, and *)
(* neighbor_mac is the key it is stored under.                             *)
NeighborInterface == [neighbor_ip : Addresses, local_ifidx : Interfaces]

(* Neighbor: a map from hardware address to interface.                     *)
Neighbor == [Macs -> NeighborInterface \cup {None}]

NewNeighbor == [mac \in Macs |-> None]

InterfaceOf(hello) == [neighbor_ip |-> hello.ip, local_ifidx |-> hello.ifidx]

ASSUME NeighborDataAssumption == None \notin NeighborInterface \cup Neighbor

(* Mutant of AddInterface: an interface known already is left as it is.    *)
AddNewInterface(neighbor, hello) ==
  [neighbor EXCEPT ![hello.mac] = IF @ = None THEN InterfaceOf(hello) ELSE @]

AddInterface(neighbor, hello) ==
  [neighbor EXCEPT ![hello.mac] = InterfaceOf(hello)]

(* The neighbour that disco_handler stores, given the one it found.        *)
Merge(found, hello) ==
  AddInterface(IF found = None THEN NewNeighbor ELSE found, hello)
=============================================================================
