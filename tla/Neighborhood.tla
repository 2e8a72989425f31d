---------------------------- MODULE Neighborhood ----------------------------
(***************************************************************************)
(* What neighbour discovery promises: the hellos received are heard one by *)
(* one, in the order they came, and each adds one interface to what is     *)
(* known of the node that sent it.  Nothing else ever changes what is      *)
(* known, other frames least of all, and nothing is forgotten.             *)
(***************************************************************************)
EXTENDS NeighborData, Sequences

CONSTANT Noise   \* a frame that is no hello

VARIABLES
  known,   \* [NodeIds -> Neighbor or None]
  inbox    \* frames received and not yet heard

neighborhoodVars == <<known, inbox>>

NeighborhoodInit ==
  /\ known = [id \in NodeIds |-> None]
  /\ inbox = <<>>

Receive(frame) == inbox' = Append(inbox, frame) /\ UNCHANGED known

Hear ==
  /\ inbox # <<>>
  /\ Head(inbox) \in Hello
  /\ LET hello == Head(inbox)
     IN  known' = [known EXCEPT ![hello.id] = Merge(@, hello)]
  /\ inbox' = Tail(inbox)

PassOver ==
  /\ inbox # <<>>
  /\ Head(inbox) = Noise
  /\ inbox' = Tail(inbox)
  /\ UNCHANGED known

NeighborhoodNext ==
  Hear \/ PassOver \/ \E frame \in Hello \cup {Noise} : Receive(frame)

NeighborhoodSpec == NeighborhoodInit /\ [][NeighborhoodNext]_neighborhoodVars
=============================================================================
