------------------------------- MODULE Links -------------------------------
(***************************************************************************)
(* What the send and receive tasks promise, without the channels and the   *)
(* tasks between: each interface is a link in and a link out.  A link in   *)
(* gives the receiver the frames that came, one by one, each once and in   *)
(* the order they came; it may give out at any of them.  A link out sends  *)
(* the frames that were taken, likewise, until all links out are cut at    *)
(* once; what is lost then is bounded, and nothing is taken or sent after. *)
(* SendReceive is shown to implement this.                                 *)
(***************************************************************************)
EXTENDS Integers, Sequences, FiniteSets

CONSTANTS Interfaces, Capacity, MaxSends

VARIABLES
  came,    \* per interface: how many frames came in
  given,   \* the frames the receiver was given, over all interfaces
  taken,   \* per interface: how many frames were taken to be sent
  sent,    \* per interface: the frames sent
  cut      \* whether the links out are cut

linkVars == <<came, given, taken, sent, cut>>

LinkInit ==
  /\ came = [i \in Interfaces |-> 0]
  /\ given = <<>>
  /\ taken = [i \in Interfaces |-> 0]
  /\ sent = [i \in Interfaces |-> <<>>]
  /\ cut = FALSE

Come(i) ==
  /\ came' = [came EXCEPT ![i] = @ + 1]
  /\ UNCHANGED <<given, taken, sent, cut>>

Was(frame) == \E p \in DOMAIN given : given[p] = frame

(* The receiver is given the next frame of interface i.                    *)
Give(i) ==
  /\ \E k \in 1 .. came[i] :
       /\ ~Was(<<i, k>>)
       /\ \A earlier \in 1 .. (k - 1) : Was(<<i, earlier>>)
       /\ given' = Append(given, <<i, k>>)
  /\ UNCHANGED <<came, taken, sent, cut>>

TakeOne(i) ==
  /\ ~cut
  /\ taken' = [taken EXCEPT ![i] = @ + 1]
  /\ UNCHANGED <<came, given, sent, cut>>

(* The next frame of interface i goes out.                                 *)
SendOne(i) ==
  /\ ~cut
  /\ Len(sent[i]) < taken[i]
  /\ sent' = [sent EXCEPT ![i] = Append(@, <<i, Len(sent[i]) + 1>>)]
  /\ UNCHANGED <<came, given, taken, cut>>

Lost == {f \in Interfaces \X (1 .. MaxSends) :
           Len(sent[f[1]]) < f[2] /\ f[2] <= taken[f[1]]}

Cut ==
  /\ ~cut
  /\ Cardinality(Lost) <= Capacity + 1
  /\ cut' = TRUE
  /\ UNCHANGED <<came, given, taken, sent>>

LinkNext ==
  Cut \/ \E i \in Interfaces : Come(i) \/ Give(i) \/ TakeOne(i) \/ SendOne(i)

LinkSpec == LinkInit /\ [][LinkNext]_linkVars
=============================================================================
