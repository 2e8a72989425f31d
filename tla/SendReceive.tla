---------------------------- MODULE SendReceive ----------------------------
(***************************************************************************)
(* send_receive/send_receive.rs: the tasks between the network interfaces  *)
(* and the rest of the program.                                            *)
(*                                                                         *)
(*   inwards   one reader per interface -> inbound -> forwarder -> frames  *)
(*             -> the receiver task of UserSpace                           *)
(*   outwards  holders of a SendReceiveClient -> out -> sender -> wire     *)
(*                                                                         *)
(* A client is an Option of the outward channel's sender.  It is None      *)
(* until run sets it, client() hands out a copy of what it is at that      *)
(* moment, and send on None does nothing and returns Ok.                   *)
(*                                                                         *)
(* run opens the interfaces one after the other, and the readers already   *)
(* spawned work while it does; only then are the sender and the forwarder  *)
(* spawned.  When an interface cannot be opened run panics, and the        *)
(* channels go with it.                                                    *)
(*                                                                         *)
(* A frame is a pair <<interface, k>>: the k-th to arrive on, or to be     *)
(* accepted for, that interface.                                           *)
(***************************************************************************)
EXTENDS Integers, Sequences, FiniteSets

CONSTANTS
  Interfaces,   \* the configured interfaces
  Foreign,      \* an interface index that is not configured
  Holders,      \* the holders of a copy of the client
  Capacity,     \* capacity of each of the three channels: 100
  MaxArrivals,  \* bound: frames that arrive on one interface
  MaxSends,     \* bound: frames accepted for one interface
  NoFrame

ASSUME SendReceiveAssumption ==
  /\ Capacity \in Nat \ {0}
  /\ MaxArrivals \in Nat
  /\ MaxSends \in Nat
  /\ Foreign \notin Interfaces

VARIABLES
  stage,      \* "new", "starting" in run, "running", "failed" when run panicked
  own,        \* SendReceive.client: "none" or "open"
  handle,     \* per holder: "absent", "none" or "open"
  out,        \* the outward channel
  sender,     \* the sender task: "off", "up", "dead"
  outgoing,   \* the frame the sender has taken and not sent yet
  wire,       \* per interface: the frames sent
  accepted,   \* per interface: how many frames the channel took
  arrived,    \* per interface: how many frames came in
  unread,     \* per interface: frames the reader has not read yet
  reader,     \* per interface: "off", "reading", "sending", "dead"
  held,       \* per interface: the frame its reader is sending
  inbound,    \* the channel from the readers to the forwarder
  carried,    \* the frame the forwarder is sending
  frames,     \* the channel from the forwarder to the receiver
  received,   \* what the receiver took
  stuck,      \* whether the receiver waits for a dead State task
  slot        \* the reader, if any, whose worker the forwarder waits for

outVars == <<out, sender, outgoing, wire, accepted>>
readerVars == <<arrived, unread, reader, held>>
inVars == <<readerVars, inbound, carried, frames, received, stuck, slot>>
vars == <<stage, own, handle, outVars, inVars>>

Frame == (Interfaces \cup {Foreign}) \X (1 .. (MaxArrivals + MaxSends))

ASSUME NoFrameAssumption == NoFrame \notin Frame

-----------------------------------------------------------------------------
Init ==
  /\ stage = "new"
  /\ own = "none"
  /\ handle = [h \in Holders |-> "absent"]
  /\ out = <<>>
  /\ sender = "off"
  /\ outgoing = NoFrame
  /\ wire = [i \in Interfaces |-> <<>>]
  /\ accepted = [i \in Interfaces \cup {Foreign} |-> 0]
  /\ arrived = [i \in Interfaces |-> 0]
  /\ unread = [i \in Interfaces |-> <<>>]
  /\ reader = [i \in Interfaces |-> "off"]
  /\ held = [i \in Interfaces |-> NoFrame]
  /\ inbound = <<>>
  /\ carried = NoFrame
  /\ frames = <<>>
  /\ received = <<>>
  /\ stuck = FALSE
  /\ slot = {}

-----------------------------------------------------------------------------
(* The start.  run has SendReceive to itself until it returns.             *)

(* Mutant of Client: a handle on the channel, whenever it is set.           *)
SharedClient(h) ==
  /\ stage \in {"new", "running"}
  /\ handle[h] = "absent"
  /\ handle' = [handle EXCEPT ![h] = "open"]
  /\ UNCHANGED <<stage, own, outVars, inVars>>

(* SendReceive::client.                                                    *)
Client(h) ==
  /\ stage \in {"new", "running"}
  /\ handle[h] = "absent"
  /\ handle' = [handle EXCEPT ![h] = own]
  /\ UNCHANGED <<stage, own, outVars, inVars>>

(* SendReceive::run makes the channels and sets the client ...             *)
Run ==
  /\ stage = "new"
  /\ stage' = "starting"
  /\ own' = "open"
  /\ UNCHANGED <<handle, outVars, inVars>>

(* ... opens an interface and spawns its reader, in whatever order the     *)
(* HashMap yields them ...                                                 *)
OpenInterface(i) ==
  /\ stage = "starting"
  /\ reader[i] = "off"
  /\ reader' = [reader EXCEPT ![i] = "reading"]
  /\ UNCHANGED <<stage, own, handle, outVars, arrived, unread, held, inbound,
                 carried, frames, received, stuck, slot>>

(* ... then spawns the sender and the forwarder.                           *)
SpawnRest ==
  /\ stage = "starting"
  /\ \A i \in Interfaces : reader[i] # "off"
  /\ stage' = "running"
  /\ sender' = "up"
  /\ UNCHANGED <<own, handle, out, outgoing, wire, accepted, inVars>>

(* An interface is not there or cannot be opened: run panics.  The sender  *)
(* and the forwarder will never be, and the channels are closed.  What     *)
(* inbound holds is dropped with it: it stays here as Lost.                *)
RunPanics ==
  /\ stage = "starting"
  /\ \E i \in Interfaces : reader[i] = "off"
  /\ stage' = "failed"
  /\ UNCHANGED <<own, handle, outVars, inVars>>

-----------------------------------------------------------------------------
(* Inwards.                                                                *)

(* The network: a frame comes in on an interface that is being read.       *)
FrameArrives(i) ==
  /\ reader[i] \in {"reading", "sending"}
  /\ arrived[i] < MaxArrivals
  /\ arrived' = [arrived EXCEPT ![i] = @ + 1]
  /\ unread' = [unread EXCEPT ![i] = Append(@, <<i, arrived[i] + 1>>)]
  /\ UNCHANGED <<stage, own, handle, outVars, reader, held, inbound, carried,
                 frames, received, stuck, slot>>

(* dl_rx.next() gives the reader a frame.                                  *)
Read(i) ==
  /\ reader[i] = "reading"
  /\ unread[i] # <<>>
  /\ held' = [held EXCEPT ![i] = Head(unread[i])]
  /\ unread' = [unread EXCEPT ![i] = Tail(@)]
  /\ reader' = [reader EXCEPT ![i] = "sending"]
  /\ UNCHANGED <<stage, own, handle, outVars, arrived, inbound, carried, frames,
                 received, stuck, slot>>

(* dl_rx.next() fails: its unwrap panics and this reader is gone.          *)
ReadFails(i) ==
  /\ reader[i] = "reading"
  /\ reader' = [reader EXCEPT ![i] = "dead"]
  /\ UNCHANGED <<stage, own, handle, outVars, arrived, unread, held, inbound,
                 carried, frames, received, stuck, slot>>

(* The forwarder waits for a frame, or is about to.                        *)
ForwarderWaits == stage = "running" /\ inbound = <<>> /\ carried = NoFrame

(* Reader i wakes the forwarder: it is put into the slot of the worker     *)
(* that runs the reader, where no other worker can take it, unless it is   *)
(* still being polled elsewhere.                                           *)
WakeForwarder(i) == UNCHANGED slot \/ (ForwarderWaits /\ slot' = {i})

(* Mutant of PassOn: a channel that takes one frame too many.               *)
PassOnWhenFull(i) ==
  /\ reader[i] = "sending"
  /\ stage \in {"starting", "running"}
  /\ Len(inbound) <= Capacity
  /\ inbound' = Append(inbound, held[i])
  /\ held' = [held EXCEPT ![i] = NoFrame]
  /\ reader' = [reader EXCEPT ![i] = "reading"]
  /\ WakeForwarder(i)
  /\ UNCHANGED <<stage, own, handle, outVars, arrived, unread, carried, frames,
                 received, stuck>>

(* The reader's send completes: the channel is open from the moment run    *)
(* made it, and it goes on with dl_rx.next(), which blocks its worker.     *)
PassOn(i) ==
  /\ reader[i] = "sending"
  /\ stage \in {"starting", "running"}
  /\ Len(inbound) < Capacity
  /\ inbound' = Append(inbound, held[i])
  /\ held' = [held EXCEPT ![i] = NoFrame]
  /\ reader' = [reader EXCEPT ![i] = "reading"]
  /\ WakeForwarder(i)
  /\ UNCHANGED <<stage, own, handle, outVars, arrived, unread, carried, frames,
                 received, stuck>>

(* The reader's send fails, the channel being closed: its unwrap panics.   *)
PassOnFails(i) ==
  /\ reader[i] = "sending"
  /\ stage = "failed"
  /\ reader' = [reader EXCEPT ![i] = "dead"]
  /\ held' = [held EXCEPT ![i] = NoFrame]
  /\ UNCHANGED <<stage, own, handle, outVars, arrived, unread, inbound, carried,
                 frames, received, stuck, slot>>

(* The forwarder (recv): take a frame, then wait for room to pass it on.   *)
(* In the slot of a worker it has to wait until the reader there, blocked  *)
(* in dl_rx.next(), is back in an await or dead.                           *)
ForwarderTakes ==
  /\ stage = "running"
  /\ carried = NoFrame
  /\ inbound # <<>>
  /\ \A i \in slot : reader[i] # "reading"
  /\ carried' = Head(inbound)
  /\ inbound' = Tail(inbound)
  /\ slot' = {}
  /\ UNCHANGED <<stage, own, handle, outVars, readerVars, frames, received, stuck>>

(* Mutant of ForwarderSends: try_send, the frame is dropped when full.      *)
ForwarderTrySends ==
  /\ carried # NoFrame
  /\ frames' = IF Len(frames) < Capacity THEN Append(frames, carried) ELSE frames
  /\ carried' = NoFrame
  /\ UNCHANGED <<stage, own, handle, outVars, readerVars, inbound, received,
                 stuck, slot>>

ForwarderSends ==
  /\ carried # NoFrame
  /\ Len(frames) < Capacity
  /\ frames' = Append(frames, carried)
  /\ carried' = NoFrame
  /\ UNCHANGED <<stage, own, handle, outVars, readerVars, inbound, received,
                 stuck, slot>>

(* The receiver task takes the next frame.                                 *)
ReceiverTakes ==
  /\ ~stuck
  /\ frames # <<>>
  /\ received' = Append(received, Head(frames))
  /\ frames' = Tail(frames)
  /\ UNCHANGED <<stage, own, handle, outVars, readerVars, inbound, carried,
                 stuck, slot>>

(* The State task is dead: the get that disco_handler makes for the frame  *)
(* just taken is never answered, and the receiver takes no other.          *)
ReceiverStops ==
  /\ ~stuck
  /\ received # <<>>
  /\ stuck' = TRUE
  /\ UNCHANGED <<stage, own, handle, outVars, readerVars, inbound, carried, frames,
                 received, slot>>

-----------------------------------------------------------------------------
(* Outwards: SendReceiveClient::send.                                      *)

OutClosed == stage = "failed" \/ sender = "dead"

(* On a client that holds the channel: the frame is taken when there is    *)
(* room for it ...                                                         *)
Accept(h, i) ==
  /\ handle[h] = "open"
  /\ ~OutClosed
  /\ Len(out) < Capacity
  /\ accepted[i] < MaxSends
  /\ accepted' = [accepted EXCEPT ![i] = @ + 1]
  /\ out' = Append(out, <<i, accepted[i] + 1>>)
  /\ UNCHANGED <<stage, own, handle, sender, outgoing, wire, inVars>>

(* ... and refused with an error once the sender task is gone.  A client   *)
(* that is None returns Ok and does nothing.                               *)
SendReturnsOk(h) == handle[h] = "none" \/ ~OutClosed

Send(h, i) ==
  IF handle[h] = "open" /\ ~OutClosed THEN Accept(h, i) ELSE UNCHANGED vars

(* The sender task takes a frame; it is dropped when its interface is not  *)
(* one of the configured ones ...                                          *)
SenderTakes ==
  /\ sender = "up"
  /\ outgoing = NoFrame
  /\ out # <<>>
  /\ outgoing' = IF Head(out)[1] \in Interfaces THEN Head(out) ELSE NoFrame
  /\ out' = Tail(out)
  /\ UNCHANGED <<stage, own, handle, sender, wire, accepted, inVars>>

(* ... sent ...                                                            *)
Transmit ==
  /\ outgoing # NoFrame
  /\ wire' = [wire EXCEPT ![outgoing[1]] = Append(@, outgoing)]
  /\ outgoing' = NoFrame
  /\ UNCHANGED <<stage, own, handle, out, sender, accepted, inVars>>

(* Mutant of TransmitFails: the error is logged and the task goes on.       *)
TransmitErrorLogged ==
  /\ outgoing # NoFrame
  /\ outgoing' = NoFrame
  /\ UNCHANGED <<stage, own, handle, out, sender, wire, accepted, inVars>>

(* ... or its transmission fails, on one interface: the task panics, and   *)
(* with it go the channel and the frames of all interfaces waiting there.  *)
TransmitFails ==
  /\ outgoing # NoFrame
  /\ sender' = "dead"
  /\ outgoing' = NoFrame
  /\ out' = <<>>
  /\ UNCHANGED <<stage, own, handle, wire, accepted, inVars>>

-----------------------------------------------------------------------------
Inwards ==
  \/ \E i \in Interfaces :
       FrameArrives(i) \/ Read(i) \/ ReadFails(i) \/ PassOn(i) \/ PassOnFails(i)
  \/ ForwarderTakes \/ ForwarderSends \/ ReceiverTakes \/ ReceiverStops

Next ==
  \/ \E h \in Holders : Client(h)
  \/ Run \/ SpawnRest \/ RunPanics
  \/ \E i \in Interfaces : OpenInterface(i)
  \/ Inwards
  \/ \E h \in Holders, i \in Interfaces \cup {Foreign} : Send(h, i)
  \/ SenderTakes \/ Transmit \/ TransmitFails

Spec == Init /\ [][Next]_vars

(***************************************************************************)
(* run goes through its interfaces once it is called.  Every task that can *)
(* make progress is polled, the forwarder only where it can be: not in the *)
(* slot of a worker that a reader blocks.  The readers' channel serves     *)
(* waiting readers in turn.  Nothing obliges a frame to arrive, a read or  *)
(* a transmission to fail, the State task to die, or anybody to send.      *)
(***************************************************************************)
Fairness ==
  /\ WF_vars(SpawnRest \/ RunPanics \/ \E i \in Interfaces : OpenInterface(i))
  /\ \A i \in Interfaces :
       WF_vars(Read(i)) /\ SF_vars(PassOn(i)) /\ WF_vars(PassOnFails(i))
  /\ WF_vars(ForwarderTakes) /\ WF_vars(ForwarderSends) /\ WF_vars(ReceiverTakes)
  /\ WF_vars(SenderTakes) /\ WF_vars(Transmit \/ TransmitFails)

FairSpec == Spec /\ Fairness

-----------------------------------------------------------------------------
TypeOK ==
  /\ stage \in {"new", "starting", "running", "failed"}
  /\ own \in {"none", "open"}
  /\ handle \in [Holders -> {"absent", "none", "open"}]
  /\ out \in Seq(Frame) /\ Len(out) <= Capacity
  /\ sender \in {"off", "up", "dead"}
  /\ outgoing \in Frame \cup {NoFrame}
  /\ wire \in [Interfaces -> Seq(Frame)]
  /\ accepted \in [Interfaces \cup {Foreign} -> 0 .. MaxSends]
  /\ arrived \in [Interfaces -> 0 .. MaxArrivals]
  /\ unread \in [Interfaces -> Seq(Frame)]
  /\ reader \in [Interfaces -> {"off", "reading", "sending", "dead"}]
  /\ held \in [Interfaces -> Frame \cup {NoFrame}]
  /\ \A i \in Interfaces : held[i] # NoFrame <=> reader[i] = "sending"
  /\ inbound \in Seq(Frame) /\ Len(inbound) <= Capacity
  /\ carried \in Frame \cup {NoFrame}
  /\ frames \in Seq(Frame) /\ Len(frames) <= Capacity
  /\ received \in Seq(Frame)
  /\ stuck \in BOOLEAN
  /\ slot \subseteq Interfaces

Hand(frame) == IF frame = NoFrame THEN <<>> ELSE <<frame>>

(* The frames of interface i in seq are its first n, each once, in order.  *)
Carries(seq, i, n) ==
  /\ \A k \in 1 .. n : \E p \in DOMAIN seq : seq[p] = <<i, k>>
  /\ \A p \in DOMAIN seq : seq[p][1] = i => seq[p][2] \in 1 .. n
  /\ \A p, q \in DOMAIN seq :
       p < q /\ seq[p][1] = i /\ seq[q][1] = i => seq[p][2] < seq[q][2]

(* What the readers have passed on, and what goes out on interface i.      *)
Passed == received \o frames \o Hand(carried) \o inbound
Leaving(i) == wire[i] \o Hand(outgoing) \o out

(* What the channel held when run panicked.                                *)
Lost == IF stage = "failed" THEN inbound ELSE <<>>

(* Frames that were accepted and not sent.                                 *)
Missing == {f \in Interfaces \X (1 .. MaxSends) :
              Len(wire[f[1]]) < f[2] /\ f[2] <= accepted[f[1]]}

(* What was passed on are the first frames of each interface, and the next *)
(* ones wait at its reader unless that is dead.                            *)
EachInOrder ==
  \A i \in Interfaces :
    \E n \in 0 .. arrived[i] :
      /\ Carries(Passed, i, n)
      /\ reader[i] # "dead" =>
           Hand(held[i]) \o unread[i] = [k \in 1 .. (arrived[i] - n) |-> <<i, n + k>>]

(***************************************************************************)
(* The frames of one interface come to the receiver in the order they      *)
(* arrived, none of them lost or doubled on the way through two channels   *)
(* and two tasks, whatever other readers, full channels or a dead reader   *)
(* do in between: only what a dead reader had not passed on is missing.    *)
(* When run panics on a later interface, though, the readers before it may *)
(* have passed on up to a channel full of frames already: all of those are *)
(* lost with their readers alive, and no more than those.                  *)
(***************************************************************************)
InboundInOrder ==
  /\ EachInOrder
  /\ stage = "failed" => Passed = Lost /\ Len(Lost) <= Capacity

(***************************************************************************)
(* The frames taken for one interface leave in the order they were taken;  *)
(* when the sender dies at most what the channel holds and the frame that  *)
(* failed are lost, over all interfaces together, because a closed channel *)
(* refuses what comes after.                                               *)
(***************************************************************************)
OutboundInOrder ==
  /\ \A i \in Interfaces :
       /\ \A k \in 1 .. Len(wire[i]) : wire[i][k] = <<i, k>>
       /\ sender # "dead" => Carries(Leaving(i), i, accepted[i])
  /\ Cardinality(Missing) <= Capacity + 1

Link == INSTANCE Links WITH
  came  <- arrived,
  given <- received,
  taken <- [i \in Interfaces |-> accepted[i]],
  sent  <- wire,
  cut   <- (sender = "dead")

(***************************************************************************)
(* The two channels inwards, the one outwards and all the tasks between    *)
(* come down to a link per interface and direction: a step of any of them  *)
(* gives or sends one frame, the next one, or is not seen from outside.    *)
(***************************************************************************)
EveryInterfaceIsALink == Link!LinkSpec

(* The forwarder has been woken into the slot of a worker whose reader is  *)
(* blocked in dl_rx.next(), with no frame to come out of it for.           *)
Stranded == \E i \in slot : reader[i] = "reading" /\ unread[i] = <<>>

(* Nothing that arrived on i is still on its way.                          *)
GotThrough(i) ==
  IF stage = "failed" THEN unread[i] = <<>> /\ held[i] = NoFrame
  ELSE Carries(received, i, arrived[i])

(***************************************************************************)
(* A frame that arrived is received in the end unless its reader dies, the *)
(* start fails, the receiver is stuck on a dead State task, or the         *)
(* forwarder is left in the slot of a reader to which no frame comes any   *)
(* more; and a frame that was taken for an interface is sent unless the    *)
(* sender dies.  Arrivals and sends are bounded, so that nothing is left   *)
(* behind is seen as everything having got through again and again.        *)
(***************************************************************************)
FramesGetThrough ==
  \/ <>[]Stranded
  \/ []<>(stuck \/ \A i \in Interfaces : reader[i] = "dead" \/ GotThrough(i))

AcceptedIsSent ==
  []<>(sender = "dead" \/ \A i \in Interfaces : Len(wire[i]) = accepted[i])
=============================================================================
