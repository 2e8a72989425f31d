----------------------------- MODULE Discovery -----------------------------
(***************************************************************************)
(* The receiver task of UserSpace with disco_handler, the State actor it   *)
(* keeps the neighbours in, and the command line that lists the tables.    *)
(*                                                                         *)
(* disco_handler reads the neighbour with a get, adds the interface to its *)
(* copy, and writes the copy back with an add: three steps with two awaits *)
(* between them, during which the State task serves others.                *)
(***************************************************************************)
EXTENDS NeighborData, Integers, Sequences

CONSTANTS
  FrameCapacity,   \* capacity of the channel to the receiver: 100
  Capacity,        \* capacity of the command channel: 32
  MapFaults,       \* may iterating over the kernel map fail?
  NoCommand, Pending, Err,
  NoHello,         \* disco_handler is not at work
  Noise            \* a frame that is not a hello the handler acts on

VARIABLES
  frames,   \* the channel from SendReceive to the receiver task
  phase,    \* the receiver: "recv", or in disco_handler at its "get" or "add"
  hello,    \* the hello in disco_handler's hands
  tables, queue, server, pc, cmd, reply   \* the State actor

(* The holders of a StateClient: the receiver task and Cli's server task.  *)
Receiver == "receiver"
Console == "console"

Actor == INSTANCE StateServer WITH
  Clients <- {Receiver, Console},
  NeighborIds <- NodeIds,
  Neighbors <- Neighbor,
  RoutePrefixes <- {}, Routes <- {},
  ForwardingPrefixes <- {}, NextHops <- {},
  AddressBytes <- 1, ByteBits <- 1, MaxEntries <- 1

ASSUME DiscoveryAssumption ==
  /\ {FrameCapacity, Capacity} \subseteq Nat \ {0}
  /\ MapFaults \in BOOLEAN
  /\ NoCommand \notin Actor!Command
  /\ {Pending, Err} \cap Actor!AnswerType = {} /\ Pending # Err
  /\ NoHello \notin Hello

actorVars == <<tables, queue, server, pc, cmd, reply>>
vars == <<frames, phase, hello, tables, queue, server, pc, cmd, reply>>

-----------------------------------------------------------------------------
Init ==
  /\ Actor!Init
  /\ frames = <<>>
  /\ phase = "recv"
  /\ hello = NoHello

(* Mutant of Arrive: a channel that takes one frame too many.              *)
ArriveWhenFull(frame) ==
  /\ Len(frames) <= FrameCapacity
  /\ frames' = Append(frames, frame)
  /\ UNCHANGED <<phase, hello, actorVars>>

(* SendReceive puts a frame into the channel to the receiver.              *)
Arrive(frame) ==
  /\ Len(frames) < FrameCapacity
  /\ frames' = Append(frames, frame)
  /\ UNCHANGED <<phase, hello, actorVars>>

(* The receiver takes a frame that it, or disco_handler, only passes over: *)
(* not Ethernet, ARP, another ethertype, too short, or an op other than 0. *)
SkipFrame ==
  /\ phase = "recv"
  /\ frames # <<>>
  /\ Head(frames) = Noise
  /\ frames' = Tail(frames)
  /\ UNCHANGED <<phase, hello, actorVars>>

(* The receiver takes a hello and disco_handler asks for the neighbour.    *)
TakeHello ==
  /\ phase = "recv"
  /\ frames # <<>>
  /\ Head(frames) # Noise
  /\ frames' = Tail(frames)
  /\ hello' = Head(frames)
  /\ phase' = "get"
  /\ Actor!Call(Receiver,
       [op |-> "Get", table |-> "NeighborTable", key |-> Head(frames).id])

(* Mutant of StoreNeighbor: the neighbour found is not looked at.          *)
StoreFreshNeighbor ==
  /\ phase' = "add"
  /\ Actor!Call(Receiver,
       [op |-> "Add", table |-> "NeighborTable", key |-> hello.id,
        value |-> Merge(None, hello)])
  /\ UNCHANGED <<frames, hello>>

(* The get came back with a neighbour or none: the interface is added to a *)
(* copy, which is sent to be stored.                                       *)
StoreNeighbor ==
  /\ phase' = "add"
  /\ Actor!Call(Receiver,
       [op |-> "Add", table |-> "NeighborTable", key |-> hello.id,
        value |-> Merge(reply[Receiver], hello)])
  /\ UNCHANGED <<frames, hello>>

(* The get failed: disco_handler returns the error and the hello is lost.  *)
GiveUp ==
  /\ phase' = "recv"
  /\ hello' = NoHello
  /\ UNCHANGED <<frames, actorVars>>

GetReturned ==
  /\ phase = "get"
  /\ pc[Receiver] = "idle"
  /\ IF reply[Receiver] = Err THEN GiveUp ELSE StoreNeighbor

(* The add is in the channel: disco_handler returns.                       *)
HelloDone ==
  /\ phase = "add"
  /\ pc[Receiver] = "idle"
  /\ phase' = "recv"
  /\ hello' = NoHello
  /\ UNCHANGED <<frames, actorVars>>

(* Somebody lists a table on the command line.                             *)
ListTable(table) ==
  /\ Actor!Call(Console, [op |-> "List", table |-> table])
  /\ UNCHANGED <<frames, phase, hello>>

(* The awaits of a call, and the State task.                               *)
SendCommand(c) == Actor!Send(c) /\ UNCHANGED <<frames, phase, hello>>

ReturnCall(c) == Actor!Return(c) /\ UNCHANGED <<frames, phase, hello>>

ServeCommand == Actor!Handle /\ UNCHANGED <<frames, phase, hello>>

(* Everything but the decision to list a table.                            *)
Work ==
  \/ \E frame \in Hello \cup {Noise} : Arrive(frame)
  \/ SkipFrame \/ TakeHello \/ GetReturned \/ HelloDone
  \/ \E c \in {Receiver, Console} : SendCommand(c) \/ ReturnCall(c)
  \/ ServeCommand

Next == Work \/ \E table \in Actor!TableType : ListTable(table)

Spec == Init /\ [][Next]_vars

(***************************************************************************)
(* The runtime polls every task that can make progress; the command        *)
(* channel serves waiting senders in turn.  Frames and listings are up to  *)
(* the environment.                                                        *)
(***************************************************************************)
Fairness ==
  /\ WF_vars(SkipFrame) /\ WF_vars(TakeHello)
  /\ WF_vars(GetReturned) /\ WF_vars(HelloDone)
  /\ \A c \in {Receiver, Console} : SF_vars(SendCommand(c)) /\ WF_vars(ReturnCall(c))
  /\ WF_vars(ServeCommand)

FairSpec == Spec /\ Fairness

-----------------------------------------------------------------------------
TypeOK ==
  /\ Actor!TypeOK
  /\ frames \in Seq(Hello \cup {Noise})
  /\ Len(frames) <= FrameCapacity
  /\ phase \in {"recv", "get", "add"}
  /\ hello \in Hello \cup {NoHello}
  /\ phase = "recv" <=> hello = NoHello

(* The adds for node id among the first n commands of a channel, and what  *)
(* a table of neighbours will be once these commands have been served: an  *)
(* entry is what the last add for it says.  Nobody deletes a neighbour.    *)
Adds(commands, id, n) ==
  {k \in 1 .. n : commands[k].cmd.op = "Add" /\ commands[k].cmd.key = id}

KnownAfter(table, commands, n) ==
  [id \in NodeIds |->
     LET adds == Adds(commands, id, n)
     IN  IF adds = {} THEN table[id]
         ELSE commands[CHOOSE k \in adds : \A j \in adds : j <= k].cmd.value]

Known == KnownAfter(tables["NeighborTable"], queue, Len(queue))

(* The hello in disco_handler's hands whose add is not in the channel yet. *)
InHand == IF phase = "get" \/ (phase = "add" /\ pc[Receiver] = "sending")
          THEN <<hello>> ELSE <<>>

Promise == INSTANCE Neighborhood WITH
  known <- Known,
  inbox <- InHand \o frames

(***************************************************************************)
(* No update is lost between disco_handler's get and its add: every hello  *)
(* the receiver is given is heard, exactly once and in order, an interface *)
(* known once stays known, and no listing disturbs that.                   *)
(***************************************************************************)
EveryHelloIsHeardOnce == Promise!NeighborhoodSpec

(***************************************************************************)
(* The table is never more than one hello behind what the receiver task    *)
(* believes it has stored: disco_handler returns as soon as its add is in  *)
(* the channel, but the get of the next hello waits behind that add.  So a *)
(* State task that dies takes one hello along at most, however many were   *)
(* handled and however long the channel is.                                *)
(***************************************************************************)
TableIsOneHelloBehind ==
  LET table == tables["NeighborTable"]
  IN  \/ Known = table
      \/ \E h \in Hello : Known = [table EXCEPT ![h.id] = Merge(@, h)]

(***************************************************************************)
(* disco_handler's error branches are out of reach: a State task that dies *)
(* drops only the oneshot it was using, the rest stay in a channel that is *)
(* never closed, so the receiver is never told and waits.                  *)
(***************************************************************************)
DeathIsNotReported == reply[Receiver] # Err

(***************************************************************************)
(* What a hello says is in the table in the end, unless the State task has *)
(* died, however often the command line lists the tables meanwhile.        *)
(***************************************************************************)
HelloReachesTheTable ==
  \A h \in Hello :
    hello = h ~> \/ server = "dead"
                 \/ /\ tables["NeighborTable"][h.id] # None
                    /\ tables["NeighborTable"][h.id][h.mac] = InterfaceOf(h)
=============================================================================
