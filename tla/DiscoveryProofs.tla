-------------------------- MODULE DiscoveryProofs --------------------------
(***************************************************************************)
(* Proofs about neighbour discovery, for any nodes, addresses and          *)
(* interfaces, any capacity of the channels and any hellos.                *)
(***************************************************************************)
EXTENDS Discovery, SequenceTheorems, TLAPS

(* The commands of disco_handler, and those of the command line.           *)
GetNeighbor == [op : {"Get"}, table : {"NeighborTable"}, key : NodeIds]
AddNeighbor == [op : {"Add"}, table : {"NeighborTable"}, key : NodeIds, value : Neighbor]
ListATable == [op : {"List"}, table : Actor!TableType]

(* Who has put what into the command channel.  Nobody cancels a call.      *)
Sent(entry) ==
  \/ entry.from = Receiver /\ entry.cmd \in GetNeighbor \cup AddNeighbor
  \/ entry.from = Console /\ entry.cmd \in ListATable /\ entry.open

QueueOK == queue \in Seq(Actor!Entry) /\ \A k \in 1 .. Len(queue) : Sent(queue[k])

(* Where disco_handler is tells what the Receiver's call is about.         *)
PhaseOK ==
  /\ frames \in Seq(Hello \cup {Noise}) /\ Len(frames) <= FrameCapacity
  /\ \/ phase = "recv" /\ hello = NoHello /\ pc[Receiver] = "idle"
     \/ /\ phase = "get" /\ hello \in Hello /\ cmd[Receiver] \in GetNeighbor
        /\ pc[Receiver] = "idle" => reply[Receiver] # Pending
     \/ phase = "add" /\ hello \in Hello /\ cmd[Receiver] \in AddNeighbor

(* What the Receiver is answered is a neighbour or nothing.                *)
ReplyOK ==
  /\ reply[Receiver] \in Neighbor \cup {None, Pending}
  /\ pc[Console] # "idle" => cmd[Console] \in ListATable

DiscoveryInv == Actor!TypeOK /\ QueueOK /\ PhaseOK /\ ReplyOK

-----------------------------------------------------------------------------
LEMMA Commands ==
  GetNeighbor \cup AddNeighbor \cup ListATable \subseteq Actor!Command
  BY DEF GetNeighbor, AddNeighbor, ListATable, Actor!Command, Actor!AddCommand,
         Actor!GetCommand, Actor!ListCommand, Actor!TableType, Actor!Keys, Actor!Values

LEMMA MergeType ==
  ASSUME NEW found \in Neighbor \cup {None}, NEW h \in Hello
  PROVE  Merge(found, h) \in Neighbor
<1>1. NewNeighbor \in Neighbor
  BY DEF NewNeighbor, Neighbor
<1>2. InterfaceOf(h) \in NeighborInterface
  BY DEF InterfaceOf, NeighborInterface, Hello
<1> QED  BY <1>1, <1>2 DEF Merge, AddInterface, Neighbor

(* The answers that there can be, and that they are no markers.            *)
LEMMA AnswerTypes ==
  /\ Neighbor \cup {None} \subseteq Actor!AnswerType
  /\ \A t \in Actor!TableType : Actor!Contents(t) \subseteq Actor!AnswerType
  /\ Pending \notin Actor!AnswerType /\ Err \notin Actor!AnswerType /\ Pending # Err
<1>1. "NeighborTable" \in Actor!TableType /\ Actor!Values["NeighborTable"] = Neighbor
  BY DEF Actor!TableType, Actor!Values
<1>2. \A t \in Actor!TableType :
        Actor!Values[t] \cup {None} \cup Actor!Contents(t) \subseteq Actor!AnswerType
  BY DEF Actor!AnswerType
<1> QED  BY <1>1, <1>2, DiscoveryAssumption

(* Serving what is in the channel: the tables stay tables, a query of the  *)
(* Receiver is answered with a neighbour or nothing, one of the Console    *)
(* with a table.                                                           *)
LEMMA ServeAdd ==
  ASSUME Actor!IsTables(tables), NEW c \in AddNeighbor
  PROVE  Actor!IsTables(Actor!Apply(tables, c))
<1>1. /\ c.op = "Add" /\ c.table = "NeighborTable" /\ c.key \in NodeIds /\ c.value \in Neighbor
      /\ "NeighborTable" \in Actor!TableType
      /\ tables = [t \in Actor!TableType |-> tables[t]]
      /\ tables["NeighborTable"] \in [NodeIds -> Neighbor \cup {None}]
  BY DEF AddNeighbor, Actor!IsTables, Actor!TableType, Actor!Contents, Actor!Keys, Actor!Values
<1>2. Actor!Apply(tables, c) =
        [tables EXCEPT !["NeighborTable"] = [tables["NeighborTable"] EXCEPT ![c.key] = c.value]]
  BY <1>1 DEF Actor!Apply, Actor!TableAdd, Actor!MapAdd
<1>3. [tables["NeighborTable"] EXCEPT ![c.key] = c.value] \in Actor!Contents("NeighborTable")
  BY <1>1 DEF Actor!Contents, Actor!Keys, Actor!Values
<1> QED  BY <1>1, <1>2, <1>3 DEF Actor!IsTables

LEMMA ServeGet ==
  ASSUME Actor!IsTables(tables), NEW c \in GetNeighbor
  PROVE  Actor!Answer(tables, c) \in Neighbor \cup {None}
<1>1. /\ c.op = "Get" /\ c.table = "NeighborTable" /\ c.key \in NodeIds
      /\ tables["NeighborTable"] \in [NodeIds -> Neighbor \cup {None}]
  BY DEF GetNeighbor, Actor!IsTables, Actor!TableType, Actor!Contents, Actor!Keys, Actor!Values
<1> QED  BY <1>1 DEF Actor!Answer, Actor!TableGet, Actor!MapGet

LEMMA ServeList ==
  ASSUME Actor!IsTables(tables), NEW c \in ListATable
  PROVE  Actor!Answer(tables, c) \in Actor!AnswerType
<1>1. c.op = "List" /\ c.table \in Actor!TableType
  BY DEF ListATable
<1>2. Actor!Answer(tables, c) \in Actor!Contents(c.table)
  BY <1>1 DEF Actor!Answer, Actor!TableList, Actor!IsTables
<1> QED  BY <1>1, <1>2, AnswerTypes

-----------------------------------------------------------------------------
LEMMA InitDiscoveryInv == Init => DiscoveryInv
<1> SUFFICES ASSUME Init PROVE DiscoveryInv
  OBVIOUS
<1>1. Actor!TypeOK
  BY DiscoveryAssumption
     DEF Init, Actor!Init, Actor!TypeOK, Actor!IsTables, Actor!EmptyTables, Actor!Contents
<1>2. QueueOK /\ PhaseOK /\ ReplyOK
  BY DiscoveryAssumption DEF Init, Actor!Init, QueueOK, PhaseOK, ReplyOK, Receiver, Console
<1> QED  BY <1>1, <1>2 DEF DiscoveryInv

(* A call that begins.                                                     *)
LEMMA CallType ==
  ASSUME DiscoveryInv, NEW c \in {Receiver, Console}, NEW command \in Actor!Command,
         Actor!Call(c, command)
  PROVE  /\ Actor!TypeOK' /\ QueueOK'
         /\ pc[c] = "idle" /\ pc'[c] = "sending" /\ cmd'[c] = command /\ reply'[c] = Pending
         /\ \A d \in {Receiver, Console} \ {c} :
              pc'[d] = pc[d] /\ cmd'[d] = cmd[d] /\ reply'[d] = reply[d]
         /\ server' = server
<1>1. Actor!TypeOK'
  BY DEF DiscoveryInv, Actor!TypeOK, Actor!Call
<1>2. QueueOK'
  BY DEF DiscoveryInv, QueueOK, Actor!Call
<1> QED  BY <1>1, <1>2 DEF DiscoveryInv, Actor!TypeOK, Actor!Call

(* A step that leaves the State actor alone.                               *)
LEMMA FramesDiscoveryInv ==
  ASSUME DiscoveryInv, UNCHANGED actorVars, PhaseOK'
  PROVE  DiscoveryInv'
<1>1. UNCHANGED <<tables, queue, server, pc, cmd, reply>>
  BY DEF actorVars
<1>2. Actor!TypeOK'
  BY <1>1 DEF DiscoveryInv, Actor!TypeOK, Actor!IsTables
<1>3. QueueOK' /\ ReplyOK'
  BY <1>1 DEF DiscoveryInv, QueueOK, ReplyOK
<1> QED  BY <1>2, <1>3 DEF DiscoveryInv

LEMMA ArriveDiscoveryInv ==
  ASSUME DiscoveryInv, NEW frame \in Hello \cup {Noise}, Arrive(frame)
  PROVE  DiscoveryInv'
<1>1. UNCHANGED actorVars /\ UNCHANGED <<phase, hello, pc, cmd, reply>>
  BY DEF Arrive, actorVars
<1>2. frames' \in Seq(Hello \cup {Noise}) /\ Len(frames') <= FrameCapacity
  <2>1. frames \in Seq(Hello \cup {Noise}) /\ Len(frames) \in Nat
    BY DEF DiscoveryInv, PhaseOK
  <2>2. Len(Append(frames, frame)) = Len(frames) + 1 /\ Append(frames, frame) \in Seq(Hello \cup {Noise})
    BY <2>1
  <2> QED  BY <2>1, <2>2, DiscoveryAssumption DEF Arrive
<1>3. PhaseOK'
  BY <1>1, <1>2 DEF DiscoveryInv, PhaseOK
<1> QED  BY <1>1, <1>3, FramesDiscoveryInv

(* Taking a frame out of the channel.                                      *)
LEMMA FrameTaken ==
  ASSUME PhaseOK, frames # <<>>, frames' = Tail(frames)
  PROVE  /\ Head(frames) \in Hello \cup {Noise}
         /\ frames' \in Seq(Hello \cup {Noise}) /\ Len(frames') <= FrameCapacity
<1>1. frames \in Seq(Hello \cup {Noise}) /\ Len(frames) \in Nat /\ Len(frames) <= FrameCapacity
  BY DEF PhaseOK
<1>2. /\ Head(frames) \in Hello \cup {Noise}
      /\ Tail(frames) \in Seq(Hello \cup {Noise}) /\ Len(Tail(frames)) = Len(frames) - 1
  BY <1>1
<1> QED  BY <1>1, <1>2, DiscoveryAssumption

LEMMA ReceiverDiscoveryInv ==
  ASSUME DiscoveryInv, SkipFrame \/ TakeHello \/ GetReturned \/ HelloDone
  PROVE  DiscoveryInv'
<1>1. CASE SkipFrame
  <2>1. UNCHANGED actorVars /\ UNCHANGED <<phase, hello, pc, cmd, reply>>
    BY <1>1 DEF SkipFrame, actorVars
  <2>2. PhaseOK'
    BY <1>1, <2>1, FrameTaken DEF SkipFrame, DiscoveryInv, PhaseOK
  <2> QED  BY <2>1, <2>2, FramesDiscoveryInv
<1>2. CASE TakeHello
  <2> DEFINE c == [op |-> "Get", table |-> "NeighborTable", key |-> Head(frames).id]
  <2>1. /\ Head(frames) \in Hello
        /\ frames' \in Seq(Hello \cup {Noise}) /\ Len(frames') <= FrameCapacity
    BY <1>2, FrameTaken DEF TakeHello, DiscoveryInv
  <2>2. c \in GetNeighbor
    BY <2>1 DEF GetNeighbor, Hello
  <2>3. phase' = "get" /\ hello' = Head(frames) /\ Actor!Call(Receiver, c) /\ c \in Actor!Command
    BY <1>2, <2>2, Commands DEF TakeHello
  <2> HIDE DEF c
  <2>4. /\ Actor!TypeOK' /\ QueueOK' /\ pc'[Receiver] = "sending" /\ cmd'[Receiver] = c
        /\ reply'[Receiver] = Pending
        /\ pc'[Console] = pc[Console] /\ cmd'[Console] = cmd[Console]
    BY <2>3, CallType DEF Receiver, Console
  <2>5. PhaseOK' /\ ReplyOK'
    BY <2>1, <2>2, <2>3, <2>4 DEF DiscoveryInv, PhaseOK, ReplyOK
  <2> QED  BY <2>4, <2>5 DEF DiscoveryInv
<1>3. CASE GetReturned
  <2>1. phase = "get" /\ hello \in Hello /\ reply[Receiver] # Pending /\ pc[Receiver] = "idle"
    BY <1>3 DEF GetReturned, DiscoveryInv, PhaseOK
  <2>2. reply[Receiver] \in Neighbor \cup {None}
    BY <2>1 DEF DiscoveryInv, ReplyOK
  <2>3. StoreNeighbor
    BY <1>3, <2>2, AnswerTypes DEF GetReturned
  <2> DEFINE c == [op |-> "Add", table |-> "NeighborTable", key |-> hello.id,
                   value |-> Merge(reply[Receiver], hello)]
  <2>4. c \in AddNeighbor
    BY <2>1, <2>2, MergeType DEF AddNeighbor, Hello
  <2>5. phase' = "add" /\ UNCHANGED <<frames, hello>> /\ Actor!Call(Receiver, c)
        /\ c \in Actor!Command
    BY <2>3, <2>4, Commands DEF StoreNeighbor
  <2> HIDE DEF c
  <2>6. /\ Actor!TypeOK' /\ QueueOK' /\ pc'[Receiver] = "sending" /\ cmd'[Receiver] = c
        /\ reply'[Receiver] = Pending
        /\ pc'[Console] = pc[Console] /\ cmd'[Console] = cmd[Console]
    BY <2>5, CallType DEF Receiver, Console
  <2>7. PhaseOK' /\ ReplyOK'
    BY <2>1, <2>4, <2>5, <2>6 DEF DiscoveryInv, PhaseOK, ReplyOK
  <2> QED  BY <2>6, <2>7 DEF DiscoveryInv
<1>4. CASE HelloDone
  <2>1. UNCHANGED actorVars /\ UNCHANGED <<frames, pc, cmd, reply>>
    BY <1>4 DEF HelloDone, actorVars
  <2>2. PhaseOK'
    BY <1>4, <2>1 DEF HelloDone, DiscoveryInv, PhaseOK
  <2> QED  BY <2>1, <2>2, FramesDiscoveryInv
<1> QED  BY <1>1, <1>2, <1>3, <1>4

LEMMA ListDiscoveryInv ==
  ASSUME DiscoveryInv, NEW table \in Actor!TableType, ListTable(table)
  PROVE  DiscoveryInv'
<1> DEFINE c == [op |-> "List", table |-> table]
<1>1. c \in ListATable
  BY DEF ListATable
<1>2. Actor!Call(Console, c) /\ UNCHANGED <<frames, phase, hello>> /\ c \in Actor!Command
  BY <1>1, Commands DEF ListTable
<1> HIDE DEF c
<1>3. /\ Actor!TypeOK' /\ QueueOK' /\ cmd'[Console] = c
      /\ pc'[Receiver] = pc[Receiver] /\ cmd'[Receiver] = cmd[Receiver]
      /\ reply'[Receiver] = reply[Receiver]
  BY <1>2, CallType DEF Receiver, Console
<1>4. PhaseOK' /\ ReplyOK'
  BY <1>1, <1>2, <1>3 DEF DiscoveryInv, PhaseOK, ReplyOK
<1> QED  BY <1>3, <1>4 DEF DiscoveryInv

-----------------------------------------------------------------------------
(* The awaits of a call.                                                   *)
LEMMA SendEntry ==
  ASSUME DiscoveryInv, NEW c \in {Receiver, Console}, Actor!Send(c)
  PROVE  LET entry == [from |-> c, cmd |-> cmd[c], open |-> Actor!IsQuery(cmd[c])]
         IN  /\ queue' = Append(queue, entry)
             /\ entry \in Actor!Entry /\ Sent(entry)
<1> DEFINE entry == [from |-> c, cmd |-> cmd[c], open |-> Actor!IsQuery(cmd[c])]
<1>1. queue' = Append(queue, entry)
  BY DEF Actor!Send, Actor!Enqueue
<1>2. pc[c] = "sending" /\ cmd[c] \in Actor!Command
  BY DEF Actor!Send, DiscoveryInv, Actor!TypeOK
<1>3. entry \in Actor!Entry
  BY <1>2 DEF Actor!Entry, Actor!IsQuery
<1>4. Sent(entry)
  <2>1. CASE c = Receiver
    BY <1>2, <2>1 DEF Sent, DiscoveryInv, PhaseOK
  <2>2. CASE c = Console
    <3>1. cmd[c] \in ListATable
      BY <1>2, <2>2 DEF DiscoveryInv, ReplyOK
    <3> QED  BY <2>2, <3>1 DEF Sent, ListATable, Actor!IsQuery
  <2> QED  BY <2>1, <2>2
<1> QED  BY <1>1, <1>3, <1>4

LEMMA SendDiscoveryInv ==
  ASSUME DiscoveryInv, NEW c \in {Receiver, Console}, SendCommand(c)
  PROVE  DiscoveryInv'
<1> DEFINE entry == [from |-> c, cmd |-> cmd[c], open |-> Actor!IsQuery(cmd[c])]
<1>1. /\ Actor!Send(c)
      /\ UNCHANGED <<frames, phase, hello, tables, server, cmd, reply>>
      /\ pc[c] = "sending" /\ Len(queue) < Capacity
      /\ pc' = [pc EXCEPT ![c] = IF Actor!IsQuery(cmd[c]) THEN "waiting" ELSE "idle"]
  BY DEF SendCommand, Actor!Send
<1>2. queue' = Append(queue, entry) /\ entry \in Actor!Entry /\ Sent(entry)
  BY <1>1, SendEntry
<1> HIDE DEF entry
<1>3. queue \in Seq(Actor!Entry) /\ Len(queue) \in Nat
  BY DEF DiscoveryInv, QueueOK
<1>4. /\ queue' \in Seq(Actor!Entry) /\ Len(queue') = Len(queue) + 1
      /\ queue'[Len(queue) + 1] = entry
      /\ \A k \in 1 .. Len(queue) : queue'[k] = queue[k]
  BY <1>2, <1>3
<1>5. QueueOK'
  BY <1>2, <1>3, <1>4 DEF DiscoveryInv, QueueOK
<1>6. Len(queue') <= Capacity
  BY <1>1, <1>3, <1>4, DiscoveryAssumption
<1>7. Actor!TypeOK'
  BY <1>1, <1>4, <1>6 DEF DiscoveryInv, Actor!TypeOK, Actor!IsTables
<1>8. ReplyOK'
  BY <1>1 DEF DiscoveryInv, Actor!TypeOK, ReplyOK
<1>9. PhaseOK'
  <2>1. cmd[Receiver] \in GetNeighbor => Actor!IsQuery(cmd[Receiver])
    BY DEF GetNeighbor, Actor!IsQuery
  <2>2. phase # "recv" \/ c = Console
    BY <1>1 DEF DiscoveryInv, PhaseOK
  <2>3. /\ phase = "get" => pc'[Receiver] = "waiting" \/ pc'[Receiver] = pc[Receiver]
        /\ phase = "recv" => pc'[Receiver] = pc[Receiver]
    BY <1>1, <2>1, <2>2 DEF DiscoveryInv, PhaseOK, Actor!TypeOK, Receiver, Console
  <2> QED  BY <1>1, <2>3 DEF DiscoveryInv, PhaseOK
<1> QED  BY <1>5, <1>7, <1>8, <1>9 DEF DiscoveryInv

LEMMA ReturnDiscoveryInv ==
  ASSUME DiscoveryInv, NEW c \in {Receiver, Console}, ReturnCall(c)
  PROVE  DiscoveryInv'
<1>1. /\ UNCHANGED <<frames, phase, hello, tables, queue, server, cmd, reply>>
      /\ pc[c] = "waiting" /\ reply[c] # Pending
      /\ pc' = [pc EXCEPT ![c] = "idle"]
  BY DEF ReturnCall, Actor!Return
<1>2. Actor!TypeOK' /\ QueueOK'
  BY <1>1 DEF DiscoveryInv, Actor!TypeOK, Actor!IsTables, QueueOK
<1>3. ReplyOK' /\ PhaseOK'
  BY <1>1 DEF DiscoveryInv, Actor!TypeOK, ReplyOK, PhaseOK
<1> QED  BY <1>2, <1>3 DEF DiscoveryInv

-----------------------------------------------------------------------------
(* The State task takes the command at the head of the channel.            *)
LEMMA HeadTaken ==
  ASSUME DiscoveryInv, Actor!Handle
  PROVE  /\ queue # <<>> /\ server = "up"
         /\ Head(queue) \in Actor!Entry /\ Sent(Head(queue)) /\ Head(queue) = queue[1]
         /\ queue' \in Seq(Actor!Entry) /\ Len(queue') = Len(queue) - 1
         /\ Len(queue) \in Nat /\ Len(queue) >= 1
         /\ \A k \in 1 .. Len(queue') : queue'[k] = queue[k + 1]
         /\ UNCHANGED <<pc, cmd>>
<1>1. queue # <<>> /\ queue' = Tail(queue) /\ server = "up" /\ UNCHANGED <<pc, cmd>>
  BY DEF Actor!Handle, Actor!HandleAdd, Actor!HandleDel, Actor!HandleGet,
         Actor!HandleList, Actor!PanicInList, Actor!Take
<1>2. queue \in Seq(Actor!Entry) /\ Len(queue) \in Nat /\ Len(queue) >= 1
  BY <1>1 DEF DiscoveryInv, QueueOK
<1>3. Head(queue) = queue[1] /\ queue[1] \in Actor!Entry /\ Sent(queue[1])
  BY <1>1, <1>2 DEF DiscoveryInv, QueueOK
<1>4. /\ queue' \in Seq(Actor!Entry) /\ Len(queue') = Len(queue) - 1
      /\ \A k \in 1 .. Len(queue') : queue'[k] = queue[k + 1]
  BY <1>1, <1>2
<1> QED  BY <1>1, <1>2, <1>3, <1>4

(* What one command does: an add of the Receiver changes the neighbours, a *)
(* get of the Receiver or a list of the Console is answered, and a list    *)
(* may be the end of the State task.                                       *)
LEMMA ServeEffect ==
  ASSUME DiscoveryInv, Actor!Handle
  PROVE  \/ /\ Head(queue).from = Receiver
            /\ Actor!IsTables(tables') /\ server' = server
            /\ \/ reply' = reply
               \/ \E answer \in Neighbor \cup {None} :
                    reply' = [reply EXCEPT ![Receiver] = answer]
         \/ /\ Head(queue).from = Console /\ Head(queue).open
            /\ tables' = tables
            /\ \/ /\ server' = server
                  /\ \E answer \in Actor!AnswerType :
                       reply' = [reply EXCEPT ![Console] = answer]
               \/ server' = "dead" /\ reply' = [reply EXCEPT ![Console] = Err]
<1> DEFINE e == Head(queue)
<1>1. Sent(e) /\ Actor!IsTables(tables)
  BY HeadTaken DEF DiscoveryInv, Actor!TypeOK
<1>2. CASE e.from = Receiver /\ e.cmd \in AddNeighbor
  <2>1. Actor!HandleAdd
    BY <1>2 DEF AddNeighbor, Actor!Handle, Actor!HandleDel, Actor!HandleGet,
                Actor!HandleList, Actor!PanicInList, Actor!Take
  <2>2. Actor!IsTables(Actor!Apply(tables, e.cmd))
    BY <1>1, <1>2, ServeAdd
  <2> QED  BY <1>2, <2>1, <2>2 DEF Actor!HandleAdd
<1>3. CASE e.from = Receiver /\ e.cmd \in GetNeighbor
  <2>1. Actor!HandleGet
    BY <1>3 DEF GetNeighbor, Actor!Handle, Actor!HandleAdd, Actor!HandleDel,
                Actor!HandleList, Actor!PanicInList, Actor!Take
  <2>2. Actor!Answer(tables, e.cmd) \in Neighbor \cup {None}
    BY <1>1, <1>3, ServeGet
  <2> QED  BY <1>1, <1>3, <2>1, <2>2 DEF Actor!HandleGet, Actor!Reply
<1>4. CASE e.from = Console /\ e.cmd \in ListATable /\ e.open
  <2>1. Actor!HandleList \/ Actor!PanicInList
    BY <1>4 DEF ListATable, Actor!Handle, Actor!HandleAdd, Actor!HandleDel,
                Actor!HandleGet, Actor!Take
  <2>2. Actor!Answer(tables, e.cmd) \in Actor!AnswerType
    BY <1>1, <1>4, ServeList
  <2>3. CASE Actor!HandleList
    BY <1>4, <2>2, <2>3 DEF Actor!HandleList, Actor!Reply
  <2>4. CASE Actor!PanicInList
    BY <1>4, <2>4 DEF Actor!PanicInList, Actor!Reply
  <2> QED  BY <2>1, <2>3, <2>4
<1> QED  BY <1>1, <1>2, <1>3, <1>4 DEF Sent

LEMMA ServeDiscoveryInv ==
  ASSUME DiscoveryInv, ServeCommand
  PROVE  DiscoveryInv'
<1>1. Actor!Handle /\ UNCHANGED <<frames, phase, hello>>
  BY DEF ServeCommand
<1>2. /\ queue' \in Seq(Actor!Entry) /\ Len(queue') = Len(queue) - 1
      /\ Len(queue) \in Nat /\ Len(queue) >= 1
      /\ \A k \in 1 .. Len(queue') : queue'[k] = queue[k + 1]
      /\ UNCHANGED <<pc, cmd>>
  BY <1>1, HeadTaken
<1>3. QueueOK' /\ Len(queue') <= Capacity
  <2>1. \A k \in 1 .. Len(queue) : Sent(queue[k])
    BY DEF DiscoveryInv, QueueOK
  <2>2. \A k \in 1 .. Len(queue') : Sent(queue'[k])
    <3> TAKE k \in 1 .. Len(queue')
    <3>1. k + 1 \in 1 .. Len(queue) /\ queue'[k] = queue[k + 1]
      BY <1>2
    <3> QED  BY <2>1, <3>1
  <2>3. Len(queue) <= Capacity
    BY DEF DiscoveryInv, Actor!TypeOK
  <2> QED  BY <1>2, <2>2, <2>3, DiscoveryAssumption DEF QueueOK
<1>4. /\ Actor!IsTables(tables') /\ server' \in {"up", "dead"}
      /\ reply' \in [{Receiver, Console} -> Actor!AnswerType \cup {Pending, Err}]
      /\ reply'[Receiver] \in Neighbor \cup {None} \/ reply'[Receiver] = reply[Receiver]
  <2>1. /\ reply \in [{Receiver, Console} -> Actor!AnswerType \cup {Pending, Err}]
        /\ Actor!IsTables(tables) /\ server \in {"up", "dead"}
    BY DEF DiscoveryInv, Actor!TypeOK
  <2>2. Neighbor \cup {None} \subseteq Actor!AnswerType /\ Receiver # Console
    BY AnswerTypes DEF Receiver, Console
  <2> QED  BY <1>1, <2>1, <2>2, ServeEffect
<1>5. Actor!TypeOK'
  <2>1. Actor!IsTables(tables)'
    BY <1>4 DEF Actor!IsTables
  <2> QED  BY <1>2, <1>3, <1>4, <2>1 DEF DiscoveryInv, Actor!TypeOK
<1>6. ReplyOK'
  BY <1>2, <1>4 DEF DiscoveryInv, ReplyOK
<1>7. PhaseOK'
  <2>1. reply[Receiver] # Pending => reply'[Receiver] # Pending
    BY <1>4, AnswerTypes
  <2> QED  BY <1>1, <1>2, <2>1 DEF DiscoveryInv, PhaseOK
<1> QED  BY <1>3, <1>5, <1>6, <1>7 DEF DiscoveryInv

LEMMA WorkDiscoveryInv ==
  ASSUME DiscoveryInv, Work
  PROVE  DiscoveryInv'
  BY ArriveDiscoveryInv, ReceiverDiscoveryInv, SendDiscoveryInv, ReturnDiscoveryInv,
     ServeDiscoveryInv DEF Work

LEMMA StutterDiscoveryInv ==
  ASSUME DiscoveryInv, UNCHANGED vars
  PROVE  DiscoveryInv'
<1>1. UNCHANGED actorVars /\ UNCHANGED <<frames, phase, hello, pc, cmd, reply>>
  BY DEF vars, actorVars
<1>2. PhaseOK'
  BY <1>1 DEF DiscoveryInv, PhaseOK
<1> QED  BY <1>1, <1>2, FramesDiscoveryInv

LEMMA StepDiscoveryInv == DiscoveryInv /\ [Next]_vars => DiscoveryInv'
  BY WorkDiscoveryInv, ListDiscoveryInv, StutterDiscoveryInv DEF Next

LEMMA DiscoveryInvImplies == DiscoveryInv => TypeOK /\ DeathIsNotReported
<1> SUFFICES ASSUME DiscoveryInv PROVE TypeOK /\ DeathIsNotReported
  OBVIOUS
<1>1. TypeOK
  BY DiscoveryAssumption DEF DiscoveryInv, PhaseOK, TypeOK
<1>2. Err \notin Neighbor \cup {None, Pending}
  BY AnswerTypes
<1> QED  BY <1>1, <1>2 DEF DiscoveryInv, ReplyOK, DeathIsNotReported

-----------------------------------------------------------------------------
(* Frames, hellos, commands and answers stay what they are declared to be, *)
(* and both channels within their capacity.                                *)
THEOREM DiscoveryTypeCorrect == Spec => []TypeOK
BY InitDiscoveryInv, StepDiscoveryInv, DiscoveryInvImplies, PTL DEF Spec

(* The receiver task never gets an error back from the State task, alive   *)
(* or dead: what it asks is never what kills the State task.               *)
THEOREM DeathStaysUnreported == Spec => []DeathIsNotReported
BY InitDiscoveryInv, StepDiscoveryInv, DiscoveryInvImplies, PTL DEF Spec
-----------------------------------------------------------------------------
(* What the channel will make of the table of neighbours.                  *)

(* A table is known after no commands, and an add is all that counts.      *)
LEMMA KnownWithoutAdds ==
  ASSUME NEW table, NEW commands, NEW n, NEW id \in NodeIds, Adds(commands, id, n) = {}
  PROVE  KnownAfter(table, commands, n)[id] = table[id]
  BY DEF KnownAfter

LEMMA KnownByAdd ==
  ASSUME NEW table, NEW commands, NEW n \in Nat, NEW id \in NodeIds,
         NEW k \in Adds(commands, id, n), \A j \in Adds(commands, id, n) : j = k
  PROVE  KnownAfter(table, commands, n)[id] = commands[k].cmd.value
<1>1. k <= k
  BY DEF Adds
<1>2. (CHOOSE m \in Adds(commands, id, n) : \A j \in Adds(commands, id, n) : j <= m) = k
  BY <1>1
<1> QED  BY <1>2 DEF KnownAfter

(* The Receiver never has more than an add and a later get in the channel. *)
(* It waits for the get, so it is answered with the table as the adds have *)
(* left it, and what it sends then is that neighbour with one interface    *)
(* more.                                                                   *)
HelloOrder ==
  /\ \A j, k \in 1 .. Len(queue) :
       j < k /\ queue[j].from = Receiver /\ queue[k].from = Receiver
         => queue[j].cmd \in AddNeighbor /\ queue[k].cmd \in GetNeighbor
  /\ \A k \in 1 .. Len(queue) : queue[k].from = Receiver /\ queue[k].cmd \in GetNeighbor
       => pc[Receiver] = "waiting" /\ reply[Receiver] = Pending /\ queue[k].cmd = cmd[Receiver]
  /\ phase = "get" => cmd[Receiver].key = hello.id
  /\ phase = "get" /\ reply[Receiver] # Pending =>
       /\ \A k \in 1 .. Len(queue) : queue[k].from # Receiver
       /\ reply[Receiver] = tables["NeighborTable"][hello.id]
  /\ phase = "add" /\ pc[Receiver] = "sending" =>
       /\ \A k \in 1 .. Len(queue) : queue[k].from # Receiver
       /\ cmd[Receiver].key = hello.id
       /\ cmd[Receiver].value = Merge(tables["NeighborTable"][hello.id], hello)
  /\ pc[Receiver] = "sending" => reply[Receiver] = Pending

HearingInv == DiscoveryInv /\ HelloOrder

LEMMA AddIsNoGet == AddNeighbor \cap GetNeighbor = {}
  BY DEF AddNeighbor, GetNeighbor

(* An add in the channel is the Receiver's, and there is at most one.      *)
LEMMA OneAdd ==
  ASSUME HearingInv
  PROVE  /\ \A id \in NodeIds, n \in 0 .. Len(queue) :
              Adds(queue, id, n) = {k \in 1 .. n : queue[k].cmd \in AddNeighbor
                                                 /\ queue[k].cmd.key = id}
         /\ \A j, k \in 1 .. Len(queue) :
              queue[j].cmd \in AddNeighbor /\ queue[k].cmd \in AddNeighbor => j = k
<1>1. \A k \in 1 .. Len(queue) :
        /\ queue[k].cmd.op = "Add" <=> queue[k].cmd \in AddNeighbor
        /\ queue[k].cmd \in AddNeighbor => queue[k].from = Receiver
  BY DEF HearingInv, DiscoveryInv, QueueOK, Sent, AddNeighbor, GetNeighbor, ListATable
<1>2. queue \in Seq(Actor!Entry) /\ Len(queue) \in Nat
  BY DEF HearingInv, DiscoveryInv, QueueOK
<1>3. \A id \in NodeIds, n \in 0 .. Len(queue) :
        Adds(queue, id, n) = {k \in 1 .. n : queue[k].cmd \in AddNeighbor
                                           /\ queue[k].cmd.key = id}
  <2> SUFFICES ASSUME NEW id \in NodeIds, NEW n \in 0 .. Len(queue)
               PROVE  \A k \in 1 .. n : queue[k].cmd.op = "Add" <=> queue[k].cmd \in AddNeighbor
    BY DEF Adds
  <2> TAKE k \in 1 .. n
  <2>1. k \in 1 .. Len(queue)
    BY <1>2
  <2> QED  BY <1>1, <2>1
<1>4. ASSUME NEW j \in 1 .. Len(queue), NEW k \in 1 .. Len(queue),
             queue[j].cmd \in AddNeighbor, queue[k].cmd \in AddNeighbor, j < k
      PROVE  FALSE
  <2>1. queue[k].cmd \in GetNeighbor
    BY <1>1, <1>4 DEF HearingInv, HelloOrder
  <2> QED  BY <1>4, <2>1, AddIsNoGet
<1>5. \A j, k \in 1 .. Len(queue) :
        queue[j].cmd \in AddNeighbor /\ queue[k].cmd \in AddNeighbor => j = k
  BY <1>2, <1>4
<1> QED  BY <1>3, <1>5

(* What the State task does to the neighbours with its next command.       *)
LEMMA ServeNeighbors ==
  ASSUME DiscoveryInv, Actor!Handle
  PROVE  LET c == Head(queue).cmd
         IN  /\ c \in AddNeighbor =>
                  tables'["NeighborTable"] = [tables["NeighborTable"] EXCEPT ![c.key] = c.value]
             /\ c \notin AddNeighbor => tables' = tables
             /\ c \in GetNeighbor /\ Head(queue).from = Receiver =>
                  reply'[Receiver] \in {reply[Receiver], tables["NeighborTable"][c.key]}
             /\ c \notin GetNeighbor \/ Head(queue).from # Receiver =>
                  reply'[Receiver] = reply[Receiver]
<1> DEFINE e == Head(queue)
<1>1. Sent(e) /\ Actor!IsTables(tables) /\ Receiver # Console
      /\ reply \in [{Receiver, Console} -> Actor!AnswerType \cup {Pending, Err}]
  BY HeadTaken DEF DiscoveryInv, Actor!TypeOK, Receiver, Console
<1>2. CASE e.from = Receiver /\ e.cmd \in AddNeighbor
  <2>1. Actor!HandleAdd /\ e.cmd \notin GetNeighbor
    BY <1>2 DEF AddNeighbor, GetNeighbor, Actor!Handle, Actor!HandleDel, Actor!HandleGet,
                Actor!HandleList, Actor!PanicInList, Actor!Take
  <2>2. tables'["NeighborTable"] = [tables["NeighborTable"] EXCEPT ![e.cmd.key] = e.cmd.value]
    <3>1. /\ tables' = Actor!Apply(tables, e.cmd) /\ e.cmd.op = "Add"
          /\ e.cmd.table = "NeighborTable" /\ "NeighborTable" \in Actor!TableType
          /\ tables = [t \in Actor!TableType |-> tables[t]]
      BY <1>1, <1>2, <2>1 DEF Actor!HandleAdd, AddNeighbor, Actor!TableType, Actor!IsTables
    <3> HIDE DEF e
    <3> QED  BY <3>1 DEF Actor!Apply, Actor!TableAdd, Actor!MapAdd
  <2> QED  BY <1>2, <2>1, <2>2 DEF Actor!HandleAdd
<1>3. CASE e.from = Receiver /\ e.cmd \in GetNeighbor
  <2>1. Actor!HandleGet /\ e.cmd \notin AddNeighbor
    BY <1>3 DEF AddNeighbor, GetNeighbor, Actor!Handle, Actor!HandleAdd, Actor!HandleDel,
                Actor!HandleList, Actor!PanicInList, Actor!Take
  <2>2. Actor!Answer(tables, e.cmd) = tables["NeighborTable"][e.cmd.key]
    BY <1>3 DEF GetNeighbor, Actor!Answer, Actor!TableGet, Actor!MapGet
  <2> QED  BY <1>1, <1>3, <2>1, <2>2 DEF Actor!HandleGet, Actor!Reply
<1>4. CASE e.from = Console /\ e.cmd \in ListATable /\ e.open
  <2>1. e.cmd \notin AddNeighbor
    BY <1>4 DEF ListATable, AddNeighbor
  <2>2. tables' = tables /\ reply'[Receiver] = reply[Receiver]
    BY <1>1, <1>4, ServeEffect
  <2> QED  BY <1>1, <1>4, <2>1, <2>2
<1> QED  BY <1>1, <1>2, <1>3, <1>4 DEF Sent

(* Serving a command changes the table and shortens the channel, and comes *)
(* to the same as leaving it in the channel.                               *)
LEMMA ServingIsKnown ==
  ASSUME HearingInv, Actor!Handle, NEW n \in 1 .. Len(queue)
  PROVE  KnownAfter(tables'["NeighborTable"], queue', n - 1)
           = KnownAfter(tables["NeighborTable"], queue, n)
<1> DEFINE table == tables["NeighborTable"]
           after == tables'["NeighborTable"]
           c == queue[1].cmd
<1>1. /\ Len(queue') = Len(queue) - 1 /\ Len(queue) \in Nat /\ n - 1 \in Nat /\ n \in Nat
      /\ \A k \in 1 .. (n - 1) : k + 1 \in 1 .. n /\ queue'[k] = queue[k + 1]
      /\ 1 \in 1 .. Len(queue) /\ 1 \in 1 .. n /\ n \in 0 .. Len(queue)
      /\ Head(queue) = queue[1]
  BY HeadTaken DEF HearingInv
<1>2. /\ table \in [NodeIds -> Neighbor \cup {None}]
      /\ c \in AddNeighbor => after = [table EXCEPT ![c.key] = c.value]
      /\ c \notin AddNeighbor => after = table
  BY <1>1, ServeNeighbors
     DEF HearingInv, DiscoveryInv, Actor!TypeOK, Actor!IsTables, Actor!TableType,
         Actor!Contents, Actor!Keys, Actor!Values
<1> HIDE DEF table, after
<1>3. ASSUME NEW id \in NodeIds
      PROVE  KnownAfter(after, queue', n - 1)[id] = KnownAfter(table, queue, n)[id]
  <2>1. /\ Adds(queue, id, n) = {k \in 1 .. n : queue[k].cmd \in AddNeighbor
                                             /\ queue[k].cmd.key = id}
        /\ \A j, k \in Adds(queue, id, n) : j = k
    <3>1. \A k \in 1 .. n : k \in 1 .. Len(queue)
      BY <1>1
    <3> QED  BY <1>1, <3>1, OneAdd
  <2>2. Adds(queue', id, n - 1) = {k \in 1 .. (n - 1) : k + 1 \in Adds(queue, id, n)}
    BY <1>1 DEF Adds
  <2>3. CASE Adds(queue, id, n) = {}
    <3>1. Adds(queue', id, n - 1) = {}
      BY <2>2, <2>3
    <3>2. after[id] = table[id]
      <4>1. ~(c \in AddNeighbor /\ c.key = id)
        BY <1>1, <2>1, <2>3
      <4> QED  BY <1>2, <4>1 DEF AddNeighbor
    <3> QED  BY <2>3, <3>1, <3>2, KnownWithoutAdds
  <2>4. CASE 1 \in Adds(queue, id, n)
    <3>1. Adds(queue', id, n - 1) = {}
      <4> SUFFICES ASSUME NEW k \in 1 .. (n - 1), k + 1 \in Adds(queue, id, n) PROVE FALSE
        BY <2>2
      <4>1. k + 1 = 1
        BY <2>1, <2>4
      <4> QED  BY <1>1, <4>1
    <3>2. c \in AddNeighbor /\ c.key = id /\ after[id] = c.value
      BY <1>2, <2>1, <2>4
    <3>3. KnownAfter(table, queue, n)[id] = c.value
      BY <1>1, <2>1, <2>4, KnownByAdd
    <3> QED  BY <3>1, <3>2, <3>3, KnownWithoutAdds
  <2>5. ASSUME NEW k \in Adds(queue, id, n), k # 1
        PROVE  KnownAfter(after, queue', n - 1)[id] = KnownAfter(table, queue, n)[id]
    <3>1. k - 1 \in 1 .. (n - 1) /\ (k - 1) + 1 = k
      BY <1>1, <2>1, <2>5
    <3>2. k - 1 \in Adds(queue', id, n - 1) /\ queue'[k - 1] = queue[k]
      BY <1>1, <2>2, <3>1
    <3>3. \A j \in Adds(queue', id, n - 1) : j = k - 1
      <4> TAKE j \in Adds(queue', id, n - 1)
      <4>1. j \in Nat /\ j + 1 = k
        BY <2>1, <2>2
      <4> QED  BY <4>1
    <3>4. KnownAfter(after, queue', n - 1)[id] = queue'[k - 1].cmd.value
      BY <1>1, <3>2, <3>3, KnownByAdd
    <3>5. KnownAfter(table, queue, n)[id] = queue[k].cmd.value
      BY <1>1, <2>1, KnownByAdd
    <3> QED  BY <3>2, <3>4, <3>5
  <2> QED  BY <2>3, <2>4, <2>5
<1>4. KnownAfter(after, queue', n - 1) = KnownAfter(table, queue, n)
  BY <1>3 DEF KnownAfter
<1> QED  BY <1>4 DEF table, after

(* Putting a command into the channel leaves what is known after the ones  *)
(* before it.                                                              *)
LEMMA SendingIsKnown ==
  ASSUME NEW table, NEW commands, NEW longer, NEW n \in Nat,
         \A k \in 1 .. n : longer[k] = commands[k],
         \A id \in NodeIds : \A j, k \in Adds(commands, id, n) : j = k
  PROVE  KnownAfter(table, longer, n) = KnownAfter(table, commands, n)
<1>1. \A id \in NodeIds : Adds(longer, id, n) = Adds(commands, id, n)
  <2> TAKE id \in NodeIds
  <2>1. \A k \in 1 .. n : (longer[k].cmd.op = "Add" /\ longer[k].cmd.key = id)
                         <=> (commands[k].cmd.op = "Add" /\ commands[k].cmd.key = id)
    OBVIOUS
  <2> QED  BY <2>1 DEF Adds
<1>2. ASSUME NEW id \in NodeIds
      PROVE  KnownAfter(table, longer, n)[id] = KnownAfter(table, commands, n)[id]
  <2>1. CASE Adds(commands, id, n) = {}
    BY <1>1, <2>1, KnownWithoutAdds
  <2>2. ASSUME NEW k \in Adds(commands, id, n)
        PROVE  KnownAfter(table, longer, n)[id] = KnownAfter(table, commands, n)[id]
    <3>1. longer[k] = commands[k]
      BY DEF Adds
    <3> QED  BY <1>1, <3>1, KnownByAdd
  <2> QED  BY <2>1, <2>2
<1> QED  BY <1>2 DEF KnownAfter

-----------------------------------------------------------------------------
(* Every step preserves HelloOrder.                                        *)

LEMMA InitHearing == Init => HearingInv
<1> SUFFICES ASSUME Init PROVE HelloOrder
  BY InitDiscoveryInv DEF HearingInv
<1> QED  BY DEF Init, Actor!Init, HelloOrder

(* A step in which nothing but the frames and the Console's call changes.  *)
LEMMA SameHelloOrder ==
  ASSUME HelloOrder, UNCHANGED <<phase, hello, tables, queue>>,
         pc'[Receiver] = pc[Receiver], cmd'[Receiver] = cmd[Receiver],
         reply'[Receiver] = reply[Receiver]
  PROVE  HelloOrder'
  BY DEF HelloOrder

LEMMA ReceiverHelloOrder ==
  ASSUME HearingInv, TakeHello \/ GetReturned \/ HelloDone
  PROVE  HelloOrder'
<1>1. CASE TakeHello
  <2> DEFINE c == [op |-> "Get", table |-> "NeighborTable", key |-> Head(frames).id]
  <2>1. /\ phase = "recv" /\ phase' = "get" /\ hello' = Head(frames)
        /\ Actor!Call(Receiver, c)
    BY <1>1 DEF TakeHello
  <2>2. /\ pc[Receiver] = "idle" /\ pc'[Receiver] = "sending" /\ cmd'[Receiver] = c
        /\ reply'[Receiver] = Pending /\ UNCHANGED <<tables, queue>>
    BY <2>1 DEF Actor!Call, HearingInv, DiscoveryInv, Actor!TypeOK
  <2> QED  BY <2>1, <2>2 DEF HearingInv, HelloOrder
<1>2. CASE GetReturned
  <2> DEFINE c == [op |-> "Add", table |-> "NeighborTable", key |-> hello.id,
                   value |-> Merge(reply[Receiver], hello)]
  <2>1. /\ phase = "get" /\ pc[Receiver] = "idle"
        /\ reply[Receiver] # Pending /\ reply[Receiver] # Err
    BY <1>2, AnswerTypes DEF GetReturned, HearingInv, DiscoveryInv, PhaseOK, ReplyOK
  <2>2. phase' = "add" /\ UNCHANGED hello /\ Actor!Call(Receiver, c)
    BY <1>2, <2>1 DEF GetReturned, StoreNeighbor
  <2>3. /\ \A k \in 1 .. Len(queue) : queue[k].from # Receiver
        /\ reply[Receiver] = tables["NeighborTable"][hello.id]
    BY <2>1 DEF HearingInv, HelloOrder
  <2>4. /\ pc'[Receiver] = "sending" /\ cmd'[Receiver] = c
        /\ reply'[Receiver] = Pending /\ UNCHANGED <<tables, queue>>
    BY <2>2 DEF Actor!Call, HearingInv, DiscoveryInv, Actor!TypeOK
  <2>5. c.key = hello.id /\ c.value = Merge(tables["NeighborTable"][hello.id], hello)
    BY <2>3
  <2> HIDE DEF c
  <2> QED  BY <2>2, <2>3, <2>4, <2>5 DEF HelloOrder
<1>3. CASE HelloDone
  BY <1>3 DEF HelloDone, actorVars, HearingInv, HelloOrder
<1> QED  BY <1>1, <1>2, <1>3

(* A command goes to the end of the channel.                               *)
LEMMA EntrySent ==
  ASSUME DiscoveryInv, NEW c \in {Receiver, Console}, SendCommand(c)
  PROVE  /\ Len(queue') = Len(queue) + 1 /\ Len(queue) \in Nat
         /\ queue'[Len(queue) + 1].from = c /\ queue'[Len(queue) + 1].cmd = cmd[c]
         /\ \A k \in 1 .. Len(queue) : queue'[k] = queue[k]
         /\ UNCHANGED <<frames, phase, hello, tables, cmd, reply>>
         /\ pc[c] = "sending"
         /\ pc'[c] = IF Actor!IsQuery(cmd[c]) THEN "waiting" ELSE "idle"
         /\ \A d \in {Receiver, Console} \ {c} : pc'[d] = pc[d]
<1> DEFINE entry == [from |-> c, cmd |-> cmd[c], open |-> Actor!IsQuery(cmd[c])]
<1>1. /\ Actor!Send(c) /\ UNCHANGED <<frames, phase, hello, tables, cmd, reply>>
      /\ pc[c] = "sending"
      /\ pc' = [pc EXCEPT ![c] = IF Actor!IsQuery(cmd[c]) THEN "waiting" ELSE "idle"]
  BY DEF SendCommand, Actor!Send
<1>2. queue' = Append(queue, entry) /\ entry \in Actor!Entry
  BY <1>1, SendEntry
<1>3. entry.from = c /\ entry.cmd = cmd[c]
  OBVIOUS
<1> HIDE DEF entry
<1>4. queue \in Seq(Actor!Entry) /\ Len(queue) \in Nat
  BY DEF DiscoveryInv, QueueOK
<1>5. /\ Len(queue') = Len(queue) + 1 /\ queue'[Len(queue) + 1] = entry
      /\ \A k \in 1 .. Len(queue) : queue'[k] = queue[k]
  BY <1>2, <1>4
<1> QED  BY <1>1, <1>3, <1>4, <1>5 DEF DiscoveryInv, Actor!TypeOK

LEMMA SendHelloOrder ==
  ASSUME HearingInv, NEW c \in {Receiver, Console}, SendCommand(c)
  PROVE  HelloOrder'
<1> DEFINE l == Len(queue)
<1>1. /\ Len(queue') = l + 1 /\ l \in Nat
      /\ queue'[l + 1].from = c /\ queue'[l + 1].cmd = cmd[c]
      /\ \A k \in 1 .. l : queue'[k] = queue[k]
      /\ UNCHANGED <<phase, hello, tables, cmd, reply>>
      /\ pc[c] = "sending"
      /\ pc'[c] = IF Actor!IsQuery(cmd[c]) THEN "waiting" ELSE "idle"
      /\ \A d \in {Receiver, Console} \ {c} : pc'[d] = pc[d]
  BY EntrySent DEF HearingInv
<1> HIDE DEF l
<1>2. \A k \in 1 .. (l + 1) : k \in 1 .. l \/ k = l + 1
  BY <1>1
<1>3. CASE c = Console
  <2>1. queue'[l + 1].from # Receiver /\ pc'[Receiver] = pc[Receiver]
    BY <1>1, <1>3 DEF Receiver, Console
  <2>2. \A k \in 1 .. (l + 1) : queue'[k].from = Receiver => k \in 1 .. l /\ queue'[k] = queue[k]
    BY <1>1, <1>2, <2>1
  <2> QED  BY <1>1, <2>1, <2>2 DEF HearingInv, HelloOrder, l
<1>4. CASE c = Receiver
  <2>1. \A k \in 1 .. l : queue[k].from = Receiver => queue[k].cmd \in AddNeighbor
    <3> SUFFICES ASSUME NEW k \in 1 .. l, queue[k].from = Receiver
                 PROVE  queue[k].cmd \in AddNeighbor
      OBVIOUS
    <3>1. queue[k].cmd \in GetNeighbor \cup AddNeighbor
      BY DEF HearingInv, DiscoveryInv, QueueOK, Sent, l, Receiver, Console
    <3>2. queue[k].cmd \notin GetNeighbor
      BY <1>1, <1>4 DEF HearingInv, HelloOrder, l
    <3> QED  BY <3>1, <3>2
  <2>2. \A j, k \in 1 .. l : queue[j].from = Receiver /\ queue[k].from = Receiver => ~(j < k)
    BY <2>1, AddIsNoGet DEF HearingInv, HelloOrder, l
  <2>3. CASE phase = "get"
    <3>1. cmd[Receiver] \in GetNeighbor /\ Actor!IsQuery(cmd[Receiver])
      BY <2>3 DEF HearingInv, DiscoveryInv, PhaseOK, GetNeighbor, Actor!IsQuery
    <3>2. pc'[Receiver] = "waiting"
      BY <1>1, <1>4, <3>1
    <3>3. reply[Receiver] = Pending \/ \A k \in 1 .. l : queue[k].from # Receiver
      BY <2>3 DEF HearingInv, HelloOrder, l
    <3>4. reply[Receiver] = Pending
      BY <1>1, <1>4, <2>3 DEF HearingInv, HelloOrder
    <3>5. \A j, k \in 1 .. (l + 1) :
            j < k /\ queue'[j].from = Receiver /\ queue'[k].from = Receiver
              => queue'[j].cmd \in AddNeighbor /\ queue'[k].cmd \in GetNeighbor
      <4> SUFFICES ASSUME NEW j \in 1 .. (l + 1), NEW k \in 1 .. (l + 1), j < k,
                          queue'[j].from = Receiver, queue'[k].from = Receiver
                   PROVE  queue'[j].cmd \in AddNeighbor /\ queue'[k].cmd \in GetNeighbor
        OBVIOUS
      <4>1. j \in 1 .. l
        BY <1>1, <1>2
      <4>2. k = l + 1
        BY <1>1, <1>2, <2>2, <4>1
      <4> QED  BY <1>1, <1>4, <2>1, <3>1, <4>1, <4>2
    <3>6. \A k \in 1 .. (l + 1) : queue'[k].from = Receiver /\ queue'[k].cmd \in GetNeighbor
            => queue'[k].cmd = cmd[Receiver]
      BY <1>1, <1>2, <1>4, <2>1, AddIsNoGet
    <3> QED  BY <1>1, <2>3, <3>2, <3>4, <3>5, <3>6 DEF HearingInv, HelloOrder
  <2>4. CASE phase = "add"
    <3>1. cmd[Receiver] \in AddNeighbor /\ ~Actor!IsQuery(cmd[Receiver])
      BY <1>1, <1>4, <2>4 DEF HearingInv, DiscoveryInv, PhaseOK, AddNeighbor, Actor!IsQuery
    <3>2. pc'[Receiver] = "idle"
      BY <1>1, <1>4, <3>1
    <3>3. \A k \in 1 .. l : queue[k].from # Receiver
      BY <1>1, <1>4, <2>4 DEF HearingInv, HelloOrder, l
    <3>4. \A k \in 1 .. (l + 1) : queue'[k].from = Receiver =>
            k = l + 1 /\ queue'[k].cmd \in AddNeighbor
      BY <1>1, <1>2, <1>4, <3>1, <3>3
    <3>5. \A j, k \in 1 .. (l + 1) :
            ~(j < k /\ queue'[j].from = Receiver /\ queue'[k].from = Receiver)
      <4> SUFFICES ASSUME NEW j \in 1 .. (l + 1), NEW k \in 1 .. (l + 1), j < k,
                          queue'[j].from = Receiver, queue'[k].from = Receiver
                   PROVE  FALSE
        OBVIOUS
      <4>1. j = l + 1 /\ k = l + 1
        BY <3>4
      <4> QED  BY <1>1, <4>1
    <3> QED  BY <1>1, <2>4, <3>2, <3>4, <3>5, AddIsNoGet DEF HelloOrder
  <2> QED  BY <1>1, <1>4, <2>3, <2>4 DEF HearingInv, DiscoveryInv, PhaseOK
<1> QED  BY <1>3, <1>4

(* The oneshot of a call delivered: the Receiver's get is out of the        *)
(* channel.                                                                *)
LEMMA ReturnHelloOrder ==
  ASSUME HearingInv, NEW c \in {Receiver, Console}, ReturnCall(c)
  PROVE  HelloOrder'
<1>1. /\ UNCHANGED <<phase, hello, tables, queue, cmd, reply>>
      /\ pc[c] = "waiting" /\ reply[c] # Pending /\ pc' = [pc EXCEPT ![c] = "idle"]
  BY DEF ReturnCall, Actor!Return
<1>2. pc'[c] = "idle" /\ \A d \in {Receiver, Console} \ {c} : pc'[d] = pc[d]
  BY <1>1 DEF HearingInv, DiscoveryInv, Actor!TypeOK
<1>3. CASE c = Console
  <2>1. pc'[Receiver] = pc[Receiver]
    BY <1>2, <1>3 DEF Receiver, Console
  <2> QED  BY <1>1, <2>1, SameHelloOrder DEF HearingInv
<1>4. CASE c = Receiver
  BY <1>1, <1>2, <1>4 DEF HearingInv, HelloOrder
<1> QED  BY <1>3, <1>4

(* The State task serves a command.                                        *)
LEMMA ServeHelloOrder ==
  ASSUME HearingInv, ServeCommand
  PROVE  HelloOrder'
<1> DEFINE l == Len(queue)
           e == Head(queue)
           table == tables["NeighborTable"]
           after == tables'["NeighborTable"]
<1>1. /\ Actor!Handle /\ UNCHANGED <<phase, hello, pc, cmd>>
      /\ Sent(e) /\ e = queue[1] /\ l \in Nat /\ 1 \in 1 .. l
      /\ Len(queue') = l - 1
      /\ \A k \in 1 .. Len(queue') : /\ k + 1 \in 1 .. l /\ 1 < k + 1
                                     /\ queue'[k] = queue[k + 1]
  BY HeadTaken DEF ServeCommand, HearingInv
<1>2. /\ e.cmd \notin AddNeighbor => after = table
      /\ e.cmd \in GetNeighbor /\ e.from = Receiver =>
            reply'[Receiver] \in {reply[Receiver], table[e.cmd.key]}
      /\ e.cmd \notin GetNeighbor \/ e.from # Receiver => reply'[Receiver] = reply[Receiver]
  BY <1>1, ServeNeighbors DEF HearingInv
<1>3. /\ e.from # Receiver => e.cmd \notin AddNeighbor
      /\ e.cmd \in AddNeighbor => e.cmd \notin GetNeighbor
  BY <1>1, AddIsNoGet DEF Sent, ListATable, AddNeighbor
<1>4. \A k \in 1 .. Len(queue') : queue'[k].from = Receiver /\ e.from = Receiver =>
        e.cmd \in AddNeighbor /\ queue'[k].cmd \in GetNeighbor
  BY <1>1 DEF HearingInv, HelloOrder
<1> HIDE DEF l, e, table, after
<1>5. \A j, k \in 1 .. Len(queue') :
        j < k /\ queue'[j].from = Receiver /\ queue'[k].from = Receiver
          => queue'[j].cmd \in AddNeighbor /\ queue'[k].cmd \in GetNeighbor
  <2> SUFFICES ASSUME NEW j \in 1 .. Len(queue'), NEW k \in 1 .. Len(queue'), j < k,
                      queue'[j].from = Receiver, queue'[k].from = Receiver
               PROVE  queue'[j].cmd \in AddNeighbor /\ queue'[k].cmd \in GetNeighbor
    OBVIOUS
  <2>1. j + 1 \in 1 .. l /\ k + 1 \in 1 .. l /\ j + 1 < k + 1
    BY <1>1
  <2> QED  BY <1>1, <2>1 DEF HearingInv, HelloOrder, l
<1>6. \A k \in 1 .. Len(queue') : queue'[k].from = Receiver /\ queue'[k].cmd \in GetNeighbor
        => /\ pc'[Receiver] = "waiting" /\ reply'[Receiver] = Pending
           /\ queue'[k].cmd = cmd'[Receiver]
  <2> TAKE k \in 1 .. Len(queue')
  <2> HAVE queue'[k].from = Receiver /\ queue'[k].cmd \in GetNeighbor
  <2>1. /\ pc[Receiver] = "waiting" /\ reply[Receiver] = Pending
        /\ queue'[k].cmd = cmd[Receiver]
    BY <1>1 DEF HearingInv, HelloOrder, l
  <2>2. reply'[Receiver] = reply[Receiver]
    BY <1>2, <1>3, <1>4
  <2> QED  BY <1>1, <2>1, <2>2
<1>7. ASSUME \A k \in 1 .. l : queue[k].from # Receiver
      PROVE  /\ \A k \in 1 .. Len(queue') : queue'[k].from # Receiver
             /\ after = table /\ reply'[Receiver] = reply[Receiver]
  BY <1>1, <1>2, <1>3, <1>7
<1>8. ASSUME phase' = "get", reply'[Receiver] # Pending
      PROVE  /\ \A k \in 1 .. Len(queue') : queue'[k].from # Receiver
             /\ reply'[Receiver] = after[hello.id]
  <2>1. CASE reply[Receiver] # Pending
    <3>1. /\ \A k \in 1 .. l : queue[k].from # Receiver
          /\ reply[Receiver] = table[hello.id]
      BY <1>1, <1>8, <2>1 DEF HearingInv, HelloOrder, l, table
    <3> QED  BY <1>7, <3>1
  <2>2. CASE reply[Receiver] = Pending
    <3>1. e.cmd \in GetNeighbor /\ e.from = Receiver
      BY <1>2, <1>8, <2>2
    <3>2. e.cmd = cmd[Receiver] /\ cmd[Receiver].key = hello.id
      BY <1>1, <1>8, <3>1 DEF HearingInv, HelloOrder, l
    <3>3. reply'[Receiver] = table[hello.id] /\ after = table
      BY <1>2, <1>3, <1>8, <2>2, <3>1, <3>2
    <3> QED  BY <1>3, <1>4, <3>1, <3>3
  <2> QED  BY <2>1, <2>2
<1>9. ASSUME phase' = "add", pc'[Receiver] = "sending"
      PROVE  /\ \A k \in 1 .. Len(queue') : queue'[k].from # Receiver
             /\ cmd'[Receiver].key = hello'.id
             /\ cmd'[Receiver].value = Merge(after[hello'.id], hello')
  <2>1. /\ \A k \in 1 .. l : queue[k].from # Receiver
        /\ cmd[Receiver].key = hello.id
        /\ cmd[Receiver].value = Merge(table[hello.id], hello)
    BY <1>1, <1>9 DEF HearingInv, HelloOrder, l, table
  <2> QED  BY <1>1, <1>7, <2>1
<1>10. pc'[Receiver] = "sending" => reply'[Receiver] = Pending
  <2> HAVE pc'[Receiver] = "sending"
  <2>1. pc[Receiver] = "sending" /\ reply[Receiver] = Pending
    BY <1>1 DEF HearingInv, HelloOrder
  <2>2. ~(e.cmd \in GetNeighbor /\ e.from = Receiver)
    BY <1>1, <2>1 DEF HearingInv, HelloOrder, l
  <2> QED  BY <1>2, <2>1, <2>2
<1>11. phase' = "get" => cmd'[Receiver].key = hello'.id
  BY <1>1 DEF HearingInv, HelloOrder
<1>12. phase' = "get" /\ reply'[Receiver] # Pending => reply'[Receiver] = after[hello'.id]
  BY <1>1, <1>8
<1> QED  BY <1>5, <1>6, <1>8, <1>9, <1>10, <1>11, <1>12 DEF HelloOrder, after

(* The steps that leave the Receiver's call alone.                         *)
LEMMA OtherHelloOrder ==
  ASSUME HearingInv,
         \/ \E frame \in Hello \cup {Noise} : Arrive(frame)
         \/ SkipFrame
         \/ \E table \in Actor!TableType : ListTable(table)
         \/ UNCHANGED vars
  PROVE  HelloOrder'
<1>1. ASSUME \E frame \in Hello \cup {Noise} : Arrive(frame) PROVE HelloOrder'
  BY <1>1, SameHelloOrder DEF Arrive, actorVars, HearingInv
<1>2. CASE SkipFrame
  BY <1>2, SameHelloOrder DEF SkipFrame, actorVars, HearingInv
<1>3. ASSUME NEW table \in Actor!TableType, ListTable(table) PROVE HelloOrder'
  <2>1. UNCHANGED <<phase, hello, tables, queue>>
    BY <1>3 DEF ListTable, Actor!Call
  <2>2. /\ pc'[Receiver] = pc[Receiver] /\ cmd'[Receiver] = cmd[Receiver]
        /\ reply'[Receiver] = reply[Receiver]
    BY <1>3 DEF ListTable, Actor!Call, HearingInv, DiscoveryInv, Actor!TypeOK,
                Receiver, Console
  <2> QED  BY <2>1, <2>2, SameHelloOrder DEF HearingInv
<1>4. CASE UNCHANGED vars
  BY <1>4, SameHelloOrder DEF vars, HearingInv
<1> QED  BY <1>1, <1>2, <1>3, <1>4

LEMMA StepHearing == HearingInv /\ [Next]_vars => HearingInv'
<1> SUFFICES ASSUME HearingInv, [Next]_vars PROVE HelloOrder'
  BY StepDiscoveryInv DEF HearingInv
<1> QED  BY ReceiverHelloOrder, SendHelloOrder, ReturnHelloOrder, ServeHelloOrder,
            OtherHelloOrder DEF Next, Work

-----------------------------------------------------------------------------
(* Every step is one of the Promise or leaves what it promises alone.      *)

(* A command that is no add changes nothing of what is known.              *)
LEMMA KnownBeyond ==
  ASSUME NEW table, NEW commands, NEW n \in Nat, commands[n + 1].cmd.op # "Add"
  PROVE  KnownAfter(table, commands, n + 1) = KnownAfter(table, commands, n)
<1>1. \A id : Adds(commands, id, n + 1) = Adds(commands, id, n)
  <2> TAKE id
  <2>1. \A k : k \in 1 .. (n + 1) <=> k \in 1 .. n \/ k = n + 1
    OBVIOUS
  <2> QED  BY <2>1 DEF Adds
<1>2. \A id \in NodeIds : KnownAfter(table, commands, n + 1)[id]
                          = KnownAfter(table, commands, n)[id]
  <2> TAKE id \in NodeIds
  <2> DEFINE entry(adds) ==
               IF adds = {} THEN table[id]
               ELSE commands[CHOOSE k \in adds : \A j \in adds : j <= k].cmd.value
  <2>1. Adds(commands, id, n + 1) = Adds(commands, id, n)
    BY <1>1
  <2>2. /\ KnownAfter(table, commands, n + 1)[id] = entry(Adds(commands, id, n + 1))
        /\ KnownAfter(table, commands, n)[id] = entry(Adds(commands, id, n))
    BY DEF KnownAfter
  <2> HIDE DEF entry
  <2> QED  BY <2>1, <2>2
<1>3. \A m \in Nat : KnownAfter(table, commands, m)
                     = [id \in NodeIds |-> KnownAfter(table, commands, m)[id]]
  BY DEF KnownAfter
<1> QED  BY <1>2, <1>3

LEMMA InHandType ==
  ASSUME HearingInv
  PROVE  InHand \in Seq(Hello \cup {Noise}) /\ frames \in Seq(Hello \cup {Noise})
<1>1. phase # "recv" => hello \in Hello
  BY DEF HearingInv, DiscoveryInv, PhaseOK
<1>2. CASE InHand = <<>>
  BY <1>2 DEF HearingInv, DiscoveryInv, PhaseOK
<1>3. CASE InHand = <<hello>> /\ phase # "recv"
  BY <1>1, <1>3 DEF HearingInv, DiscoveryInv, PhaseOK
<1> QED  BY <1>2, <1>3 DEF InHand

(* The Promise means the same by a hello and by what is made of it.        *)
LEMMA SameData ==
  /\ Promise!Hello = Hello
  /\ \A found, h : Promise!Merge(found, h) = Merge(found, h)
<1>1. Promise!Hello = Hello
  BY DEF Promise!Hello, Hello
<1>2. \A found, h : Promise!AddInterface(found, h) = AddInterface(found, h)
  BY DEF Promise!AddInterface, AddInterface, Promise!InterfaceOf, InterfaceOf
<1>3. Promise!NewNeighbor = NewNeighbor
  BY DEF Promise!NewNeighbor, NewNeighbor
<1> QED  BY <1>1, <1>2, <1>3 DEF Promise!Merge, Merge

LEMMA InitPromise == Init => Promise!NeighborhoodInit
<1> SUFFICES ASSUME Init PROVE Promise!NeighborhoodInit
  OBVIOUS
<1>1. Known = [id \in NodeIds |-> None]
  <2>1. /\ tables["NeighborTable"] = [id \in NodeIds |-> None]
        /\ queue = <<>> /\ Len(queue) = 0
    BY DEF Init, Actor!Init, Actor!EmptyTables, Actor!TableType, Actor!Keys
  <2>2. \A id \in NodeIds : Adds(queue, id, 0) = {}
    BY DEF Adds
  <2> DEFINE known == KnownAfter(tables["NeighborTable"], queue, 0)
  <2>3. \A id \in NodeIds : known[id] = tables["NeighborTable"][id]
    <3> TAKE id \in NodeIds
    <3>1. Adds(queue, id, 0) = {}
      BY <2>2
    <3> QED  BY <3>1, KnownWithoutAdds
  <2>4. known = [id \in NodeIds |-> known[id]]
    BY DEF KnownAfter
  <2>5. known = Known
    BY <2>1 DEF Known
  <2> HIDE DEF known
  <2> QED  BY <2>1, <2>3, <2>4, <2>5
<1>2. InHand \o frames = <<>>
  BY DEF Init, InHand
<1> QED  BY <1>1, <1>2 DEF Promise!NeighborhoodInit

(* A frame comes in, or is passed over, or a hello is taken.               *)
LEMMA FramesPromise ==
  ASSUME HearingInv,
         (\E frame \in Hello \cup {Noise} : Arrive(frame)) \/ SkipFrame \/ TakeHello
  PROVE  [Promise!NeighborhoodNext]_(Promise!neighborhoodVars)
<1>1. InHand \in Seq(Hello \cup {Noise}) /\ frames \in Seq(Hello \cup {Noise})
  BY InHandType
<1>2. ASSUME NEW frame \in Hello \cup {Noise}, Arrive(frame)
      PROVE  Promise!Receive(frame)
  <2>1. frames' = Append(frames, frame) /\ Known' = Known /\ InHand' = InHand
    BY <1>2 DEF Arrive, actorVars, Known, InHand
  <2>2. InHand \o Append(frames, frame) = Append(InHand \o frames, frame)
    BY <1>1
  <2> QED  BY <2>1, <2>2 DEF Promise!Receive
<1>3. CASE SkipFrame
  <2>1. /\ frames # <<>> /\ Head(frames) = Noise /\ frames' = Tail(frames)
        /\ Known' = Known /\ InHand = <<>> /\ InHand' = <<>>
    BY <1>3 DEF SkipFrame, actorVars, Known, InHand
  <2>2. InHand \o frames = frames /\ (InHand \o frames)' = Tail(frames)
    BY <1>1, <2>1
  <2>3. Promise!PassOver
    BY <2>1, <2>2 DEF Promise!PassOver
  <2> QED  BY <2>3 DEF Promise!NeighborhoodNext
<1>4. CASE TakeHello
  <2>1. /\ frames # <<>> /\ frames' = Tail(frames)
        /\ UNCHANGED <<tables, queue>> /\ InHand = <<>> /\ InHand' = <<Head(frames)>>
    BY <1>4 DEF TakeHello, Actor!Call, InHand
  <2>2. InHand \o frames = frames /\ (InHand \o frames)' = frames
    BY <1>1, <2>1
  <2>3. Known' = Known
    BY <2>1 DEF Known
  <2> QED  BY <2>2, <2>3 DEF Promise!neighborhoodVars
<1> QED  BY <1>2, <1>3, <1>4, SameData DEF Promise!NeighborhoodNext

(* An add goes into the channel: the hello is heard.                       *)
LEMMA AddPromise ==
  ASSUME HearingInv, SendCommand(Receiver), phase = "add"
  PROVE  Promise!Hear
<1> DEFINE l == Len(queue)
           table == tables["NeighborTable"]
           id == hello.id
           add == cmd[Receiver]
<1>1. /\ Len(queue') = l + 1 /\ l \in Nat /\ l + 1 \in Nat
      /\ queue'[l + 1].cmd = add
      /\ \A k \in 1 .. l : queue'[k] = queue[k]
      /\ UNCHANGED <<frames, phase, hello, tables>>
      /\ pc[Receiver] = "sending"
      /\ pc'[Receiver] = IF Actor!IsQuery(add) THEN "waiting" ELSE "idle"
  BY EntrySent DEF HearingInv
<1>2. /\ hello \in Hello /\ id \in NodeIds
      /\ add \in AddNeighbor /\ add.op = "Add" /\ ~Actor!IsQuery(add)
  BY <1>1 DEF HearingInv, DiscoveryInv, PhaseOK, AddNeighbor, Actor!IsQuery, Hello
<1>3. /\ \A k \in 1 .. l : queue[k].from # Receiver
      /\ add.key = id /\ add.value = Merge(table[id], hello)
  BY <1>1 DEF HearingInv, HelloOrder
<1>4. InHand = <<hello>> /\ InHand' = <<>>
  BY <1>1, <1>2 DEF InHand
<1>5. \A k \in 1 .. l : queue[k].cmd.op # "Add"
  BY <1>3 DEF HearingInv, DiscoveryInv, QueueOK, Sent, ListATable
<1> HIDE DEF l, table, id, add
<1>6. /\ \A i \in NodeIds : Adds(queue, i, l) = {} /\ Adds(queue', i, l) = {}
      /\ \A i \in NodeIds \ {id} : Adds(queue', i, l + 1) = {}
      /\ Adds(queue', id, l + 1) = {l + 1}
  <2>1. \A k : k \in 1 .. (l + 1) <=> k \in 1 .. l \/ k = l + 1
    BY <1>1
  <2> QED  BY <1>1, <1>2, <1>3, <1>5, <2>1 DEF Adds
<1>7. /\ \A i \in NodeIds : Known[i] = table[i]
      /\ \A i \in NodeIds \ {id} : Known'[i] = table[i]
      /\ Known'[id] = add.value
  <2>1. /\ Known = KnownAfter(table, queue, l)
        /\ Known' = KnownAfter(table, queue', l + 1)
    BY <1>1 DEF Known, table, l
  <2>2. l + 1 \in Adds(queue', id, l + 1) /\ \A j \in Adds(queue', id, l + 1) : j = l + 1
    BY <1>6
  <2>3. Known'[id] = queue'[l + 1].cmd.value
    BY <1>1, <1>2, <2>1, <2>2, KnownByAdd
  <2> QED  BY <1>1, <1>6, <2>1, <2>3, KnownWithoutAdds
<1>8. Known' = [Known EXCEPT ![id] = Merge(@, hello)]
  <2>1. /\ Known = [i \in NodeIds |-> Known[i]]
        /\ Known' = [i \in NodeIds |-> Known'[i]]
    BY DEF Known, KnownAfter
  <2> QED  BY <1>2, <1>3, <1>7, <2>1
<1>9. /\ InHand \o frames # <<>> /\ Head(InHand \o frames) = hello
      /\ (InHand \o frames)' = Tail(InHand \o frames)
  <2>1. frames \in Seq(Hello \cup {Noise})
    BY InHandType
  <2> QED  BY <1>1, <1>2, <1>4, <2>1
<1> QED  BY <1>2, <1>8, <1>9, SameData DEF Promise!Hear, id

(* Any other command goes into the channel.                                *)
LEMMA SendPromise ==
  ASSUME HearingInv, NEW c \in {Receiver, Console}, SendCommand(c)
  PROVE  [Promise!NeighborhoodNext]_(Promise!neighborhoodVars)
<1> DEFINE l == Len(queue)
           table == tables["NeighborTable"]
<1>1. /\ Len(queue') = l + 1 /\ l \in Nat
      /\ queue'[l + 1].cmd = cmd[c]
      /\ \A k \in 1 .. l : queue'[k] = queue[k]
      /\ UNCHANGED <<frames, phase, hello, tables>>
      /\ pc[c] = "sending"
      /\ \A d \in {Receiver, Console} \ {c} : pc'[d] = pc[d]
  BY EntrySent DEF HearingInv
<1>2. CASE c = Receiver /\ phase = "add"
  BY <1>2, AddPromise DEF Promise!NeighborhoodNext
<1>3. CASE c = Console \/ phase = "get"
  <2>1. cmd[c].op # "Add"
    BY <1>1, <1>3 DEF HearingInv, DiscoveryInv, PhaseOK, ReplyOK, GetNeighbor, ListATable
  <2>2. InHand' = InHand
    BY <1>1, <1>3 DEF InHand, Receiver, Console
  <2>3. Known' = KnownAfter(table, queue', l)
    BY <1>1, <2>1, KnownBeyond DEF Known
  <2>4. KnownAfter(table, queue', l) = KnownAfter(table, queue, l)
    <3>1. \A id \in NodeIds : \A j, k \in Adds(queue, id, l) : j = k
      BY <1>1, OneAdd
    <3> QED  BY <1>1, <3>1, SendingIsKnown
  <2> QED  BY <1>1, <2>2, <2>3, <2>4 DEF Known, Promise!neighborhoodVars
<1> QED  BY <1>1, <1>2, <1>3 DEF HearingInv, DiscoveryInv, PhaseOK

(* The rest is not seen.                                                   *)
LEMMA QuietPromise ==
  ASSUME HearingInv,
         \/ GetReturned \/ HelloDone \/ ServeCommand
         \/ \E c \in {Receiver, Console} : ReturnCall(c)
         \/ \E table \in Actor!TableType : ListTable(table)
         \/ UNCHANGED vars
  PROVE  UNCHANGED Promise!neighborhoodVars
<1>1. CASE GetReturned
  <2>1. /\ UNCHANGED <<frames, hello, tables, queue>>
        /\ phase = "get" /\ phase' = "add" /\ pc'[Receiver] = "sending"
    BY <1>1, AnswerTypes
       DEF GetReturned, StoreNeighbor, Actor!Call, HearingInv, DiscoveryInv, Actor!TypeOK,
           PhaseOK, ReplyOK
  <2>2. Known' = Known /\ InHand' = InHand
    BY <2>1 DEF Known, InHand
  <2> QED  BY <2>1, <2>2 DEF Promise!neighborhoodVars
<1>2. CASE HelloDone
  <2>1. Known' = Known /\ InHand' = InHand /\ UNCHANGED frames
    BY <1>2 DEF HelloDone, actorVars, Known, InHand
  <2> QED  BY <2>1 DEF Promise!neighborhoodVars
<1>3. CASE ServeCommand
  <2>1. /\ Actor!Handle /\ UNCHANGED <<frames, phase, hello, pc>>
        /\ Len(queue') = Len(queue) - 1 /\ Len(queue) \in 1 .. Len(queue)
    BY <1>3, HeadTaken DEF ServeCommand, HearingInv
  <2>2. KnownAfter(tables'["NeighborTable"], queue', Len(queue) - 1)
          = KnownAfter(tables["NeighborTable"], queue, Len(queue))
    BY <2>1, ServingIsKnown
  <2>3. Known' = Known
    BY <2>1, <2>2 DEF Known
  <2>4. InHand' = InHand
    BY <2>1 DEF InHand
  <2> QED  BY <2>1, <2>3, <2>4 DEF Promise!neighborhoodVars
<1>4. ASSUME NEW c \in {Receiver, Console}, ReturnCall(c)
      PROVE  UNCHANGED Promise!neighborhoodVars
  <2>1. /\ UNCHANGED <<frames, phase, hello, tables, queue>>
        /\ pc[Receiver] = "sending" <=> pc'[Receiver] = "sending"
    BY <1>4 DEF ReturnCall, Actor!Return, HearingInv, DiscoveryInv, Actor!TypeOK
  <2>2. Known' = Known /\ InHand' = InHand
    BY <2>1 DEF Known, InHand
  <2> QED  BY <2>1, <2>2 DEF Promise!neighborhoodVars
<1>5. ASSUME NEW table \in Actor!TableType, ListTable(table)
      PROVE  UNCHANGED Promise!neighborhoodVars
  <2>1. /\ UNCHANGED <<frames, phase, hello, tables, queue>>
        /\ pc'[Receiver] = pc[Receiver]
    BY <1>5 DEF ListTable, Actor!Call, HearingInv, DiscoveryInv, Actor!TypeOK,
                Receiver, Console
  <2>2. Known' = Known /\ InHand' = InHand
    BY <2>1 DEF Known, InHand
  <2> QED  BY <2>1, <2>2 DEF Promise!neighborhoodVars
<1>6. CASE UNCHANGED vars
  <2>1. Known' = Known /\ InHand' = InHand /\ UNCHANGED frames
    BY <1>6 DEF vars, Known, InHand
  <2> QED  BY <2>1 DEF Promise!neighborhoodVars
<1> QED  BY <1>1, <1>2, <1>3, <1>4, <1>5, <1>6

LEMMA StepPromise ==
  HearingInv /\ [Next]_vars => [Promise!NeighborhoodNext]_(Promise!neighborhoodVars)
<1> SUFFICES ASSUME HearingInv, [Next]_vars
             PROVE  [Promise!NeighborhoodNext]_(Promise!neighborhoodVars)
  OBVIOUS
<1> QED  BY FramesPromise, SendPromise, QuietPromise DEF Next, Work

(* What the receiver task, disco_handler and the State task do together is *)
(* to hear the hellos received one by one: no listing, no other frame, no  *)
(* death of the State task and no interleaving of the awaits makes them    *)
(* lose one, hear it twice or forget an interface known already.           *)
THEOREM DiscoveryImplements == Spec => EveryHelloIsHeardOnce
<1>1. Init => HearingInv /\ Promise!NeighborhoodInit
  BY InitHearing, InitPromise
<1>2. HearingInv /\ [Next]_vars
        => HearingInv' /\ [Promise!NeighborhoodNext]_(Promise!neighborhoodVars)
  BY StepHearing, StepPromise
<1> QED  BY <1>1, <1>2, PTL DEF Spec, EveryHelloIsHeardOnce, Promise!NeighborhoodSpec
-----------------------------------------------------------------------------
(* How far the table is behind.                                            *)

(* An add in the channel is still what its hello makes of the table.       *)
AddsAreHellos ==
  \A k \in 1 .. Len(queue) : queue[k].cmd \in AddNeighbor =>
    \E h \in Hello : /\ queue[k].cmd.key = h.id
                     /\ queue[k].cmd.value = Merge(tables["NeighborTable"][h.id], h)

LagInv == HearingInv /\ AddsAreHellos

LEMMA SendAddsAreHellos ==
  ASSUME LagInv, NEW c \in {Receiver, Console}, SendCommand(c)
  PROVE  AddsAreHellos'
<1> DEFINE l == Len(queue)
           table == tables["NeighborTable"]
<1>1. /\ Len(queue') = l + 1 /\ l \in Nat
      /\ queue'[l + 1].cmd = cmd[c]
      /\ \A k \in 1 .. l : queue'[k] = queue[k]
      /\ tables' = tables /\ pc[c] = "sending"
  BY EntrySent DEF LagInv, HearingInv
<1>2. \A k \in 1 .. (l + 1) : k \in 1 .. l \/ k = l + 1
  BY <1>1
<1>3. ASSUME cmd[c] \in AddNeighbor
      PROVE  \E h \in Hello : cmd[c].key = h.id /\ cmd[c].value = Merge(table[h.id], h)
  <2>1. cmd[c] \notin ListATable /\ cmd[c] \notin GetNeighbor
    BY <1>3 DEF AddNeighbor, ListATable, GetNeighbor
  <2>2. c = Receiver /\ phase = "add" /\ hello \in Hello
    BY <1>1, <2>1 DEF LagInv, HearingInv, DiscoveryInv, PhaseOK, ReplyOK
  <2> QED  BY <1>1, <2>2 DEF LagInv, HearingInv, HelloOrder
<1> QED  BY <1>1, <1>2, <1>3 DEF LagInv, AddsAreHellos

(* The State task applies the only add there is, and no other command that *)
(* it serves changes the neighbours.                                       *)
LEMMA ServeAddsAreHellos ==
  ASSUME LagInv, ServeCommand
  PROVE  AddsAreHellos'
<1> SUFFICES ASSUME NEW k \in 1 .. Len(queue'), queue'[k].cmd \in AddNeighbor
             PROVE  \E h \in Hello :
                      /\ queue'[k].cmd.key = h.id
                      /\ queue'[k].cmd.value = Merge(tables'["NeighborTable"][h.id], h)
  BY DEF AddsAreHellos
<1>1. /\ Actor!Handle /\ Len(queue) \in Nat /\ 1 \in 1 .. Len(queue)
      /\ k + 1 \in 1 .. Len(queue) /\ k + 1 # 1 /\ queue'[k] = queue[k + 1]
      /\ Head(queue) = queue[1]
  BY HeadTaken DEF ServeCommand, LagInv, HearingInv
<1>2. Head(queue).cmd \notin AddNeighbor
  BY <1>1, OneAdd DEF LagInv
<1>3. tables' = tables
  BY <1>1, <1>2, ServeNeighbors DEF LagInv, HearingInv
<1> QED  BY <1>1, <1>3 DEF LagInv, AddsAreHellos

LEMMA StepLag == LagInv /\ [Next]_vars => LagInv'
<1> SUFFICES ASSUME LagInv, [Next]_vars PROVE AddsAreHellos'
  BY StepHearing DEF LagInv
<1>1. ASSUME UNCHANGED <<tables, queue>> PROVE AddsAreHellos'
  BY <1>1 DEF LagInv, AddsAreHellos
<1>2. ASSUME NEW c \in {Receiver, Console}, SendCommand(c) PROVE AddsAreHellos'
  BY <1>2, SendAddsAreHellos
<1>3. CASE ServeCommand
  BY <1>3, ServeAddsAreHellos
<1>4. ASSUME NEW c \in {Receiver, Console}, ReturnCall(c) PROVE AddsAreHellos'
  BY <1>1, <1>4 DEF ReturnCall, Actor!Return
<1>5. ASSUME NEW table \in Actor!TableType, ListTable(table) PROVE AddsAreHellos'
  BY <1>1, <1>5 DEF ListTable, Actor!Call
<1>6. ASSUME \/ \E frame \in Hello \cup {Noise} : Arrive(frame)
             \/ SkipFrame \/ TakeHello \/ GetReturned \/ HelloDone \/ UNCHANGED vars
      PROVE  AddsAreHellos'
  BY <1>1, <1>6 DEF Arrive, SkipFrame, TakeHello, GetReturned, GiveUp, StoreNeighbor,
                    HelloDone, Actor!Call, actorVars, vars
<1> QED  BY <1>2, <1>3, <1>4, <1>5, <1>6 DEF Next, Work

LEMMA LagInvImplies == LagInv => TableIsOneHelloBehind
<1> SUFFICES ASSUME LagInv PROVE TableIsOneHelloBehind
  OBVIOUS
<1> DEFINE l == Len(queue)
           table == tables["NeighborTable"]
<1>1. /\ l \in Nat /\ l \in 0 .. l
      /\ \A id \in NodeIds : Adds(queue, id, l) = {k \in 1 .. l : queue[k].cmd \in AddNeighbor
                                                              /\ queue[k].cmd.key = id}
      /\ \A j, k \in 1 .. l :
           queue[j].cmd \in AddNeighbor /\ queue[k].cmd \in AddNeighbor => j = k
  <2>1. l \in Nat
    BY DEF LagInv, HearingInv, DiscoveryInv, QueueOK
  <2> QED  BY <2>1, OneAdd DEF LagInv
<1>2. /\ table = [id \in NodeIds |-> table[id]]
      /\ Known = KnownAfter(table, queue, l) /\ Known = [id \in NodeIds |-> Known[id]]
  BY DEF LagInv, HearingInv, DiscoveryInv, Actor!TypeOK, Actor!IsTables, Actor!TableType,
         Actor!Contents, Actor!Keys, Known, KnownAfter
<1> HIDE DEF l, table
<1>3. Known = KnownAfter(table, queue, l)
  BY <1>2
<1>4. ASSUME NEW id \in NodeIds, Adds(queue, id, l) = {} PROVE Known[id] = table[id]
  <2>1. KnownAfter(table, queue, l)[id] = table[id]
    BY <1>4, KnownWithoutAdds
  <2> QED  BY <1>3, <2>1
<1>5. CASE \A k \in 1 .. l : queue[k].cmd \notin AddNeighbor
  <2>1. \A id \in NodeIds : Known[id] = table[id]
    BY <1>1, <1>4, <1>5
  <2>2. Known = table
    BY <1>2, <2>1
  <2> QED  BY <2>2 DEF TableIsOneHelloBehind, table
<1>6. ASSUME NEW k \in 1 .. l, queue[k].cmd \in AddNeighbor
      PROVE  TableIsOneHelloBehind
  <2>1. PICK h \in Hello : /\ queue[k].cmd.key = h.id
                           /\ queue[k].cmd.value = Merge(table[h.id], h)
    BY <1>6 DEF LagInv, AddsAreHellos, l, table
  <2>2. h.id \in NodeIds /\ k \in Adds(queue, h.id, l) /\ \A j \in Adds(queue, h.id, l) : j = k
    BY <1>1, <1>6, <2>1 DEF Hello
  <2>3. Known[h.id] = Merge(table[h.id], h)
    <3>1. KnownAfter(table, queue, l)[h.id] = queue[k].cmd.value
      BY <1>1, <2>2, KnownByAdd
    <3> QED  BY <1>3, <2>1, <3>1
  <2>4. \A id \in NodeIds \ {h.id} : Known[id] = table[id]
    <3> TAKE id \in NodeIds \ {h.id}
    <3>1. Adds(queue, id, l) = {}
      BY <1>1, <1>6, <2>1
    <3> QED  BY <1>4, <3>1
  <2>5. Known = [table EXCEPT ![h.id] = Merge(@, h)]
    BY <1>2, <2>2, <2>3, <2>4
  <2> QED  BY <2>5 DEF TableIsOneHelloBehind, table
<1> QED  BY <1>5, <1>6

(* However many hellos were handled and however long the channel is, the   *)
(* table lacks at most the last of them, so that is all a State task that  *)
(* dies can lose.                                                          *)
THEOREM LagCorrect == Spec => []TableIsOneHelloBehind
<1>1. Init => LagInv
  BY InitHearing DEF LagInv, AddsAreHellos, Init, Actor!Init
<1> QED  BY <1>1, StepLag, LagInvImplies, PTL DEF Spec
-----------------------------------------------------------------------------
(* The two tasks use the State actor as it is meant to be used.            *)
LEMMA InitActor == Init => Actor!Init
  BY DEF Init

LEMMA StepActor == DiscoveryInv /\ [Next]_vars => [Actor!Next]_(Actor!vars)
<1> SUFFICES ASSUME DiscoveryInv, [Next]_vars PROVE [Actor!Next]_(Actor!vars)
  OBVIOUS
<1>1. ASSUME UNCHANGED actorVars PROVE [Actor!Next]_(Actor!vars)
  BY <1>1 DEF actorVars, Actor!vars
<1>2. ASSUME NEW c \in {Receiver, Console}, NEW command \in Actor!Command,
             Actor!Call(c, command)
      PROVE  [Actor!Next]_(Actor!vars)
  BY <1>2 DEF Actor!Next
<1>3. CASE TakeHello
  <2> DEFINE c == [op |-> "Get", table |-> "NeighborTable", key |-> Head(frames).id]
  <2>1. Head(frames) \in Hello
    BY <1>3, FrameTaken DEF TakeHello, DiscoveryInv
  <2>2. c \in GetNeighbor
    BY <2>1 DEF GetNeighbor, Hello
  <2>3. Actor!Call(Receiver, c) /\ c \in Actor!Command
    BY <1>3, <2>2, Commands DEF TakeHello
  <2> HIDE DEF c
  <2> QED  BY <1>2, <2>3
<1>4. CASE GetReturned
  <2> DEFINE c == [op |-> "Add", table |-> "NeighborTable", key |-> hello.id,
                   value |-> Merge(reply[Receiver], hello)]
  <2>1. CASE reply[Receiver] = Err
    BY <1>1, <1>4, <2>1 DEF GetReturned, GiveUp
  <2>2. CASE reply[Receiver] # Err
    <3>1. hello \in Hello /\ reply[Receiver] \in Neighbor \cup {None}
      BY <1>4 DEF GetReturned, DiscoveryInv, PhaseOK, ReplyOK
    <3>2. c \in AddNeighbor
      BY <3>1, MergeType DEF AddNeighbor, Hello
    <3>3. Actor!Call(Receiver, c) /\ c \in Actor!Command
      BY <1>4, <2>2, <3>2, Commands DEF GetReturned, StoreNeighbor
    <3> HIDE DEF c
    <3> QED  BY <1>2, <3>3
  <2> QED  BY <2>1, <2>2
<1>5. ASSUME NEW table \in Actor!TableType, ListTable(table)
      PROVE  [Actor!Next]_(Actor!vars)
  <2> DEFINE c == [op |-> "List", table |-> table]
  <2>1. Actor!Call(Console, c) /\ c \in ListATable
    BY <1>5 DEF ListTable, ListATable
  <2> HIDE DEF c
  <2> QED  BY <1>2, <2>1, Commands
<1>6. ASSUME NEW c \in {Receiver, Console}, SendCommand(c) \/ ReturnCall(c)
      PROVE  [Actor!Next]_(Actor!vars)
  BY <1>6 DEF SendCommand, ReturnCall, Actor!Next
<1>7. CASE ServeCommand
  BY <1>7 DEF ServeCommand, Actor!Next
<1>8. ASSUME \/ \E frame \in Hello \cup {Noise} : Arrive(frame)
             \/ SkipFrame \/ HelloDone \/ UNCHANGED vars
      PROVE  [Actor!Next]_(Actor!vars)
  BY <1>1, <1>8 DEF Arrive, SkipFrame, HelloDone, actorVars, vars
<1> QED  BY <1>3, <1>4, <1>5, <1>6, <1>7, <1>8 DEF Next, Work

(* Every behaviour of discovery is one of the State actor with these two   *)
(* clients: the commands they send are commands, they make one call at a   *)
(* time, and nothing but the State task touches its tables.                *)
THEOREM DiscoveryUsesActor == Spec => Actor!Spec
BY InitDiscoveryInv, StepDiscoveryInv, InitActor, StepActor, PTL DEF Spec, Actor!Spec
=============================================================================
