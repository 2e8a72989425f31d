---------------------------- MODULE StateServer ----------------------------
(***************************************************************************)
(* The State actor (state/state.rs): one task that owns the tables and     *)
(* serves the commands of a bounded mpsc channel, and the StateClient      *)
(* handles that send to it.  add and del return as soon as their command   *)
(* is in the channel; get and list then wait for the oneshot that travels  *)
(* with the command.                                                       *)
(*                                                                         *)
(* A call of a client is: Call, Send (the await on tx.send), and for a     *)
(* query also Return (the await on rx).  Its caller may drop the future at *)
(* either await (Cancel): a command not yet sent is never sent, and the    *)
(* oneshot of one already sent loses its receiver.                         *)
(*                                                                         *)
(* The receiver of the channel sits in an Arc that the State value keeps   *)
(* for as long as UserSpace::run runs, so the channel never closes, not    *)
(* even when the task dies: send never fails, it can only wait.            *)
(***************************************************************************)
EXTENDS Tables, Sequences

CONSTANTS
  Clients,     \* the holders of a StateClient
  Capacity,    \* capacity of the command channel: 32 in the program
  MapFaults,   \* may iterating over the kernel map fail?
  NoCommand,   \* no command yet
  Pending,     \* nothing came on the oneshot yet, or there is no oneshot
  Err          \* the oneshot's sender was dropped

ASSUME StateServerAssumption ==
  /\ Capacity \in Nat \ {0}
  /\ MapFaults \in BOOLEAN
  /\ NoCommand \notin Command
  /\ Pending \notin AnswerType
  /\ Err \notin AnswerType
  /\ Pending # Err

VARIABLES
  tables,   \* ft, rt and nt of State::run
  queue,    \* the command channel
  server,   \* the State task: "up" or "dead"
  pc,       \* per client: "idle", "sending", "waiting"
  cmd,      \* the command of the client's latest call
  reply     \* what the client's oneshot delivered

vars == <<tables, queue, server, pc, cmd, reply>>

(* A command in the channel.  open says that it carries a oneshot whose    *)
(* receiver is still alive.                                                *)
Entry == [from : Clients, cmd : Command, open : BOOLEAN]

(* The places in the channel of oneshots on which client c can still be    *)
(* answered.                                                               *)
OpenEntries(c) == {i \in DOMAIN queue : queue[i].from = c /\ queue[i].open}

-----------------------------------------------------------------------------
Init ==
  /\ tables = EmptyTables
  /\ queue = <<>>
  /\ server = "up"
  /\ pc = [c \in Clients |-> "idle"]
  /\ cmd = [c \in Clients |-> NoCommand]
  /\ reply = [c \in Clients |-> Pending]

(* StateClient::add, get, del or list is called.                           *)
Call(c, command) ==
  /\ pc[c] = "idle"
  /\ pc' = [pc EXCEPT ![c] = "sending"]
  /\ cmd' = [cmd EXCEPT ![c] = command]
  /\ reply' = [reply EXCEPT ![c] = Pending]
  /\ UNCHANGED <<tables, queue, server>>

(* Mutant of Enqueue: the latest command is served first.                  *)
EnqueueAtFront(c) ==
  queue' = <<[from |-> c, cmd |-> cmd[c], open |-> IsQuery(cmd[c])]>> \o queue

(* A command enters the channel at its end.                                *)
Enqueue(c) ==
  queue' = Append(queue, [from |-> c, cmd |-> cmd[c], open |-> IsQuery(cmd[c])])

(* Mutant of Send: a channel that does not wait for room.                  *)
SendUnbounded(c) ==
  /\ pc[c] = "sending"
  /\ Enqueue(c)
  /\ pc' = [pc EXCEPT ![c] = IF IsQuery(cmd[c]) THEN "waiting" ELSE "idle"]
  /\ UNCHANGED <<tables, server, cmd, reply>>

(* tx.send completes: there is room in the channel.                        *)
Send(c) ==
  /\ pc[c] = "sending"
  /\ Len(queue) < Capacity
  /\ Enqueue(c)
  /\ pc' = [pc EXCEPT ![c] = IF IsQuery(cmd[c]) THEN "waiting" ELSE "idle"]
  /\ UNCHANGED <<tables, server, cmd, reply>>

(* rx.await completes: the answer, or Err when the sender was dropped.     *)
Return(c) ==
  /\ pc[c] = "waiting"
  /\ reply[c] # Pending
  /\ pc' = [pc EXCEPT ![c] = "idle"]
  /\ UNCHANGED <<tables, queue, server, cmd, reply>>

(* Mutant of DropReceiver: one oneshot per client, kept across its calls.   *)
KeepReceiver(c) == c \in Clients /\ UNCHANGED queue

(* The oneshots of client c that are still in the channel lose their       *)
(* receiver.                                                               *)
DropReceiver(c) ==
  queue' = [i \in DOMAIN queue |->
              IF queue[i].from = c THEN [queue[i] EXCEPT !.open = FALSE]
              ELSE queue[i]]

(* The future of the call is dropped at one of its awaits.                 *)
Cancel(c) ==
  /\ pc[c] \in {"sending", "waiting"}
  /\ DropReceiver(c)
  /\ pc' = [pc EXCEPT ![c] = "idle"]
  /\ reply' = [reply EXCEPT ![c] = Pending]
  /\ UNCHANGED <<tables, server, cmd>>

-----------------------------------------------------------------------------
(* The State task: one iteration of its loop per step.                     *)

(* Mutant of Reply: the answer goes to the client, not to the call.         *)
ReplyToClient(entry, value) == reply' = [reply EXCEPT ![entry.from] = value]

(* A oneshot whose receiver is gone makes tx.send fail, which is logged    *)
(* and otherwise ignored.                                                  *)
Reply(entry, value) ==
  reply' = IF entry.open THEN [reply EXCEPT ![entry.from] = value] ELSE reply

Take(op) ==
  /\ server = "up"
  /\ queue # <<>>
  /\ Head(queue).cmd.op = op
  /\ queue' = Tail(queue)

HandleAdd ==
  /\ Take("Add")
  /\ tables' = Apply(tables, Head(queue).cmd)
  /\ UNCHANGED <<server, pc, cmd, reply>>

(* Mutant of HandleDel: a Del that is only logged.                          *)
DelIsLogged == Take("Del") /\ UNCHANGED <<tables, server, pc, cmd, reply>>

HandleDel ==
  /\ Take("Del")
  /\ tables' = Apply(tables, Head(queue).cmd)
  /\ UNCHANGED <<server, pc, cmd, reply>>

HandleGet ==
  /\ Take("Get")
  /\ Reply(Head(queue), Answer(tables, Head(queue).cmd))
  /\ UNCHANGED <<tables, server, pc, cmd>>

(* Mutant of HandleList: no answer for the route table.                     *)
ListForgetsRoutes ==
  /\ Take("List")
  /\ IF Head(queue).cmd.table = "RouteTable" THEN UNCHANGED reply
     ELSE Reply(Head(queue), Answer(tables, Head(queue).cmd))
  /\ UNCHANGED <<tables, server, pc, cmd>>

HandleList ==
  /\ Take("List")
  /\ Reply(Head(queue), Answer(tables, Head(queue).cmd))
  /\ UNCHANGED <<tables, server, pc, cmd>>

(* Mutant of PanicInList: the receiver of the channel dies with the task.   *)
PanicClosesChannel ==
  /\ MapFaults
  /\ server = "up" /\ queue # <<>>
  /\ Head(queue).cmd = [op |-> "List", table |-> "ForwardingTable"]
  /\ server' = "dead"
  /\ queue' = <<>>
  /\ reply' = [c \in Clients |-> IF OpenEntries(c) # {} THEN Err ELSE reply[c]]
  /\ UNCHANGED <<tables, pc, cmd>>

(* ForwardingTable::list unwraps every step of the iteration over the      *)
(* kernel map: an error there panics, the task is gone with the oneshot it *)
(* was about to use, and the commands behind it stay in the channel.       *)
PanicInList ==
  /\ MapFaults
  /\ Take("List")
  /\ Head(queue).cmd.table = "ForwardingTable"
  /\ server' = "dead"
  /\ Reply(Head(queue), Err)
  /\ UNCHANGED <<tables, pc, cmd>>

Handle == HandleAdd \/ HandleDel \/ HandleGet \/ HandleList \/ PanicInList

-----------------------------------------------------------------------------
Next ==
  \/ \E c \in Clients :
       \/ \E command \in Command : Call(c, command)
       \/ Send(c) \/ Return(c) \/ Cancel(c)
  \/ Handle

Spec == Init /\ [][Next]_vars

(***************************************************************************)
(* The runtime keeps polling a task that can make progress, and the        *)
(* semaphore of an mpsc channel serves waiting senders first come first    *)
(* served, so a sender is not overtaken forever: strong fairness of Send.  *)
(* Nothing obliges a caller to call, or to cancel.                         *)
(***************************************************************************)
Fairness ==
  /\ WF_vars(Handle)
  /\ \A c \in Clients : SF_vars(Send(c)) /\ WF_vars(Return(c))

FairSpec == Spec /\ Fairness

-----------------------------------------------------------------------------
TypeOK ==
  /\ IsTables(tables)
  /\ queue \in Seq(Entry)
  /\ Len(queue) <= Capacity
  /\ server \in {"up", "dead"}
  /\ pc \in [Clients -> {"idle", "sending", "waiting"}]
  /\ cmd \in [Clients -> Command \cup {NoCommand}]
  /\ reply \in [Clients -> AnswerType \cup {Pending, Err}]
  /\ \A c \in Clients : pc[c] # "idle" => cmd[c] \in Command

(***************************************************************************)
(* Exactly the calls that wait for an answer have a live oneshot in the    *)
(* channel, one each and with the command they sent: no answer can reach a *)
(* call other than the one that asked (a client that gave up and called    *)
(* again is not handed the old answer), and no waiting call has been       *)
(* forgotten, not even when the State task has died.                       *)
(***************************************************************************)
OneOneshotPerWaitingCall ==
  \A c \in Clients :
    LET owed == pc[c] = "waiting" /\ reply[c] = Pending
    IN  /\ Cardinality(OpenEntries(c)) = (IF owed THEN 1 ELSE 0)
        /\ \A i \in OpenEntries(c) : queue[i].cmd = cmd[c] /\ IsQuery(cmd[c])

(***************************************************************************)
(* A get for a neighbour is answered with a neighbour or nothing, never    *)
(* with what another table holds: the panic "Value is not a Neighbor" of   *)
(* Value::into is out of reach, whatever the clients write.                *)
(***************************************************************************)
AnswerIsOfTheTable ==
  \A c \in Clients :
    (reply[c] \in AnswerType /\ cmd[c].op = "Get")
      => reply[c] \in Values[cmd[c].table] \cup {None}

(***************************************************************************)
(* The forwarding table never holds two entries the trie would keep in one *)
(* node, and never more than max_entries: a later add of the same network  *)
(* under other host bits replaces the earlier one.                         *)
(***************************************************************************)
OneEntryPerNode ==
  LET ft == tables["ForwardingTable"]
  IN  /\ \A p, q \in Stored(ft) : SameNode(p, q) => p = q
      /\ Cardinality(Stored(ft)) <= MaxEntries

(***************************************************************************)
(* A lookup of an address is never ambiguous and never in vain: an address *)
(* that stored prefixes answer gets the hop of the longest of them, and it *)
(* has only one longest, whatever the controller added and deleted, in     *)
(* whichever order, under whichever host bits.                             *)
(***************************************************************************)
LongestMatchWins ==
  LET ft == tables["ForwardingTable"]
  IN  \A address \in Address :
        LET key  == <<address, Width>>
            hits == {p \in Stored(ft) : Answers(p, key)}
        IN  /\ \A p \in hits : Longest(hits, p) => TrieLookup(ft, key) = ft[p]
            /\ hits # {} => TrieLookup(ft, key) # None

(***************************************************************************)
(* Every call comes to an end unless the State task dies: nobody waits for *)
(* room in the channel or for an answer forever, however many other        *)
(* clients keep the channel full.                                          *)
(***************************************************************************)
EveryCallEnds ==
  \A c \in Clients : pc[c] # "idle" ~> (pc[c] = "idle" \/ server = "dead")
=============================================================================
