------------------------- MODULE StateServerProofs -------------------------
(***************************************************************************)
(* Proofs about the State actor, for every set of clients, every capacity  *)
(* of the channel, every address width and every content of the tables.    *)
(***************************************************************************)
EXTENDS StateHistory, FiniteSetTheorems, WellFoundedInduction, TLAPS

-----------------------------------------------------------------------------
(* What a command is made of.                                              *)

LEMMA CommandFields ==
  ASSUME NEW c \in Command
  PROVE  /\ c.op \in {"Add", "Del", "Get", "List"}
         /\ c.table \in TableType
         /\ c.op \in {"Add", "Del", "Get"} => c.key \in Keys[c.table]
         /\ c.op = "Add" => c.value \in Values[c.table]
         /\ c.op = "List" => c = [op |-> "List", table |-> c.table]
  BY DEF Command, AddCommand, DelCommand, GetCommand, ListCommand

-----------------------------------------------------------------------------
(* The tables stay tables under every command.                             *)

LEMMA TrieLookupType ==
  ASSUME NEW K, NEW V, NEW entries \in [K -> V \cup {None}], NEW key
  PROVE  TrieLookup(entries, key) \in V \cup {None}
<1> DEFINE hits == {p \in Stored(entries) : Answers(p, key)}
<1>1. CASE key[2] <= Width /\ \E p \in hits : Longest(hits, p)
  <2>1. (CHOOSE p \in hits : Longest(hits, p)) \in hits
    BY <1>1
  <2>2. (CHOOSE p \in hits : Longest(hits, p)) \in K
    BY <2>1 DEF Stored
  <2>3. TrieLookup(entries, key) = entries[CHOOSE p \in hits : Longest(hits, p)]
    BY <1>1 DEF TrieLookup
  <2> QED  BY <2>2, <2>3
<1>2. CASE ~(key[2] <= Width /\ \E p \in hits : Longest(hits, p))
  BY <1>2 DEF TrieLookup
<1> QED  BY <1>1, <1>2

LEMMA TrieUpdateType ==
  ASSUME NEW K, NEW V, NEW entries \in [K -> V \cup {None}],
         NEW key, NEW value \in V
  PROVE  TrieUpdate(entries, key, value) \in [K -> V \cup {None}]
  BY DEF TrieUpdate

LEMMA TrieDeleteType ==
  ASSUME NEW K, NEW V, NEW entries \in [K -> V \cup {None}], NEW key
  PROVE  TrieDelete(entries, key) \in [K -> V \cup {None}]
  BY DEF TrieDelete

LEMMA ApplyType ==
  ASSUME NEW T, IsTables(T), NEW c \in Command
  PROVE  IsTables(Apply(T, c))
<1> DEFINE t == c.table
<1>1. /\ c.op \in {"Add", "Del", "Get", "List"}
      /\ t \in TableType
      /\ T[t] \in [Keys[t] -> Values[t] \cup {None}]
      /\ DOMAIN T = TableType
  BY CommandFields DEF IsTables, Contents
<1>2. CASE c.op = "Add"
  <2>1. c.key \in Keys[t] /\ c.value \in Values[t]
    BY <1>2, CommandFields
  <2>2. TrieUpdate(T[t], c.key, c.value) \in Contents(t)
    BY <1>1, <2>1, TrieUpdateType DEF Contents
  <2>3. TableAdd(t, T[t], c.key, c.value) \in Contents(t)
    BY <1>1, <2>1, <2>2 DEF TableAdd, MapAdd, Contents
  <2>4. Apply(T, c) = [T EXCEPT ![t] = TableAdd(t, T[t], c.key, c.value)]
    BY <1>2 DEF Apply
  <2> QED  BY <1>1, <2>3, <2>4 DEF IsTables
<1>3. CASE c.op = "Del"
  <2>1. c.key \in Keys[t]
    BY <1>3, CommandFields
  <2>2. TrieDelete(T[t], c.key) \in Contents(t)
    BY <1>1, TrieDeleteType DEF Contents
  <2>3. TableRemove(t, T[t], c.key) \in Contents(t)
    BY <1>1, <2>1, <2>2 DEF TableRemove, MapRemove, Contents
  <2>4. Apply(T, c) = [T EXCEPT ![t] = TableRemove(t, T[t], c.key)]
    BY <1>3 DEF Apply
  <2> QED  BY <1>1, <2>3, <2>4 DEF IsTables
<1>4. CASE c.op \in {"Get", "List"}
  BY <1>4 DEF Apply
<1> QED  BY <1>1, <1>2, <1>3, <1>4

(* A get is answered from its own table, with a value or with nothing.     *)
LEMMA GetAnswerType ==
  ASSUME NEW T, IsTables(T), NEW c \in Command, c.op = "Get"
  PROVE  Answer(T, c) \in Values[c.table] \cup {None}
<1> DEFINE t == c.table
<1>1. /\ t \in TableType
      /\ c.key \in Keys[t]
      /\ T[t] \in [Keys[t] -> Values[t] \cup {None}]
  BY CommandFields DEF IsTables, Contents
<1>2. TrieLookup(T[t], c.key) \in Values[t] \cup {None}
  BY <1>1, TrieLookupType
<1> QED  BY <1>1, <1>2 DEF Answer, TableGet, MapGet

LEMMA QueryAnswerType ==
  ASSUME NEW T, IsTables(T), NEW c \in Command, IsQuery(c)
  PROVE  Answer(T, c) \in AnswerType
<1>1. c.table \in TableType
  BY CommandFields
<1>2. CASE c.op = "Get"
  BY <1>1, <1>2, GetAnswerType DEF AnswerType
<1>3. CASE c.op = "List"
  <2>1. Answer(T, c) \in Contents(c.table)
    BY <1>1, <1>3 DEF Answer, TableList, IsTables
  <2> QED  BY <1>1, <2>1 DEF AnswerType
<1> QED  BY <1>2, <1>3 DEF IsQuery

LEMMA EmptyTablesType == IsTables(EmptyTables)
  BY DEF IsTables, EmptyTables, Contents

-----------------------------------------------------------------------------
(* What the operations on the channel do to it.                            *)

LEMMA EnqueueType ==
  ASSUME TypeOK, NEW c \in Clients, Enqueue(c), pc[c] # "idle"
  PROVE  /\ queue' \in Seq(Entry)
         /\ Len(queue') = Len(queue) + 1
         /\ queue'[Len(queue) + 1] =
              [from |-> c, cmd |-> cmd[c], open |-> IsQuery(cmd[c])]
         /\ \A i \in 1 .. Len(queue) : queue'[i] = queue[i]
<1> DEFINE e == [from |-> c, cmd |-> cmd[c], open |-> IsQuery(cmd[c])]
<1>1. e \in Entry
  BY DEF TypeOK, Entry, IsQuery
<1>2. queue \in Seq(Entry) /\ queue' = Append(queue, e)
  BY DEF TypeOK, Enqueue
<1> HIDE DEF e
<1>3. queue' \in Seq(Entry) /\ Len(queue') = Len(queue) + 1
  BY <1>1, <1>2
<1>4. queue'[Len(queue) + 1] = e /\ \A i \in 1 .. Len(queue) : queue'[i] = queue[i]
  BY <1>1, <1>2
<1> QED  BY <1>3, <1>4 DEF e

LEMMA DropReceiverType ==
  ASSUME TypeOK, NEW c \in Clients, DropReceiver(c)
  PROVE  /\ queue' \in Seq(Entry)
         /\ Len(queue') = Len(queue)
         /\ \A i \in 1 .. Len(queue) :
              /\ queue'[i].from = queue[i].from
              /\ queue'[i].cmd = queue[i].cmd
              /\ queue'[i].open <=> queue[i].open /\ queue[i].from # c
<1>1. queue \in Seq(Entry) /\ DOMAIN queue = 1 .. Len(queue) /\ Len(queue) \in Nat
  BY DEF TypeOK
<1>2. \A i \in 1 .. Len(queue) : queue[i] \in Entry
  BY <1>1
<1>3. /\ DOMAIN queue' = 1 .. Len(queue)
      /\ \A i \in 1 .. Len(queue) :
           queue'[i] = IF queue[i].from = c THEN [queue[i] EXCEPT !.open = FALSE]
                       ELSE queue[i]
  BY <1>1 DEF DropReceiver
<1>4. \A i \in 1 .. Len(queue) :
        /\ queue'[i] \in Entry
        /\ queue'[i].from = queue[i].from
        /\ queue'[i].cmd = queue[i].cmd
        /\ queue'[i].open <=> queue[i].open /\ queue[i].from # c
  BY <1>2, <1>3 DEF Entry
<1>5. queue' = [i \in 1 .. Len(queue) |-> queue'[i]]
  BY <1>1 DEF DropReceiver
<1>6. queue' \in Seq(Entry) /\ Len(queue') = Len(queue)
  BY <1>1, <1>4, <1>5
<1> QED  BY <1>4, <1>6

LEMMA TakeType ==
  ASSUME TypeOK, NEW o, Take(o)
  PROVE  /\ Len(queue) \in Nat \ {0}
         /\ Head(queue) = queue[1]
         /\ queue[1] \in Entry
         /\ queue[1].cmd.op = o
         /\ queue' \in Seq(Entry)
         /\ Len(queue') = Len(queue) - 1
         /\ \A i \in 1 .. Len(queue') : queue'[i] = queue[i + 1]
<1>1. queue \in Seq(Entry) /\ queue # <<>> /\ queue' = Tail(queue)
  BY DEF TypeOK, Take
<1>2. Len(queue) \in Nat \ {0} /\ Head(queue) = queue[1] /\ queue[1] \in Entry
  BY <1>1
<1>3. /\ queue' \in Seq(Entry)
      /\ Len(queue') = Len(queue) - 1
      /\ \A i \in 1 .. Len(queue') : queue'[i] = queue[i + 1]
  BY <1>1, <1>2
<1> QED  BY <1>2, <1>3 DEF Take

-----------------------------------------------------------------------------
(* Type correctness.                                                       *)

LEMMA InitTypeOK == Init => TypeOK
  BY EmptyTablesType, StateServerAssumption DEF Init, TypeOK

LEMMA StepTypeOK == TypeOK /\ [Next]_vars => TypeOK'
<1> SUFFICES ASSUME TypeOK, [Next]_vars PROVE TypeOK'
  OBVIOUS
<1> USE StateServerAssumption
<1>1. ASSUME NEW c \in Clients, NEW command \in Command, Call(c, command)
      PROVE  TypeOK'
  BY <1>1 DEF TypeOK, Call
<1>2. ASSUME NEW c \in Clients, Send(c)
      PROVE  TypeOK'
  <2>1. Enqueue(c) /\ pc[c] # "idle"
    BY <1>2 DEF Send
  <2>2. queue' \in Seq(Entry) /\ Len(queue') = Len(queue) + 1
    BY <2>1, EnqueueType
  <2>3. Len(queue) \in Nat /\ Len(queue) < Capacity
    BY <1>2 DEF Send, TypeOK
  <2>4. Len(queue') <= Capacity
    BY <2>2, <2>3
  <2> QED  BY <1>2, <2>2, <2>4 DEF TypeOK, Send
<1>3. ASSUME NEW c \in Clients, Return(c)
      PROVE  TypeOK'
  BY <1>3 DEF TypeOK, Return
<1>4. ASSUME NEW c \in Clients, Cancel(c)
      PROVE  TypeOK'
  <2>1. queue' \in Seq(Entry) /\ Len(queue') <= Capacity
    BY <1>4, DropReceiverType DEF Cancel, TypeOK
  <2> QED  BY <1>4, <2>1 DEF TypeOK, Cancel
<1>5. ASSUME NEW o, Take(o)
      PROVE  queue' \in Seq(Entry) /\ Len(queue') <= Capacity /\ Head(queue) \in Entry
             /\ Head(queue).cmd \in Command /\ Head(queue).cmd.op = o
  BY <1>5, TakeType DEF TypeOK, Entry
<1>6. CASE HandleAdd
  <2>1. Take("Add")
    BY <1>6 DEF HandleAdd
  <2>2. IsTables(tables')
    BY <1>5, <1>6, <2>1, ApplyType DEF HandleAdd, TypeOK
  <2> QED  BY <1>5, <1>6, <2>1, <2>2 DEF TypeOK, HandleAdd
<1>7. CASE HandleDel
  <2>1. Take("Del")
    BY <1>7 DEF HandleDel
  <2>2. IsTables(tables')
    BY <1>5, <1>7, <2>1, ApplyType DEF HandleDel, TypeOK
  <2> QED  BY <1>5, <1>7, <2>1, <2>2 DEF TypeOK, HandleDel
<1>8. ASSUME NEW value \in AnswerType \cup {Err}, NEW e \in Entry, Reply(e, value)
      PROVE  reply' \in [Clients -> AnswerType \cup {Pending, Err}]
  BY <1>8 DEF TypeOK, Reply, Entry
<1>9. CASE HandleGet
  <2>1. Take("Get")
    BY <1>9 DEF HandleGet
  <2>2. Answer(tables, Head(queue).cmd) \in AnswerType
    BY <1>5, <2>1, QueryAnswerType DEF TypeOK, IsQuery
  <2>3. reply' \in [Clients -> AnswerType \cup {Pending, Err}]
    BY <1>5, <1>8, <1>9, <2>1, <2>2 DEF HandleGet
  <2> QED  BY <1>5, <1>9, <2>1, <2>3 DEF TypeOK, HandleGet
<1>10. CASE HandleList
  <2>1. Take("List")
    BY <1>10 DEF HandleList
  <2>2. Answer(tables, Head(queue).cmd) \in AnswerType
    BY <1>5, <2>1, QueryAnswerType DEF TypeOK, IsQuery
  <2>3. reply' \in [Clients -> AnswerType \cup {Pending, Err}]
    BY <1>5, <1>8, <1>10, <2>1, <2>2 DEF HandleList
  <2> QED  BY <1>5, <1>10, <2>1, <2>3 DEF TypeOK, HandleList
<1>11. CASE PanicInList
  <2>1. Take("List")
    BY <1>11 DEF PanicInList
  <2>2. reply' \in [Clients -> AnswerType \cup {Pending, Err}]
    BY <1>5, <1>8, <1>11, <2>1 DEF PanicInList
  <2> QED  BY <1>5, <1>11, <2>1, <2>2 DEF TypeOK, PanicInList
<1>12. CASE UNCHANGED vars
  BY <1>12 DEF vars, TypeOK
<1> QED
  BY <1>1, <1>2, <1>3, <1>4, <1>6, <1>7, <1>9, <1>10, <1>11, <1>12 DEF Next, Handle

(* Type correctness of the State actor: whatever the clients send, and     *)
(* whenever they give up, the tables hold keys and values of their own     *)
(* kind and the channel stays within its capacity.                         *)
THEOREM TypeCorrect == Spec => []TypeOK
<1>1. Init => TypeOK
  BY InitTypeOK
<1>2. TypeOK /\ [Next]_vars => TypeOK'
  BY StepTypeOK
<1> QED  BY <1>1, <1>2, PTL DEF Spec

-----------------------------------------------------------------------------
(* The inductive invariant of the oneshots, which needs no history.        *)

(* A oneshot that can still be used belongs to a call that waits for it.   *)
OpenEntriesHaveCallers ==
  \A i \in 1 .. Len(queue) :
    LET entry == queue[i]
        c     == entry.from
    IN  entry.open =>
          /\ pc[c] = "waiting"
          /\ reply[c] = Pending
          /\ cmd[c] = entry.cmd
          /\ IsQuery(entry.cmd)

OneshotInv ==
  /\ TypeOK
  /\ OpenEntriesHaveCallers
  /\ OneOpenEntry
  /\ OwedCallsAreOpen
  /\ CallsAreConsistent

LEMMA HistoryHasOneshots == HistoryInv => OneshotInv
  BY DEF HistoryInv, OneshotInv, OpenEntriesAreOwed, OpenEntriesHaveCallers

LEMMA QueryLeavesTables ==
  ASSUME NEW T, NEW c, c.op \in {"Get", "List"}
  PROVE  Apply(T, c) = T
  BY DEF Apply

(* What one iteration of the State task does, whichever command it serves. *)
LEMMA HandleEffect ==
  ASSUME OneshotInv, Handle
  PROVE  LET e == queue[1] IN
         /\ Len(queue) \in Nat \ {0}
         /\ e \in Entry
         /\ queue' \in Seq(Entry)
         /\ Len(queue') = Len(queue) - 1
         /\ \A i \in 1 .. Len(queue') : queue'[i] = queue[i + 1]
         /\ tables' = Apply(tables, e.cmd)
         /\ UNCHANGED <<pc, cmd>>
         /\ e.open =>
              \E v \in AnswerType \cup {Err} :
                /\ reply' = [reply EXCEPT ![e.from] = v]
                /\ \/ v = Answer(tables, e.cmd)
                   \/ /\ MapFaults
                      /\ v = Err
                      /\ e.cmd = [op |-> "List", table |-> "ForwardingTable"]
         /\ ~e.open => reply' = reply
<1> DEFINE e == queue[1]
<1>1. PICK o \in {"Add", "Del", "Get", "List"} : Take(o)
  BY DEF Handle, HandleAdd, HandleDel, HandleGet, HandleList, PanicInList
<1>2. TypeOK
  BY DEF OneshotInv
<1>3. /\ Len(queue) \in Nat \ {0}
      /\ Head(queue) = e
      /\ e \in Entry
      /\ e.cmd.op = o
      /\ queue' \in Seq(Entry)
      /\ Len(queue') = Len(queue) - 1
      /\ \A i \in 1 .. Len(queue') : queue'[i] = queue[i + 1]
  BY <1>1, <1>2, TakeType
<1>4. e.cmd \in Command /\ IsTables(tables) /\ 1 \in 1 .. Len(queue)
  BY <1>2, <1>3 DEF Entry, TypeOK
<1>5. e.open => IsQuery(e.cmd)
  BY <1>4 DEF OneshotInv, OpenEntriesHaveCallers
<1>6. IsQuery(e.cmd) => Answer(tables, e.cmd) \in AnswerType /\ Apply(tables, e.cmd) = tables
  BY <1>4, QueryAnswerType, QueryLeavesTables DEF IsQuery
<1> HIDE DEF e
<1>7. CASE HandleAdd \/ HandleDel
  <2>1. ~e.open
    BY <1>3, <1>5, <1>7 DEF HandleAdd, HandleDel, Take, IsQuery
  <2> QED  BY <1>3, <1>7, <2>1 DEF HandleAdd, HandleDel, e
<1>8. CASE HandleGet \/ HandleList
  <2>1. IsQuery(e.cmd)
    BY <1>3, <1>8 DEF HandleGet, HandleList, Take, IsQuery
  <2>2. reply' = IF e.open THEN [reply EXCEPT ![e.from] = Answer(tables, e.cmd)] ELSE reply
    BY <1>3, <1>8 DEF HandleGet, HandleList, Reply
  <2> QED  BY <1>3, <1>6, <1>8, <2>1, <2>2 DEF HandleGet, HandleList, e
<1>9. CASE PanicInList
  <2>1. IsQuery(e.cmd) /\ MapFaults
    BY <1>3, <1>9 DEF PanicInList, Take, IsQuery
  <2>2. reply' = IF e.open THEN [reply EXCEPT ![e.from] = Err] ELSE reply
    BY <1>3, <1>9 DEF PanicInList, Reply
  <2>3. e.cmd = [op |-> "List", table |-> "ForwardingTable"]
    <3>1. e.cmd.op = "List" /\ e.cmd.table = "ForwardingTable"
      BY <1>3, <1>9 DEF PanicInList, Take
    <3> QED  BY <1>4, <3>1, CommandFields
  <2> QED  BY <1>3, <1>6, <1>9, <2>1, <2>2, <2>3 DEF PanicInList, e
<1> QED  BY <1>7, <1>8, <1>9 DEF Handle

LEMMA SendersAreClients ==
  ASSUME TypeOK, NEW i \in 1 .. Len(queue)
  PROVE  queue[i] \in Entry /\ queue[i].from \in Clients
<1>1. queue \in Seq(Entry)
  BY DEF TypeOK
<1>2. queue[i] \in Entry
  BY <1>1
<1> QED  BY <1>2 DEF Entry

LEMMA InitOneshotInv == Init => OneshotInv
<1> SUFFICES ASSUME Init PROVE OneshotInv
  OBVIOUS
<1>1. TypeOK /\ Len(queue) = 0
  BY InitTypeOK DEF Init
<1>2. OpenEntriesHaveCallers /\ OneOpenEntry
  BY <1>1 DEF OpenEntriesHaveCallers, OneOpenEntry
<1>3. OwedCallsAreOpen /\ CallsAreConsistent
  BY DEF Init, OwedCallsAreOpen, CallsAreConsistent
<1> QED  BY <1>1, <1>2, <1>3 DEF OneshotInv

LEMMA CallerOneshotInv ==
  ASSUME OneshotInv, TypeOK', NEW c \in Clients,
         (\E command \in Command : Call(c, command)) \/ Return(c)
  PROVE  OneshotInv'
<1>1. CASE \E command \in Command : Call(c, command)
  <2> USE DEF OneshotInv, Call
  <2>1. OpenEntriesHaveCallers'
    BY <1>1, SendersAreClients DEF OpenEntriesHaveCallers, TypeOK
  <2>2. OneOpenEntry' /\ OwedCallsAreOpen' /\ CallsAreConsistent'
    BY <1>1 DEF OneOpenEntry, OwedCallsAreOpen, CallsAreConsistent, TypeOK
  <2> QED  BY <2>1, <2>2
<1>2. CASE Return(c)
  <2> USE DEF OneshotInv, Return
  <2>1. OpenEntriesHaveCallers'
    BY <1>2, SendersAreClients DEF OpenEntriesHaveCallers, TypeOK
  <2>2. OneOpenEntry' /\ OwedCallsAreOpen' /\ CallsAreConsistent'
    BY <1>2 DEF OneOpenEntry, OwedCallsAreOpen, CallsAreConsistent, TypeOK
  <2> QED  BY <2>1, <2>2
<1> QED  BY <1>1, <1>2

LEMMA CancelOneshotInv ==
  ASSUME OneshotInv, TypeOK', NEW c \in Clients, Cancel(c)
  PROVE  OneshotInv'
<1> USE DEF OneshotInv, Cancel
<1>1. /\ Len(queue') = Len(queue)
      /\ \A i \in 1 .. Len(queue) :
           /\ queue'[i].from = queue[i].from
           /\ queue'[i].cmd = queue[i].cmd
           /\ queue'[i].open <=> queue[i].open /\ queue[i].from # c
  BY DropReceiverType
<1>2. OpenEntriesHaveCallers'
  BY <1>1, SendersAreClients DEF OpenEntriesHaveCallers, TypeOK
<1>3. OneOpenEntry'
  BY <1>1 DEF OneOpenEntry
<1>4. OwedCallsAreOpen'
  <2> SUFFICES ASSUME NEW d \in Clients, pc'[d] = "waiting", reply'[d] = Pending
               PROVE  \E i \in 1 .. Len(queue) : queue'[i].open /\ queue'[i].from = d
    BY <1>1 DEF OwedCallsAreOpen
  <2>1. d # c /\ pc[d] = "waiting" /\ reply[d] = Pending
    BY DEF TypeOK
  <2> QED  BY <1>1, <2>1 DEF OwedCallsAreOpen
<1>5. CallsAreConsistent'
  BY DEF CallsAreConsistent, TypeOK
<1> QED  BY <1>2, <1>3, <1>4, <1>5

LEMMA SendOneshotInv ==
  ASSUME OneshotInv, TypeOK', NEW c \in Clients, Send(c)
  PROVE  OneshotInv'
<1> DEFINE n == Len(queue)
           e == [from |-> c, cmd |-> cmd[c], open |-> IsQuery(cmd[c])]
<1>1. TypeOK /\ Enqueue(c) /\ pc[c] = "sending" /\ n \in Nat
  BY DEF OneshotInv, Send, TypeOK
<1>2. /\ Len(queue') = n + 1
      /\ queue'[n + 1] = e
      /\ \A i \in 1 .. n : queue'[i] = queue[i] /\ queue[i].from \in Clients
  <2>1. \A i \in 1 .. n : queue[i].from \in Clients
    BY <1>1, SendersAreClients
  <2> QED  BY <1>1, <2>1, EnqueueType
<1>3. \A i \in 1 .. n : ~(queue[i].open /\ queue[i].from = c)
  BY <1>1 DEF OneshotInv, OpenEntriesHaveCallers
<1>4. /\ reply' = reply /\ cmd' = cmd
      /\ pc' = [pc EXCEPT ![c] = IF IsQuery(cmd[c]) THEN "waiting" ELSE "idle"]
      /\ reply[c] = Pending
  BY <1>1 DEF Send, OneshotInv, CallsAreConsistent
<1>5. OpenEntriesHaveCallers'
  <2> SUFFICES ASSUME NEW i \in 1 .. (n + 1), queue'[i].open
               PROVE  LET x == queue'[i]
                          d == x.from
                      IN  /\ pc'[d] = "waiting"
                          /\ reply'[d] = Pending
                          /\ cmd'[d] = x.cmd
                          /\ IsQuery(x.cmd)
    BY <1>2 DEF OpenEntriesHaveCallers
  <2>1. CASE i \in 1 .. n
    BY <1>1, <1>2, <1>3, <1>4, <2>1 DEF OneshotInv, OpenEntriesHaveCallers, TypeOK
  <2>2. CASE i = n + 1
    BY <1>1, <1>2, <1>4, <2>2 DEF TypeOK
  <2> QED  BY <1>1, <2>1, <2>2
<1>6. OneOpenEntry'
  BY <1>1, <1>2, <1>3 DEF OneshotInv, OneOpenEntry
<1>7. OwedCallsAreOpen'
  <2> SUFFICES ASSUME NEW d \in Clients, pc'[d] = "waiting", reply'[d] = Pending
               PROVE  \E i \in 1 .. (n + 1) : queue'[i].open /\ queue'[i].from = d
    BY <1>2 DEF OwedCallsAreOpen
  <2>1. CASE d = c
    BY <1>1, <1>2, <1>4, <2>1 DEF TypeOK
  <2>2. CASE d # c
    BY <1>1, <1>2, <1>4, <2>2 DEF TypeOK, OneshotInv, OwedCallsAreOpen
  <2> QED  BY <2>1, <2>2
<1>8. CallsAreConsistent'
  BY <1>1, <1>4 DEF OneshotInv, CallsAreConsistent, TypeOK
<1> QED  BY <1>5, <1>6, <1>7, <1>8 DEF OneshotInv

LEMMA HandleOneshotInv ==
  ASSUME OneshotInv, TypeOK', Handle
  PROVE  OneshotInv'
<1> DEFINE n == Len(queue)
           e == queue[1]
<1>1. /\ n \in Nat \ {0}
      /\ e \in Entry
      /\ Len(queue') = n - 1
      /\ \A i \in 1 .. (n - 1) : queue'[i] = queue[i + 1]
      /\ UNCHANGED <<pc, cmd>>
      /\ ~e.open => reply' = reply
  BY HandleEffect
<1>2. \A i \in 1 .. (n - 1) : queue[i + 1] \in Entry
  BY <1>1 DEF OneshotInv, TypeOK
<1>3. ASSUME NEW d \in Clients, ~(e.open /\ e.from = d)
      PROVE  reply'[d] = reply[d]
  BY <1>3, HandleEffect DEF OneshotInv, TypeOK
<1>4. e.open => reply'[e.from] # Pending
  <2> SUFFICES ASSUME e.open PROVE reply'[e.from] # Pending
    OBVIOUS
  <2>1. PICK v \in AnswerType \cup {Err} : reply' = [reply EXCEPT ![e.from] = v]
    BY HandleEffect
  <2> QED  BY <1>1, <2>1, StateServerAssumption DEF OneshotInv, TypeOK, Entry
<1>5. OpenEntriesHaveCallers'
  <2> SUFFICES ASSUME NEW i \in 1 .. (n - 1), queue'[i].open
               PROVE  LET x == queue'[i]
                          d == x.from
                      IN  /\ pc'[d] = "waiting"
                          /\ reply'[d] = Pending
                          /\ cmd'[d] = x.cmd
                          /\ IsQuery(x.cmd)
    BY <1>1 DEF OpenEntriesHaveCallers
  <2> DEFINE d == queue[i + 1].from
  <2>1. queue'[i] = queue[i + 1] /\ d \in Clients
    BY <1>1, <1>2 DEF Entry
  <2>2. /\ pc[d] = "waiting"
        /\ reply[d] = Pending
        /\ cmd[d] = queue[i + 1].cmd
        /\ IsQuery(queue[i + 1].cmd)
    BY <1>1, <2>1 DEF OneshotInv, OpenEntriesHaveCallers
  <2>3. ~(e.open /\ e.from = d)
    BY <1>1, <2>1 DEF OneshotInv, OneOpenEntry
  <2> QED  BY <1>1, <1>3, <2>1, <2>2, <2>3
<1>6. OneOpenEntry'
  <2> SUFFICES ASSUME NEW i \in 1 .. (n - 1), NEW j \in 1 .. (n - 1),
                      queue'[i].open, queue'[j].open, queue'[i].from = queue'[j].from
               PROVE  i = j
    BY <1>1 DEF OneOpenEntry
  <2>1. i + 1 = j + 1
    BY <1>1 DEF OneshotInv, OneOpenEntry
  <2> QED  BY <2>1
<1>7. OwedCallsAreOpen'
  <2> SUFFICES ASSUME NEW d \in Clients, pc'[d] = "waiting", reply'[d] = Pending
               PROVE  \E i \in 1 .. (n - 1) : queue'[i].open /\ queue'[i].from = d
    BY <1>1 DEF OwedCallsAreOpen
  <2>1. ~(e.open /\ e.from = d)
    BY <1>4
  <2>2. PICK i \in 1 .. n : queue[i].open /\ queue[i].from = d
    BY <1>1, <1>3, <2>1 DEF OneshotInv, OwedCallsAreOpen
  <2>3. i - 1 \in 1 .. (n - 1) /\ queue'[i - 1] = queue[i]
    BY <1>1, <2>1, <2>2
  <2> QED  BY <2>2, <2>3
<1>8. CallsAreConsistent'
  <2>1. ASSUME NEW d \in Clients, pc[d] = "sending"
        PROVE  reply'[d] = Pending
    BY <1>1, <1>3, <2>1 DEF OneshotInv, CallsAreConsistent, OpenEntriesHaveCallers
  <2> QED  BY <1>1, <2>1 DEF OneshotInv, CallsAreConsistent
<1> QED  BY <1>5, <1>6, <1>7, <1>8 DEF OneshotInv

LEMMA StepOneshotInv == OneshotInv /\ [Next]_vars => OneshotInv'
<1> SUFFICES ASSUME OneshotInv, [Next]_vars PROVE OneshotInv'
  OBVIOUS
<1>1. TypeOK'
  BY StepTypeOK DEF OneshotInv
<1>2. CASE UNCHANGED vars
  BY <1>1, <1>2 DEF vars, OneshotInv, OpenEntriesHaveCallers, OneOpenEntry,
     OwedCallsAreOpen, CallsAreConsistent
<1> QED
  BY <1>1, <1>2, CallerOneshotInv, CancelOneshotInv, SendOneshotInv, HandleOneshotInv
  DEF Next

LEMMA OneshotsCorrect == Spec => []OneshotInv
<1>1. Init => OneshotInv
  BY InitOneshotInv
<1>2. OneshotInv /\ [Next]_vars => OneshotInv'
  BY StepOneshotInv
<1> QED  BY <1>1, <1>2, PTL DEF Spec

(* The history variables change nothing else.                              *)
LEMMA HistoryIsExtra == HSpec => Spec
<1>1. HInit => Init
  BY DEF HInit
<1>2. [HNext]_historyVars => [Next]_vars
  BY DEF HNext, HCall, HSend, HReturn, HCancel, HHandle, Next, historyVars, vars
<1> QED  BY <1>1, <1>2, PTL DEF HSpec, Spec

-----------------------------------------------------------------------------
(* The inductive invariant of the actor with its history.                  *)

LEMMA InitHistoryInv == HInit => HistoryInv
<1> SUFFICES ASSUME HInit PROVE HistoryInv
  OBVIOUS
<1>1. TypeOK /\ Len(queue) = 0 /\ IsTables(tables)
  BY InitTypeOK, EmptyTablesType DEF HInit, Init
<1>2. ViewsFollowTheQueue
  BY <1>1 DEF HInit, ViewsFollowTheQueue
<1>3. OpenEntriesAreOwed /\ OneOpenEntry
  BY <1>1 DEF OpenEntriesAreOwed, OneOpenEntry
<1>4. OwedCallsAreOpen /\ CallsAreConsistent /\ AnswersAreExpected /\ ExpectedType
  BY DEF HInit, Init, OwedCallsAreOpen, CallsAreConsistent, AnswersAreExpected,
         ExpectedType
<1> QED  BY <1>1, <1>2, <1>3, <1>4 DEF HistoryInv

LEMMA CallHistoryInv ==
  ASSUME HistoryInv, TypeOK', NEW c \in Clients, NEW command \in Command,
         HCall(c, command)
  PROVE  HistoryInv'
<1> USE DEF HistoryInv, HCall, Call
<1>1. ViewsFollowTheQueue' /\ ExpectedType'
  BY DEF ViewsFollowTheQueue, ExpectedType
<1>2. OpenEntriesAreOwed'
  BY DEF OpenEntriesAreOwed, TypeOK
<1>3. OneOpenEntry' /\ OwedCallsAreOpen'
  BY DEF OneOpenEntry, OwedCallsAreOpen, TypeOK
<1>4. CallsAreConsistent' /\ AnswersAreExpected'
  BY DEF CallsAreConsistent, AnswersAreExpected, TypeOK
<1> QED  BY <1>1, <1>2, <1>3, <1>4

LEMMA ReturnHistoryInv ==
  ASSUME HistoryInv, TypeOK', NEW c \in Clients, HReturn(c)
  PROVE  HistoryInv'
<1> USE DEF HistoryInv, HReturn, Return, Forget
<1>1. ViewsFollowTheQueue' /\ ExpectedType'
  BY DEF ViewsFollowTheQueue, ExpectedType
<1>2. OpenEntriesAreOwed'
  BY DEF OpenEntriesAreOwed, TypeOK
<1>3. OneOpenEntry' /\ OwedCallsAreOpen'
  BY DEF OneOpenEntry, OwedCallsAreOpen, TypeOK
<1>4. CallsAreConsistent' /\ AnswersAreExpected'
  BY DEF CallsAreConsistent, AnswersAreExpected, TypeOK
<1> QED  BY <1>1, <1>2, <1>3, <1>4

LEMMA CancelHistoryInv ==
  ASSUME HistoryInv, TypeOK', NEW c \in Clients, HCancel(c)
  PROVE  HistoryInv'
<1> USE DEF HistoryInv, HCancel, Cancel, Forget
<1>1. /\ Len(queue') = Len(queue)
      /\ \A i \in 1 .. Len(queue) :
           /\ queue'[i].from = queue[i].from
           /\ queue'[i].cmd = queue[i].cmd
           /\ queue'[i].open <=> queue[i].open /\ queue[i].from # c
  BY DropReceiverType
<1>2. ViewsFollowTheQueue' /\ ExpectedType'
  BY <1>1 DEF ViewsFollowTheQueue, ExpectedType
<1>3. OpenEntriesAreOwed'
  BY <1>1 DEF OpenEntriesAreOwed, TypeOK
<1>4. OneOpenEntry' /\ OwedCallsAreOpen'
  BY <1>1 DEF OneOpenEntry, OwedCallsAreOpen, TypeOK
<1>5. CallsAreConsistent' /\ AnswersAreExpected'
  BY DEF CallsAreConsistent, AnswersAreExpected, TypeOK
<1> QED  BY <1>2, <1>3, <1>4, <1>5

LEMMA SendHistoryInv ==
  ASSUME HistoryInv, TypeOK', NEW c \in Clients, HSend(c)
  PROVE  HistoryInv'
<1> DEFINE n == Len(queue)
           e == [from |-> c, cmd |-> cmd[c], open |-> IsQuery(cmd[c])]
<1>1. TypeOK /\ Enqueue(c) /\ pc[c] = "sending" /\ cmd[c] \in Command /\ n \in Nat
  BY DEF HistoryInv, HSend, Send, TypeOK
<1>2. /\ Len(queue') = n + 1
      /\ queue'[n + 1] = e
      /\ \A i \in 1 .. n : queue'[i] = queue[i]
  BY <1>1, EnqueueType
<1>3. /\ views' = [i \in 0 .. (n + 1) |-> IF i <= n THEN views[i] ELSE Apply(views[n], cmd[c])]
      /\ \A i \in 0 .. n : views'[i] = views[i]
      /\ views'[n + 1] = Apply(views[n], cmd[c])
  BY <1>1 DEF HSend
<1>4. \A i \in 1 .. n : ~(queue[i].open /\ queue[i].from = c)
  BY <1>1 DEF HistoryInv, OpenEntriesAreOwed
<1>5. /\ reply' = reply /\ cmd' = cmd /\ tables' = tables
      /\ pc' = [pc EXCEPT ![c] = IF IsQuery(cmd[c]) THEN "waiting" ELSE "idle"]
      /\ reply[c] = Pending
  BY <1>1 DEF HSend, Send, HistoryInv, CallsAreConsistent
<1>6. /\ IsQuery(cmd[c]) => expected'[c] = Answer(views[n], cmd[c])
      /\ \A d \in Clients \ {c} : expected'[d] = expected[d]
      /\ ExpectedType'
  BY DEF HSend, HistoryInv, ExpectedType
<1>7. ViewsFollowTheQueue'
  <2>1. IsTables(Apply(views[n], cmd[c]))
    BY <1>1, ApplyType DEF HistoryInv, ViewsFollowTheQueue
  <2>2. \A i \in 0 .. (n + 1) : IsTables(views'[i])
    BY <1>1, <1>3, <2>1 DEF HistoryInv, ViewsFollowTheQueue
  <2>3. \A i \in 1 .. (n + 1) : views'[i] = Apply(views'[i - 1], queue'[i].cmd)
    <3>1. ASSUME NEW i \in 1 .. n
          PROVE  views'[i] = Apply(views'[i - 1], queue'[i].cmd)
      <4>1. views[i] = Apply(views[i - 1], queue[i].cmd)
        BY DEF HistoryInv, ViewsFollowTheQueue
      <4>2. i \in 0 .. n /\ i - 1 \in 0 .. n
        BY <1>1
      <4>3. views'[i] = views[i] /\ views'[i - 1] = views[i - 1] /\ queue'[i] = queue[i]
        BY <1>2, <1>3, <4>2
      <4> QED  BY <4>1, <4>3
    <3>2. views'[n + 1] = Apply(views'[(n + 1) - 1], queue'[n + 1].cmd)
      BY <1>1, <1>2, <1>3
    <3> QED  BY <1>1, <3>1, <3>2
  <2>4. views' = [i \in 0 .. (n + 1) |-> views'[i]]
    BY <1>3
  <2>5. views'[0] = tables'
    BY <1>1, <1>3, <1>5 DEF HistoryInv, ViewsFollowTheQueue
  <2> QED  BY <1>2, <2>2, <2>3, <2>4, <2>5 DEF ViewsFollowTheQueue
<1>8. OpenEntriesAreOwed'
  <2> SUFFICES ASSUME NEW i \in 1 .. (n + 1), queue'[i].open
               PROVE  LET x == queue'[i]
                          d == x.from
                      IN  /\ pc'[d] = "waiting"
                          /\ reply'[d] = Pending
                          /\ cmd'[d] = x.cmd
                          /\ IsQuery(x.cmd)
                          /\ expected'[d] = Answer(views'[i - 1], x.cmd)
    BY <1>2 DEF OpenEntriesAreOwed
  <2>1. CASE i \in 1 .. n
    <3>1. /\ queue'[i] = queue[i]
          /\ queue[i].from \in Clients \ {c}
          /\ views'[i - 1] = views[i - 1]
      <4>1. queue'[i] = queue[i] /\ queue[i].open
        BY <1>2, <2>1
      <4>2. queue[i].from # c
        BY <1>4, <2>1, <4>1
      <4>3. queue[i].from \in Clients
        <5>1. queue \in Seq(Entry)
          BY <1>1 DEF TypeOK
        <5>2. queue[i] \in Entry
          BY <2>1, <5>1
        <5> QED  BY <5>2 DEF Entry
      <4>4. i - 1 \in 0 .. n
        BY <1>1, <2>1
      <4> QED  BY <1>3, <4>1, <4>2, <4>3, <4>4
    <3> QED  BY <1>1, <1>5, <1>6, <2>1, <3>1 DEF HistoryInv, OpenEntriesAreOwed, TypeOK
  <2>2. CASE i = n + 1
    BY <1>1, <1>2, <1>3, <1>5, <1>6, <2>2 DEF TypeOK
  <2> QED  BY <1>1, <2>1, <2>2
<1>9. OneOpenEntry'
  BY <1>1, <1>2, <1>4 DEF HistoryInv, OneOpenEntry
<1>10. OwedCallsAreOpen'
  <2> SUFFICES ASSUME NEW d \in Clients, pc'[d] = "waiting", reply'[d] = Pending
               PROVE  \E i \in 1 .. (n + 1) : queue'[i].open /\ queue'[i].from = d
    BY <1>2 DEF OwedCallsAreOpen
  <2>1. CASE d = c
    BY <1>1, <1>2, <1>5, <2>1 DEF TypeOK
  <2>2. CASE d # c
    BY <1>1, <1>2, <1>5, <2>2 DEF TypeOK, HistoryInv, OwedCallsAreOpen
  <2> QED  BY <2>1, <2>2
<1>11. CallsAreConsistent' /\ AnswersAreExpected'
  BY <1>1, <1>5, <1>6 DEF HistoryInv, CallsAreConsistent, AnswersAreExpected, TypeOK
<1> QED  BY <1>6, <1>7, <1>8, <1>9, <1>10, <1>11 DEF HistoryInv

LEMMA HandleHistoryInv ==
  ASSUME HistoryInv, TypeOK', HHandle
  PROVE  HistoryInv'
<1> DEFINE n == Len(queue)
           e == queue[1]
<1>1. /\ n \in Nat \ {0}
      /\ e \in Entry
      /\ Len(queue') = n - 1
      /\ \A i \in 1 .. (n - 1) : queue'[i] = queue[i + 1]
      /\ tables' = Apply(tables, e.cmd)
      /\ UNCHANGED <<pc, cmd>>
      /\ ~e.open => reply' = reply
  BY HandleEffect, HistoryHasOneshots DEF HHandle
<1>2. /\ \A i \in 0 .. (n - 1) : views'[i] = views[i + 1]
      /\ views' = [i \in 0 .. (n - 1) |-> views'[i]]
      /\ expected' = expected
  BY DEF HHandle
<1>3. \A i \in 1 .. (n - 1) : queue[i + 1] \in Entry
  BY <1>1 DEF HistoryInv, TypeOK
<1>4. ASSUME NEW d \in Clients, ~(e.open /\ e.from = d)
      PROVE  reply'[d] = reply[d]
  BY <1>4, HandleEffect, HistoryHasOneshots DEF HHandle, HistoryInv, TypeOK
<1>5. e.open => /\ e.from \in Clients
                /\ reply'[e.from] # Pending
                /\ \/ reply'[e.from] = expected[e.from]
                   \/ /\ MapFaults
                      /\ reply'[e.from] = Err
                      /\ cmd[e.from] = [op |-> "List", table |-> "ForwardingTable"]
  <2> SUFFICES ASSUME e.open
               PROVE  /\ e.from \in Clients
                      /\ reply'[e.from] # Pending
                      /\ \/ reply'[e.from] = expected[e.from]
                         \/ /\ MapFaults
                            /\ reply'[e.from] = Err
                            /\ cmd[e.from] = [op |-> "List", table |-> "ForwardingTable"]
    OBVIOUS
  <2>1. PICK v \in AnswerType \cup {Err} :
          /\ reply' = [reply EXCEPT ![e.from] = v]
          /\ \/ v = Answer(tables, e.cmd)
             \/ /\ MapFaults
                /\ v = Err
                /\ e.cmd = [op |-> "List", table |-> "ForwardingTable"]
    BY HandleEffect, HistoryHasOneshots DEF HHandle
  <2>2. e.from \in Clients /\ reply'[e.from] = v /\ v # Pending
    BY <1>1, <2>1, StateServerAssumption DEF HistoryInv, TypeOK, Entry
  <2>3. cmd[e.from] = e.cmd /\ expected[e.from] = Answer(views[1 - 1], e.cmd)
    BY <1>1 DEF HistoryInv, OpenEntriesAreOwed
  <2>4. views[1 - 1] = tables
    BY DEF HistoryInv, ViewsFollowTheQueue
  <2> QED  BY <2>1, <2>2, <2>3, <2>4
<1>6. ViewsFollowTheQueue'
  <2>0. /\ views[0] = tables
        /\ \A i \in 0 .. n : IsTables(views[i])
        /\ \A i \in 1 .. n : views[i] = Apply(views[i - 1], queue[i].cmd)
    BY DEF HistoryInv, ViewsFollowTheQueue
  <2>1. 1 \in 1 .. n /\ 0 \in 0 .. (n - 1)
    BY <1>1
  <2>2. views'[0] = tables'
    <3>1. views[1] = Apply(views[1 - 1], e.cmd)
      BY <2>0, <2>1
    <3>2. views'[0] = views[0 + 1]
      BY <1>2, <2>1
    <3> QED  BY <1>1, <2>0, <3>1, <3>2
  <2>3. ASSUME NEW i \in 0 .. (n - 1)
        PROVE  IsTables(views'[i])
    <3>1. i + 1 \in 0 .. n
      BY <1>1
    <3>2. IsTables(views[i + 1])
      BY <2>0, <3>1
    <3> QED  BY <1>2, <3>2
  <2>4. ASSUME NEW i \in 1 .. (n - 1)
        PROVE  views'[i] = Apply(views'[i - 1], queue'[i].cmd)
    <3>1. i + 1 \in 1 .. n /\ i \in 0 .. (n - 1) /\ i - 1 \in 0 .. (n - 1)
      BY <1>1
    <3>2. views[i + 1] = Apply(views[(i + 1) - 1], queue[i + 1].cmd)
      BY <2>0, <3>1
    <3>3. views'[i] = views[i + 1] /\ views'[i - 1] = views[(i - 1) + 1]
      BY <1>2, <3>1
    <3>4. (i - 1) + 1 = (i + 1) - 1
      OBVIOUS
    <3> QED  BY <1>1, <3>2, <3>3, <3>4
  <2> QED  BY <1>1, <1>2, <2>2, <2>3, <2>4 DEF ViewsFollowTheQueue
<1>7. OpenEntriesAreOwed'
  <2> SUFFICES ASSUME NEW i \in 1 .. (n - 1), queue'[i].open
               PROVE  LET x == queue'[i]
                          d == x.from
                      IN  /\ pc'[d] = "waiting"
                          /\ reply'[d] = Pending
                          /\ cmd'[d] = x.cmd
                          /\ IsQuery(x.cmd)
                          /\ expected'[d] = Answer(views'[i - 1], x.cmd)
    BY <1>1 DEF OpenEntriesAreOwed
  <2> DEFINE d == queue[i + 1].from
  <2>1. queue'[i] = queue[i + 1] /\ d \in Clients /\ views'[i - 1] = views[(i + 1) - 1]
    BY <1>1, <1>2, <1>3 DEF Entry
  <2>2. /\ pc[d] = "waiting"
        /\ reply[d] = Pending
        /\ cmd[d] = queue[i + 1].cmd
        /\ IsQuery(queue[i + 1].cmd)
        /\ expected[d] = Answer(views[(i + 1) - 1], queue[i + 1].cmd)
    BY <1>1, <2>1 DEF HistoryInv, OpenEntriesAreOwed
  <2>3. ~(e.open /\ e.from = d)
    BY <1>1, <2>1 DEF HistoryInv, OneOpenEntry
  <2> QED  BY <1>1, <1>2, <1>4, <2>1, <2>2, <2>3
<1>8. OneOpenEntry'
  <2> SUFFICES ASSUME NEW i \in 1 .. (n - 1), NEW j \in 1 .. (n - 1),
                      queue'[i].open, queue'[j].open, queue'[i].from = queue'[j].from
               PROVE  i = j
    BY <1>1 DEF OneOpenEntry
  <2>1. i + 1 = j + 1
    BY <1>1 DEF HistoryInv, OneOpenEntry
  <2> QED  BY <2>1
<1>9. OwedCallsAreOpen'
  <2> SUFFICES ASSUME NEW d \in Clients, pc'[d] = "waiting", reply'[d] = Pending
               PROVE  \E i \in 1 .. (n - 1) : queue'[i].open /\ queue'[i].from = d
    BY <1>1 DEF OwedCallsAreOpen
  <2>1. ~(e.open /\ e.from = d)
    BY <1>5
  <2>2. PICK i \in 1 .. n : queue[i].open /\ queue[i].from = d
    BY <1>1, <1>4, <2>1 DEF HistoryInv, OwedCallsAreOpen
  <2>3. i - 1 \in 1 .. (n - 1) /\ queue'[i - 1] = queue[i]
    BY <1>1, <2>1, <2>2
  <2> QED  BY <2>2, <2>3
<1>10. CallsAreConsistent'
  <2>1. ASSUME NEW d \in Clients, pc[d] = "sending"
        PROVE  reply'[d] = Pending
    BY <1>1, <1>4, <2>1 DEF HistoryInv, CallsAreConsistent, OpenEntriesAreOwed
  <2> QED  BY <1>1, <2>1 DEF HistoryInv, CallsAreConsistent
<1>11. AnswersAreExpected'
  <2> SUFFICES ASSUME NEW d \in Clients, pc[d] = "waiting", reply'[d] # Pending
               PROVE  \/ reply'[d] = expected[d]
                      \/ /\ MapFaults
                         /\ reply'[d] = Err
                         /\ cmd[d] = [op |-> "List", table |-> "ForwardingTable"]
    BY <1>1, <1>2 DEF AnswersAreExpected
  <2>1. CASE e.open /\ e.from = d
    BY <1>5, <2>1
  <2>2. CASE ~(e.open /\ e.from = d)
    BY <1>4, <2>2 DEF HistoryInv, AnswersAreExpected
  <2> QED  BY <2>1, <2>2
<1>12. ExpectedType'
  BY <1>2 DEF HistoryInv, ExpectedType
<1> QED  BY <1>6, <1>7, <1>8, <1>9, <1>10, <1>11, <1>12 DEF HistoryInv

LEMMA StepHistoryInv == HistoryInv /\ [HNext]_historyVars => HistoryInv'
<1> SUFFICES ASSUME HistoryInv, [HNext]_historyVars PROVE HistoryInv'
  OBVIOUS
<1>1. TypeOK'
  <2>1. [Next]_vars
    BY DEF HNext, HCall, HSend, HReturn, HCancel, HHandle, Next, historyVars, vars
  <2> QED  BY <2>1, StepTypeOK DEF HistoryInv
<1>2. ASSUME NEW c \in Clients, NEW command \in Command, HCall(c, command)
      PROVE  HistoryInv'
  BY <1>1, <1>2, CallHistoryInv
<1>3. ASSUME NEW c \in Clients, HSend(c)
      PROVE  HistoryInv'
  BY <1>1, <1>3, SendHistoryInv
<1>4. ASSUME NEW c \in Clients, HReturn(c)
      PROVE  HistoryInv'
  BY <1>1, <1>4, ReturnHistoryInv
<1>5. ASSUME NEW c \in Clients, HCancel(c)
      PROVE  HistoryInv'
  BY <1>1, <1>5, CancelHistoryInv
<1>6. CASE HHandle
  BY <1>1, <1>6, HandleHistoryInv
<1>7. CASE UNCHANGED historyVars
  BY <1>1, <1>7 DEF historyVars, HistoryInv, ExpectedType, ViewsFollowTheQueue,
     OpenEntriesAreOwed, OneOpenEntry, OwedCallsAreOpen, CallsAreConsistent,
     AnswersAreExpected
<1> QED  BY <1>2, <1>3, <1>4, <1>5, <1>6, <1>7 DEF HNext

(* The tables that the commands in the channel lead to, the oneshots that  *)
(* are still owed an answer, and the answers already given agree with each *)
(* other in every reachable state, whatever the clients do and wherever    *)
(* the State task dies.                                                    *)
THEOREM HistoryCorrect == HSpec => []HistoryInv
<1>1. HInit => HistoryInv
  BY InitHistoryInv
<1>2. HistoryInv /\ [HNext]_historyVars => HistoryInv'
  BY StepHistoryInv
<1> QED  BY <1>1, <1>2, PTL DEF HSpec

-----------------------------------------------------------------------------
(* The abstract store is built from the same operators.                    *)

LEMMA SameOperators ==
  /\ Store!Command = Command
  /\ Store!EmptyTables = EmptyTables
  /\ \A c : Store!IsQuery(c) = IsQuery(c)
  /\ \A T, c : Store!Apply(T, c) = Apply(T, c)
  /\ \A T, c : Store!Answer(T, c) = Answer(T, c)
<1> USE DEF Store!TableType, TableType, Store!Keys, Keys, Store!Values, Values
<1>1. Store!Command = Command
  BY DEF Store!Command, Command, Store!AddCommand, AddCommand, Store!DelCommand,
     DelCommand, Store!GetCommand, GetCommand, Store!ListCommand, ListCommand
<1>2. Store!EmptyTables = EmptyTables
  BY DEF Store!EmptyTables, EmptyTables
<1>3. \A c : Store!IsQuery(c) = IsQuery(c)
  BY DEF Store!IsQuery, IsQuery
<1>4. \A e, k, v : Store!TrieUpdate(e, k, v) = TrieUpdate(e, k, v)
  <2>1. \A e, k : Store!TrieAccepts(e, k) = TrieAccepts(e, k)
    BY Zenon DEF Store!TrieAccepts, TrieAccepts, Store!Width, Width, Store!Stored,
       Stored, Store!Cardinality, Cardinality, Store!IsFiniteSet, IsFiniteSet
  <2>2. \A p, q : Store!SameNode(p, q) = SameNode(p, q)
    BY DEF Store!SameNode, SameNode, Store!SameTrieBits, SameTrieBits,
       Store!TrieBit, TrieBit
  <2> QED  BY <2>1, <2>2, Zenon DEF Store!TrieUpdate, TrieUpdate
<1>5. \A e, k : Store!TrieDelete(e, k) = TrieDelete(e, k)
  BY DEF Store!TrieDelete, TrieDelete, Store!Width, Width, Store!SameNode, SameNode,
     Store!SameTrieBits, SameTrieBits, Store!TrieBit, TrieBit
<1>6. \A e, k : Store!TrieLookup(e, k) = TrieLookup(e, k)
  BY DEF Store!TrieLookup, TrieLookup, Store!Width, Width, Store!Stored, Stored,
     Store!Answers, Answers, Store!Longest, Longest, Store!SameTrieBits,
     SameTrieBits, Store!TrieBit, TrieBit
<1>7. \A T, c : Store!Apply(T, c) = Apply(T, c)
  BY <1>4, <1>5 DEF Store!Apply, Apply, Store!TableAdd, TableAdd,
     Store!TableRemove, TableRemove, Store!MapAdd, MapAdd, Store!MapRemove, MapRemove
<1>8. \A T, c : Store!Answer(T, c) = Answer(T, c)
  BY <1>6 DEF Store!Answer, Answer, Store!TableGet, TableGet, Store!MapGet, MapGet,
     Store!TableList, TableList
<1> QED  BY <1>1, <1>2, <1>3, <1>7, <1>8

-----------------------------------------------------------------------------
(* Every step of the actor is a step of the store, or none.                *)

LEMMA PhaseValues ==
  Phase["idle"] = "idle" /\ Phase["sending"] = "invoked" /\ Phase["waiting"] = "performed"
  BY DEF Phase

LEMMA PhaseChange ==
  ASSUME TypeOK, NEW c \in Clients, NEW p, pc' = [pc EXCEPT ![c] = p]
  PROVE  [d \in Clients |-> Phase[pc'[d]]] =
           [[d \in Clients |-> Phase[pc[d]]] EXCEPT ![c] = Phase[p]]
<1>1. pc = [d \in Clients |-> pc[d]]
  BY DEF TypeOK
<1>2. \A d \in Clients : pc'[d] = IF d = c THEN p ELSE pc[d]
  BY <1>1
<1> DEFINE old == [d \in Clients |-> Phase[pc[d]]]
           new == [d \in Clients |-> Phase[pc'[d]]]
<1>3. \A d \in Clients : new[d] = IF d = c THEN Phase[p] ELSE old[d]
  BY <1>2
<1>4. DOMAIN new = Clients /\ DOMAIN old = Clients
  OBVIOUS
<1>5. new = [d \in Clients |-> new[d]]
  OBVIOUS
<1> HIDE DEF new, old
<1>6. new = [old EXCEPT ![c] = Phase[p]]
  BY <1>3, <1>4, <1>5
<1> QED  BY <1>6 DEF new, old

LEMMA CallRefines ==
  ASSUME HistoryInv, NEW c \in Clients, NEW command \in Command, HCall(c, command)
  PROVE  Store!Invoke(c, command)
<1> USE DEF HCall, Call, HistoryInv, TypeOK
<1>1. \A d \in Clients : pc'[d] = IF d = c THEN "sending" ELSE pc[d]
  OBVIOUS
<1> QED  BY <1>1, PhaseChange, PhaseValues DEF Store!Invoke, HistoryInv

LEMMA SendUpdateRefines ==
  ASSUME HistoryInv, NEW c \in Clients, HSend(c), ~IsQuery(cmd[c])
  PROVE  Store!PerformUpdate(c)
<1>1. /\ pc[c] = "sending" /\ reply[c] = Pending
      /\ pc' = [pc EXCEPT ![c] = "idle"]
      /\ cmd' = cmd /\ reply' = reply /\ expected' = expected
  BY DEF HSend, Send, HistoryInv, CallsAreConsistent
<1>2. views'[Len(queue')] = Apply(views[Len(queue)], cmd[c])
  <2>1. TypeOK /\ Enqueue(c) /\ Len(queue) \in Nat
    BY DEF HSend, Send, HistoryInv, TypeOK
  <2>2. Len(queue') = Len(queue) + 1
    BY <1>1, <2>1, EnqueueType
  <2> QED  BY <2>1, <2>2 DEF HSend
<1>3. pc \in [Clients -> {"idle", "sending", "waiting"}]
  BY DEF HistoryInv, TypeOK
<1> QED  BY <1>1, <1>2, <1>3, SameOperators, PhaseChange, PhaseValues DEF Store!PerformUpdate, HistoryInv

LEMMA SendQueryRefines ==
  ASSUME HistoryInv, NEW c \in Clients, HSend(c), IsQuery(cmd[c])
  PROVE  Store!PerformQuery(c)
<1>1. /\ pc[c] = "sending" /\ reply[c] = Pending
      /\ pc' = [pc EXCEPT ![c] = "waiting"]
      /\ cmd' = cmd /\ reply' = reply
      /\ expected' = [expected EXCEPT ![c] = Answer(views[Len(queue)], cmd[c])]
  BY DEF HSend, Send, HistoryInv, CallsAreConsistent
<1>2. views'[Len(queue')] = views[Len(queue)]
  <2>1. TypeOK /\ Enqueue(c) /\ Len(queue) \in Nat
    BY DEF HSend, Send, HistoryInv, TypeOK
  <2>2. Len(queue') = Len(queue) + 1
    BY <1>1, <2>1, EnqueueType
  <2>3. views'[Len(queue')] = Apply(views[Len(queue)], cmd[c])
    BY <2>1, <2>2 DEF HSend
  <2> QED  BY <2>3, QueryLeavesTables DEF IsQuery
<1>3. pc \in [Clients -> {"idle", "sending", "waiting"}]
  BY DEF HistoryInv, TypeOK
<1> QED  BY <1>1, <1>2, <1>3, SameOperators, PhaseChange, PhaseValues DEF Store!PerformQuery, HistoryInv

LEMMA ReturnRefines ==
  ASSUME HistoryInv, NEW c \in Clients, HReturn(c)
  PROVE  Store!ReturnAnswer(c) \/ Store!ReturnError(c)
<1>1. /\ pc[c] = "waiting" /\ reply[c] # Pending
      /\ pc' = [pc EXCEPT ![c] = "idle"]
      /\ expected' = [expected EXCEPT ![c] = Pending]
      /\ UNCHANGED <<queue, cmd, reply, views>>
  BY DEF HReturn, Return, Forget
<1>2. /\ pc \in [Clients -> {"idle", "sending", "waiting"}]
      /\ expected = [d \in Clients |-> expected[d]]
  BY DEF HistoryInv, TypeOK, ExpectedType
<1>3. \/ reply[c] = expected[c]
      \/ /\ MapFaults
         /\ reply[c] = Err
         /\ cmd[c] = [op |-> "List", table |-> "ForwardingTable"]
  BY <1>1 DEF HistoryInv, AnswersAreExpected
<1>4. CASE reply[c] = expected[c]
  BY <1>1, <1>2, <1>4, PhaseChange, PhaseValues DEF Store!ReturnAnswer, HistoryInv
<1>5. CASE /\ MapFaults
           /\ reply[c] = Err
           /\ cmd[c] = [op |-> "List", table |-> "ForwardingTable"]
  BY <1>1, <1>2, <1>5, PhaseChange, PhaseValues DEF Store!ReturnError, HistoryInv
<1> QED  BY <1>3, <1>4, <1>5

LEMMA CancelRefines ==
  ASSUME HistoryInv, NEW c \in Clients, HCancel(c)
  PROVE  Store!Abandon(c)
<1>1. /\ pc[c] \in {"sending", "waiting"}
      /\ pc' = [pc EXCEPT ![c] = "idle"]
      /\ reply' = [reply EXCEPT ![c] = Pending]
      /\ expected' = [expected EXCEPT ![c] = Pending]
      /\ UNCHANGED <<cmd, views>>
      /\ pc \in [Clients -> {"idle", "sending", "waiting"}]
      /\ reply = [d \in Clients |-> reply[d]]
  BY DEF HCancel, Cancel, Forget, HistoryInv, TypeOK
<1>2. Len(queue') = Len(queue)
  BY DropReceiverType DEF HCancel, Cancel, HistoryInv
<1> QED  BY <1>1, <1>2, PhaseChange, PhaseValues DEF Store!Abandon, HistoryInv

LEMMA HandleRefines ==
  ASSUME HistoryInv, HHandle
  PROVE  UNCHANGED Store!storeVars
<1>1. /\ Len(queue) \in Nat \ {0}
      /\ Len(queue') = Len(queue) - 1
      /\ pc' = pc /\ cmd' = cmd /\ expected' = expected
  BY HandleEffect, HistoryHasOneshots DEF HHandle
<1>2. views'[Len(queue')] = views[Len(queue)]
  BY <1>1 DEF HHandle
<1>3. \A d \in Clients : pc[d] = "idle" => reply'[d] = reply[d]
  <2> DEFINE e == queue[1]
  <2>1. CASE ~e.open
    BY <2>1, HandleEffect, HistoryHasOneshots DEF HHandle
  <2>2. CASE e.open
    <3>1. pc[e.from] = "waiting"
      BY <1>1, <2>2 DEF HistoryInv, OpenEntriesAreOwed
    <3>2. \E v : reply' = [reply EXCEPT ![e.from] = v]
      BY <2>2, HandleEffect, HistoryHasOneshots DEF HHandle
    <3> QED  BY <3>1, <3>2 DEF HistoryInv, TypeOK
  <2> QED  BY <2>1, <2>2
<1> QED  BY <1>1, <1>2, <1>3 DEF Store!storeVars

LEMMA StepRefines ==
  HistoryInv /\ [HNext]_historyVars => [Store!StoreNext]_(Store!storeVars)
<1> SUFFICES ASSUME HistoryInv, [HNext]_historyVars
             PROVE  Store!StoreNext \/ UNCHANGED Store!storeVars
  OBVIOUS
<1>1. ASSUME NEW c \in Clients, NEW command \in Command, HCall(c, command)
      PROVE  Store!StoreNext
  BY <1>1, CallRefines, SameOperators DEF Store!StoreNext
<1>2. ASSUME NEW c \in Clients, HSend(c)
      PROVE  Store!StoreNext
  BY <1>2, SendUpdateRefines, SendQueryRefines DEF Store!StoreNext
<1>3. ASSUME NEW c \in Clients, HReturn(c)
      PROVE  Store!StoreNext
  BY <1>3, ReturnRefines DEF Store!StoreNext
<1>4. ASSUME NEW c \in Clients, HCancel(c)
      PROVE  Store!StoreNext
  BY <1>4, CancelRefines DEF Store!StoreNext
<1>5. CASE UNCHANGED historyVars
  BY <1>5 DEF historyVars, Store!storeVars
<1> QED  BY <1>1, <1>2, <1>3, <1>4, <1>5, HandleRefines DEF HNext

LEMMA InitRefines == HInit => Store!StoreInit
<1> SUFFICES ASSUME HInit PROVE Store!StoreInit
  OBVIOUS
<1>1. Len(queue) = 0 /\ views[0] = tables /\ tables = EmptyTables
  BY DEF HInit, Init
<1> QED  BY <1>1, SameOperators DEF HInit, Init, Store!StoreInit, Phase

(* The actor implements the atomic tables: an add or a del takes effect    *)
(* when it returns, a query reads one state of the tables that the latest  *)
(* returned add or del of any client is part of, for any number of clients *)
(* and any capacity of the channel.                                        *)
THEOREM ActorIsLinearizable == HSpec => Linearizable
<1>1. HInit => Store!StoreInit
  BY InitRefines
<1>2. HistoryInv /\ [HNext]_historyVars => [Store!StoreNext]_(Store!storeVars)
  BY StepRefines
<1> QED  BY <1>1, <1>2, HistoryCorrect, PTL DEF HSpec, Linearizable, Store!StoreSpec

-----------------------------------------------------------------------------
(* Oneshots.                                                               *)

(* A waiting call owns exactly one oneshot in the channel, with its own    *)
(* command, and a call that gave up owns none: StateClient::get is never   *)
(* handed the answer to another question and never forgotten.              *)
THEOREM OneOneshotCorrect == Spec => []OneOneshotPerWaitingCall
<1>1. OneshotInv => OneOneshotPerWaitingCall
  <2> SUFFICES ASSUME OneshotInv, NEW c \in Clients
               PROVE  LET owed == pc[c] = "waiting" /\ reply[c] = Pending
                      IN  /\ Cardinality(OpenEntries(c)) = (IF owed THEN 1 ELSE 0)
                          /\ \A i \in OpenEntries(c) : queue[i].cmd = cmd[c] /\ IsQuery(cmd[c])
    BY DEF OneOneshotPerWaitingCall
  <2>1. DOMAIN queue = 1 .. Len(queue)
    BY DEF OneshotInv, TypeOK
  <2>2. \A i \in OpenEntries(c) :
          /\ i \in 1 .. Len(queue) /\ queue[i].from = c /\ queue[i].open
          /\ pc[c] = "waiting" /\ reply[c] = Pending
          /\ queue[i].cmd = cmd[c] /\ IsQuery(cmd[c])
    BY <2>1 DEF OpenEntries, OneshotInv, OpenEntriesHaveCallers
  <2>3. CASE pc[c] = "waiting" /\ reply[c] = Pending
    <3>1. PICK i \in 1 .. Len(queue) : queue[i].open /\ queue[i].from = c
      BY <2>3 DEF OneshotInv, OwedCallsAreOpen
    <3>2. OpenEntries(c) = {i}
      BY <2>1, <2>2, <3>1 DEF OpenEntries, OneshotInv, OneOpenEntry
    <3>3. Cardinality(OpenEntries(c)) = 1
      BY <3>2, FS_Singleton
    <3> QED  BY <2>2, <2>3, <3>3
  <2>4. CASE ~(pc[c] = "waiting" /\ reply[c] = Pending)
    <3>1. OpenEntries(c) = {}
      BY <2>2, <2>4
    <3>2. Cardinality(OpenEntries(c)) = 0
      BY <3>1, FS_EmptySet
    <3> QED  BY <2>2, <2>4, <3>2
  <2> QED  BY <2>3, <2>4
<1> QED  BY <1>1, OneshotsCorrect, PTL

LEMMA StepAnswerIsOfTheTable ==
  OneshotInv /\ AnswerIsOfTheTable /\ [Next]_vars => AnswerIsOfTheTable'
<1> SUFFICES ASSUME OneshotInv, AnswerIsOfTheTable, [Next]_vars,
                    NEW d \in Clients, reply'[d] \in AnswerType, cmd'[d].op = "Get"
             PROVE  reply'[d] \in Values[cmd'[d].table] \cup {None}
  BY DEF AnswerIsOfTheTable
<1> USE StateServerAssumption
<1>1. TypeOK
  BY DEF OneshotInv
<1>2. ASSUME NEW c \in Clients, NEW command \in Command, Call(c, command)
      PROVE  reply'[d] \in Values[cmd'[d].table] \cup {None}
  BY <1>1, <1>2 DEF AnswerIsOfTheTable, Call, TypeOK
<1>3. ASSUME NEW c \in Clients, Send(c)
      PROVE  reply'[d] \in Values[cmd'[d].table] \cup {None}
  BY <1>3 DEF AnswerIsOfTheTable, Send
<1>4. ASSUME NEW c \in Clients, Return(c)
      PROVE  reply'[d] \in Values[cmd'[d].table] \cup {None}
  BY <1>4 DEF AnswerIsOfTheTable, Return
<1>5. ASSUME NEW c \in Clients, Cancel(c)
      PROVE  reply'[d] \in Values[cmd'[d].table] \cup {None}
  BY <1>1, <1>5 DEF AnswerIsOfTheTable, Cancel, TypeOK
<1>6. CASE Handle
  <2> DEFINE e == queue[1]
  <2>1. cmd' = cmd /\ e \in Entry /\ Len(queue) \in Nat \ {0}
    BY <1>6, HandleEffect
  <2>2. CASE e.open /\ e.from = d
    <3>1. PICK v \in AnswerType \cup {Err} :
            /\ reply' = [reply EXCEPT ![e.from] = v]
            /\ v = Answer(tables, e.cmd) \/ v = Err
      BY <1>6, <2>2, HandleEffect
    <3>2. v = Answer(tables, e.cmd) /\ reply'[d] = v
      BY <1>1, <2>2, <3>1 DEF TypeOK
    <3>3. cmd[d] = e.cmd
      BY <2>1, <2>2 DEF OneshotInv, OpenEntriesHaveCallers
    <3>4. e.cmd \in Command /\ IsTables(tables) /\ e.cmd.op = "Get"
      BY <1>1, <2>1, <3>3 DEF TypeOK, Entry
    <3> QED  BY <2>1, <3>2, <3>3, <3>4, GetAnswerType
  <2>3. CASE ~(e.open /\ e.from = d)
    <3>1. reply'[d] = reply[d]
      BY <1>1, <1>6, <2>3, HandleEffect DEF TypeOK
    <3> QED  BY <2>1, <3>1 DEF AnswerIsOfTheTable
  <2> QED  BY <2>2, <2>3
<1>7. CASE UNCHANGED vars
  BY <1>7 DEF AnswerIsOfTheTable, vars
<1> QED  BY <1>2, <1>3, <1>4, <1>5, <1>6, <1>7 DEF Next

(* A get is answered with what its own table can hold or with nothing, for *)
(* every set of clients: Value::into never meets the "Value is not a       *)
(* Neighbor" it panics on.                                                 *)
THEOREM AnswersMatchTheirTable == Spec => []AnswerIsOfTheTable
<1>1. Init => AnswerIsOfTheTable
  BY StateServerAssumption DEF Init, AnswerIsOfTheTable
<1>2. OneshotInv /\ AnswerIsOfTheTable /\ [Next]_vars => AnswerIsOfTheTable'
  BY StepAnswerIsOfTheTable
<1> QED  BY <1>1, <1>2, OneshotsCorrect, PTL DEF Spec

-----------------------------------------------------------------------------
(* The nodes of the trie.                                                  *)

NodesInv ==
  OneEntryPerNode /\ IsFiniteSet(Stored(tables["ForwardingTable"]))

LEMMA SameNodeSymmetric ==
  ASSUME NEW p, NEW q, SameNode(p, q)
  PROVE  SameNode(q, p)
  BY DEF SameNode, SameTrieBits

LEMMA TrieUpdateNodes ==
  ASSUME NEW K, NEW entries \in [K -> NextHops \cup {None}],
         \A p, q \in Stored(entries) : SameNode(p, q) => p = q,
         Cardinality(Stored(entries)) <= MaxEntries,
         IsFiniteSet(Stored(entries)),
         NEW key \in K, NEW value \in NextHops
  PROVE  LET new == TrieUpdate(entries, key, value)
         IN  /\ \A p, q \in Stored(new) : SameNode(p, q) => p = q
             /\ Cardinality(Stored(new)) <= MaxEntries
             /\ IsFiniteSet(Stored(new))
<1> DEFINE new == TrieUpdate(entries, key, value)
<1>1. CASE ~TrieAccepts(entries, key)
  BY <1>1 DEF TrieUpdate
<1>2. CASE TrieAccepts(entries, key)
  <2>1. new = [p \in K |-> IF p = key THEN value
                           ELSE IF SameNode(p, key) THEN None ELSE entries[p]]
    BY <1>2 DEF TrieUpdate
  <2>2. \A p \in Stored(new) : p = key \/ (p \in Stored(entries) /\ ~SameNode(p, key))
    BY <2>1 DEF Stored
  <2>3. \A p, q \in Stored(new) : SameNode(p, q) => p = q
    BY <2>2, SameNodeSymmetric
  <2>4. Stored(new) \subseteq Stored(entries) \cup {key}
    BY <2>2
  <2>5. /\ IsFiniteSet(Stored(entries) \cup {key})
        /\ Cardinality(Stored(entries) \cup {key}) <= Cardinality(Stored(entries)) + 1
        /\ Cardinality(Stored(entries)) \in Nat
    <3>1. Cardinality(Stored(entries)) \in Nat
      BY FS_CardinalityType
    <3>2. /\ IsFiniteSet(Stored(entries) \cup {key})
          /\ \/ Cardinality(Stored(entries) \cup {key}) = Cardinality(Stored(entries))
             \/ Cardinality(Stored(entries) \cup {key}) = Cardinality(Stored(entries)) + 1
      BY FS_AddElement
    <3> QED  BY <3>1, <3>2
  <2>6. /\ IsFiniteSet(Stored(new))
        /\ Cardinality(Stored(new)) <= Cardinality(Stored(entries) \cup {key})
    BY <2>4, <2>5, FS_Subset
  <2>7. Cardinality(Stored(new)) \in Nat /\ Cardinality(Stored(entries) \cup {key}) \in Nat
    BY <2>5, <2>6, FS_CardinalityType
  <2>8. Cardinality(Stored(entries)) < MaxEntries
    BY <1>2 DEF TrieAccepts
  <2>9. Cardinality(Stored(new)) <= MaxEntries
    BY <2>5, <2>6, <2>7, <2>8, LpmTrieAssumption
  <2> QED  BY <2>3, <2>6, <2>9
<1> QED  BY <1>1, <1>2

LEMMA TrieDeleteNodes ==
  ASSUME NEW K, NEW entries \in [K -> NextHops \cup {None}],
         \A p, q \in Stored(entries) : SameNode(p, q) => p = q,
         Cardinality(Stored(entries)) <= MaxEntries,
         IsFiniteSet(Stored(entries)),
         NEW key
  PROVE  LET new == TrieDelete(entries, key)
         IN  /\ \A p, q \in Stored(new) : SameNode(p, q) => p = q
             /\ Cardinality(Stored(new)) <= MaxEntries
             /\ IsFiniteSet(Stored(new))
<1> DEFINE new == TrieDelete(entries, key)
<1>1. Stored(new) \subseteq Stored(entries)
  BY DEF TrieDelete, Stored
<1>2. /\ IsFiniteSet(Stored(new))
      /\ Cardinality(Stored(new)) <= Cardinality(Stored(entries))
  BY <1>1, FS_Subset
<1>3. Cardinality(Stored(new)) \in Nat /\ Cardinality(Stored(entries)) \in Nat
  BY <1>2, FS_CardinalityType
<1>4. Cardinality(Stored(new)) <= MaxEntries
  BY <1>2, <1>3, LpmTrieAssumption
<1> QED  BY <1>1, <1>2, <1>4

LEMMA InitNodesInv == Init => NodesInv
<1> SUFFICES ASSUME Init PROVE NodesInv
  OBVIOUS
<1>1. Stored(tables["ForwardingTable"]) = {}
  BY DEF Init, EmptyTables, Stored, TableType
<1> QED  BY <1>1, FS_EmptySet, LpmTrieAssumption DEF NodesInv, OneEntryPerNode

LEMMA StepNodesInv == TypeOK /\ NodesInv /\ [Next]_vars => NodesInv'
<1> SUFFICES ASSUME TypeOK, NodesInv, [Next]_vars PROVE NodesInv'
  OBVIOUS
<1> DEFINE ft == tables["ForwardingTable"]
<1>1. /\ ft \in [ForwardingPrefixes -> NextHops \cup {None}]
      /\ DOMAIN tables = TableType /\ "ForwardingTable" \in TableType
  BY DEF TypeOK, IsTables, Contents, Keys, Values, TableType
<1>2. /\ \A p, q \in Stored(ft) : SameNode(p, q) => p = q
      /\ Cardinality(Stored(ft)) <= MaxEntries
      /\ IsFiniteSet(Stored(ft))
  BY DEF NodesInv, OneEntryPerNode
<1>3. CASE tables'["ForwardingTable"] = ft
  BY <1>2, <1>3 DEF NodesInv, OneEntryPerNode
<1>4. CASE HandleAdd
  <2> DEFINE c == Head(queue).cmd
  <2>1. c \in Command /\ c.op = "Add" /\ tables' = Apply(tables, c)
    BY <1>4, TakeType DEF HandleAdd, Take, Entry
  <2>2. tables' = [tables EXCEPT ![c.table] = TableAdd(c.table, tables[c.table], c.key, c.value)]
    BY <2>1 DEF Apply
  <2>3. CASE c.table = "ForwardingTable"
    <3>1. c.key \in ForwardingPrefixes /\ c.value \in NextHops
      BY <2>1, <2>3, CommandFields DEF Keys, Values, TableType
    <3>2. tables'["ForwardingTable"] = TrieUpdate(ft, c.key, c.value)
      BY <1>1, <2>2, <2>3 DEF TableAdd
    <3> QED  BY <1>1, <1>2, <3>1, <3>2, TrieUpdateNodes DEF NodesInv, OneEntryPerNode
  <2>4. CASE c.table # "ForwardingTable"
    BY <1>3, <2>2, <2>4
  <2> QED  BY <2>3, <2>4
<1>5. CASE HandleDel
  <2> DEFINE c == Head(queue).cmd
  <2>1. c \in Command /\ c.op = "Del" /\ tables' = Apply(tables, c)
    BY <1>5, TakeType DEF HandleDel, Take, Entry
  <2>2. tables' = [tables EXCEPT ![c.table] = TableRemove(c.table, tables[c.table], c.key)]
    BY <2>1 DEF Apply
  <2>3. CASE c.table = "ForwardingTable"
    <3>1. tables'["ForwardingTable"] = TrieDelete(ft, c.key)
      BY <1>1, <2>2, <2>3 DEF TableRemove
    <3> QED  BY <1>1, <1>2, <3>1, TrieDeleteNodes DEF NodesInv, OneEntryPerNode
  <2>4. CASE c.table # "ForwardingTable"
    BY <1>3, <2>2, <2>4
  <2> QED  BY <2>3, <2>4
<1> QED
  BY <1>3, <1>4, <1>5 DEF Next, Handle, Call, Send, Return, Cancel, HandleGet,
     HandleList, PanicInList, vars

(* The kernel map never holds two prefixes of one node nor more than its   *)
(* limit, for every address width and whatever ForwardingTable::add is     *)
(* called with.                                                            *)
THEOREM NodesCorrect == Spec => []OneEntryPerNode
<1>1. Init => NodesInv
  BY InitNodesInv
<1>2. TypeOK /\ NodesInv /\ [Next]_vars => NodesInv'
  BY StepNodesInv
<1>3. NodesInv => OneEntryPerNode
  BY DEF NodesInv
<1> QED  BY <1>1, <1>2, <1>3, TypeCorrect, PTL DEF Spec

-----------------------------------------------------------------------------
(* What a lookup finds.                                                    *)

(* A bounded set of numbers has a highest one.  (Counted from the bound    *)
(* down it is the lowest, and the order of the numbers is well-founded.)   *)
LEMMA Highest ==
  ASSUME NEW S, NEW bound \in Nat, S \subseteq 0 .. bound, S # {}
  PROVE  \E m \in S : \A n \in S : n <= m
<1> DEFINE T == {bound - n : n \in S}
<1>1. T \subseteq Nat /\ T # {}
  <2>1. \A n \in S : bound - n \in Nat
    OBVIOUS
  <2>2. PICK n \in S : TRUE
    OBVIOUS
  <2>3. bound - n \in T
    OBVIOUS
  <2> QED  BY <2>1, <2>3
<1> DEFINE R == OpToRel(<, Nat)
<1>2. IsWellFoundedOn(R, Nat)
  BY NatLessThanWellFounded
<1>3. PICK x \in T : \A y \in T : <<y, x>> \notin R
  <2> HIDE DEF R, T
  <2> QED  BY <1>1, <1>2, WFMin
<1>4. \A y \in T : ~(y < x)
  BY <1>1, <1>3 DEF OpToRel
<1>5. PICK m \in S : x = bound - m
  OBVIOUS
<1>6. \A n \in S : ~(bound - n < bound - m)
  BY <1>4, <1>5
<1> QED  BY <1>6

(* Of the stored prefixes that answer a key one is the longest, and any    *)
(* longest one can stand for it when a node holds one entry only.          *)
LEMMA LongestHit ==
  ASSUME NEW K \in SUBSET Prefix, NEW V, NEW entries \in [K -> V \cup {None}],
         NEW key, key[2] <= Width,
         NEW hits, hits = {p \in Stored(entries) : Answers(p, key)}
  PROVE  hits # {} => \E p \in hits : Longest(hits, p)
<1> SUFFICES ASSUME hits # {} PROVE \E p \in hits : Longest(hits, p)
  OBVIOUS
<1> DEFINE lengths == {p[2] : p \in hits}
<1>1. Width + 1 \in Nat
  <2>1. \E p \in hits : p[2] \in 0 .. Width + 1
    BY DEF Stored, Prefix
  <2>2. Width \in Int
    BY LpmTrieAssumption DEF Width
  <2> QED  BY <2>1, <2>2
<1>2. \A p \in hits : p[2] \in 0 .. Width + 1
  BY DEF Stored, Prefix
<1>3. lengths \subseteq 0 .. Width + 1 /\ lengths # {}
  BY <1>2
<1>4. PICK m \in lengths : \A n \in lengths : n <= m
  <2> HIDE DEF lengths
  <2> QED  BY <1>1, <1>3, Highest
<1>5. PICK p \in hits : m = p[2]
  OBVIOUS
<1>6. \A q \in hits : q[2] <= p[2]
  BY <1>4, <1>5
<1> QED  BY <1>6 DEF Longest

LEMMA SameBitsOf ==
  ASSUME NEW a, NEW b, NEW c, NEW n, SameTrieBits(a, c, n), SameTrieBits(b, c, n)
  PROVE  SameTrieBits(a, b, n)
  BY DEF SameTrieBits

LEMMA LookupFindsLongest ==
  ASSUME NEW K \in SUBSET Prefix, NEW V, NEW entries \in [K -> V \cup {None}],
         \A p, q \in Stored(entries) : SameNode(p, q) => p = q,
         NEW key, key[2] <= Width,
         NEW hits, hits = {p \in Stored(entries) : Answers(p, key)}
  PROVE  /\ \A p \in hits : Longest(hits, p) => TrieLookup(entries, key) = entries[p]
         /\ hits # {} => TrieLookup(entries, key) # None
<1> DEFINE best == CHOOSE p \in hits : Longest(hits, p)
<1>1. ASSUME NEW p \in hits, Longest(hits, p)
      PROVE  TrieLookup(entries, key) = entries[p]
  <2>1. best \in hits /\ Longest(hits, best)
    BY <1>1
  <2>2. best[2] = p[2]
    <3>1. best[2] <= p[2] /\ p[2] <= best[2]
      BY <1>1, <2>1 DEF Longest
    <3>2. best[2] \in Int /\ p[2] \in Int
      BY <2>1, LpmTrieAssumption DEF Stored, Prefix, Width
    <3> QED  BY <3>1, <3>2
  <2>3. SameNode(best, p)
    BY <2>1, <2>2, SameBitsOf DEF Answers, SameNode
  <2>4. best = p
    BY <2>1, <2>3
  <2>5. TrieLookup(entries, key) = entries[best]
    BY <1>1 DEF TrieLookup
  <2> QED  BY <2>4, <2>5
<1>2. ASSUME hits # {} PROVE TrieLookup(entries, key) # None
  <2>1. PICK p \in hits : Longest(hits, p)
    BY <1>2, LongestHit
  <2> QED  BY <1>1, <2>1 DEF Stored
<1> QED  BY <1>1, <1>2

LEMMA NodesLookup == TypeOK /\ OneEntryPerNode => LongestMatchWins
<1> SUFFICES ASSUME TypeOK, OneEntryPerNode, NEW address \in Address
             PROVE  LET ft   == tables["ForwardingTable"]
                        key  == <<address, Width>>
                        hits == {p \in Stored(ft) : Answers(p, key)}
                    IN  /\ \A p \in hits : Longest(hits, p) => TrieLookup(ft, key) = ft[p]
                        /\ hits # {} => TrieLookup(ft, key) # None
  BY DEF LongestMatchWins
<1> DEFINE ft == tables["ForwardingTable"]
           key == <<address, Width>>
<1>1. ft \in [ForwardingPrefixes -> NextHops \cup {None}]
  BY DEF TypeOK, IsTables, Contents, Keys, Values, TableType
<1>2. \A p, q \in Stored(ft) : SameNode(p, q) => p = q
  BY DEF OneEntryPerNode
<1>3. key \in Prefix /\ key[2] <= Width
  BY LpmTrieAssumption DEF Prefix, Width, Address
<1> DEFINE hits == {p \in Stored(ft) : Answers(p, key)}
<1>4. /\ \A p \in hits : Longest(hits, p) => TrieLookup(ft, key) = ft[p]
      /\ hits # {} => TrieLookup(ft, key) # None
  <2>1. hits = {p \in Stored(ft) : Answers(p, key)}
    OBVIOUS
  <2>2. ForwardingPrefixes \in SUBSET Prefix
    BY TablesAssumption
  <2> HIDE DEF ft, key, hits
  <2> QED  BY <1>1, <1>2, <1>3, <2>1, <2>2, LookupFindsLongest
<1> QED  BY <1>4

(* A lookup of an address finds the hop of the longest stored prefix that  *)
(* answers it, which is unique, for every address width and any history of *)
(* adds and deletes.                                                       *)
THEOREM LongestMatchCorrect == Spec => []LongestMatchWins
BY TypeCorrect, NodesCorrect, NodesLookup, PTL
=============================================================================
