---------------------------- MODULE StateHistory ----------------------------
(***************************************************************************)
(* The State actor with two history variables, and the proof obligation    *)
(* they are for: the actor implements the atomic tables of TableStore.     *)
(*                                                                         *)
(* A command takes effect when it enters the channel, not when the State   *)
(* task gets to it: add and del return at that moment, and whatever is     *)
(* sent later is served later.  views[i] is what the tables will be once   *)
(* the first i commands of the channel are served, so views[Len(queue)] is *)
(* the store every caller may believe in; expected[c] is what the query   *)
(* that c is waiting for would have found in it.                           *)
(***************************************************************************)
EXTENDS StateServer

VARIABLES
  views,      \* [0 .. Len(queue) -> tables]
  expected    \* the answer each waiting client will be given

historyVars == <<tables, queue, server, pc, cmd, reply, views, expected>>

HInit ==
  /\ Init
  /\ views = [i \in {0} |-> tables]
  /\ expected = [c \in Clients |-> Pending]

HCall(c, command) == Call(c, command) /\ UNCHANGED <<views, expected>>

HSend(c) ==
  /\ Send(c)
  /\ views' = [i \in 0 .. (Len(queue) + 1) |->
                 IF i <= Len(queue) THEN views[i]
                 ELSE Apply(views[Len(queue)], cmd[c])]
  /\ expected' = IF IsQuery(cmd[c])
                 THEN [expected EXCEPT ![c] = Answer(views[Len(queue)], cmd[c])]
                 ELSE expected

(* With the end of its call a client has nothing to expect any more.       *)
Forget(c) == expected' = [expected EXCEPT ![c] = Pending]

HReturn(c) == Return(c) /\ Forget(c) /\ UNCHANGED views

HCancel(c) == Cancel(c) /\ Forget(c) /\ UNCHANGED views

HHandle ==
  /\ Handle
  /\ views' = [i \in 0 .. (Len(queue) - 1) |-> views[i + 1]]
  /\ UNCHANGED expected

HNext ==
  \/ \E c \in Clients :
       \/ \E command \in Command : HCall(c, command)
       \/ HSend(c) \/ HReturn(c) \/ HCancel(c)
  \/ HHandle

HSpec == HInit /\ [][HNext]_historyVars

(* The fairness of StateServer, for the steps with their history.          *)
HFairSpec ==
  /\ HSpec
  /\ WF_historyVars(HHandle)
  /\ \A c \in Clients : SF_historyVars(HSend(c)) /\ WF_historyVars(HReturn(c))

-----------------------------------------------------------------------------
(* Where the store sees a call that the actor has at an await.             *)
Phase == [idle |-> "idle", sending |-> "invoked", waiting |-> "performed"]

Store == INSTANCE TableStore WITH
  store    <- views[Len(queue)],
  status   <- [c \in Clients |-> Phase[pc[c]]],
  op       <- cmd,
  answer   <- expected,
  returned <- [c \in Clients |-> IF pc[c] = "idle" THEN reply[c] ELSE Pending]

(***************************************************************************)
(* The clients see one atomic set of tables: an add or a del that returned *)
(* is seen by every query sent after it, by whichever client, and a query  *)
(* returns what the tables held at one instant inside the call, although   *)
(* the commands of all clients wait in the channel and the task may die    *)
(* with any number of them unserved.                                       *)
(***************************************************************************)
Linearizable == Store!StoreSpec

-----------------------------------------------------------------------------
(* The parts of the inductive invariant behind Linearizable.               *)

ExpectedType == expected = [c \in Clients |-> expected[c]]

ViewsFollowTheQueue ==
  /\ views = [i \in 0 .. Len(queue) |-> views[i]]
  /\ views[0] = tables
  /\ \A i \in 0 .. Len(queue) : IsTables(views[i])
  /\ \A i \in 1 .. Len(queue) : views[i] = Apply(views[i - 1], queue[i].cmd)

(* A oneshot that can still be used belongs to a call that waits for it,   *)
(* and when its turn comes it will be answered as expected.                *)
OpenEntriesAreOwed ==
  \A i \in 1 .. Len(queue) :
    LET entry == queue[i]
        c     == entry.from
    IN  entry.open =>
          /\ pc[c] = "waiting"
          /\ reply[c] = Pending
          /\ cmd[c] = entry.cmd
          /\ IsQuery(entry.cmd)
          /\ expected[c] = Answer(views[i - 1], entry.cmd)

OneOpenEntry ==
  \A i, j \in 1 .. Len(queue) :
    queue[i].open /\ queue[j].open /\ queue[i].from = queue[j].from => i = j

OwedCallsAreOpen ==
  \A c \in Clients :
    pc[c] = "waiting" /\ reply[c] = Pending
      => \E i \in 1 .. Len(queue) : queue[i].open /\ queue[i].from = c

CallsAreConsistent ==
  \A c \in Clients :
    /\ pc[c] = "sending" => reply[c] = Pending
    /\ pc[c] = "waiting" => IsQuery(cmd[c])

(***************************************************************************)
(* What a waiting call has been given is what the store held when it was   *)
(* sent, or the error of the one query that iterates over the kernel map.  *)
(***************************************************************************)
AnswersAreExpected ==
  \A c \in Clients :
    pc[c] = "waiting" /\ reply[c] # Pending =>
      \/ reply[c] = expected[c]
      \/ /\ MapFaults
         /\ reply[c] = Err
         /\ cmd[c] = [op |-> "List", table |-> "ForwardingTable"]

HistoryInv ==
  /\ TypeOK
  /\ ExpectedType
  /\ ViewsFollowTheQueue
  /\ OpenEntriesAreOwed
  /\ OneOpenEntry
  /\ OwedCallsAreOpen
  /\ CallsAreConsistent
  /\ AnswersAreExpected
=============================================================================
