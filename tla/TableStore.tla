----------------------------- MODULE TableStore -----------------------------
(***************************************************************************)
(* What StateClient promises its callers, without the channel, the oneshot *)
(* and the State task: one set of tables, every call takes effect on it    *)
(* atomically at one instant between its invocation and its return, and a  *)
(* query returns what the tables held at that instant.  StateHistory shows *)
(* that the actor implements this.                                         *)
(***************************************************************************)
EXTENDS Tables

CONSTANTS
  Clients,
  MapFaults,   \* may iterating over the kernel map fail?
  NoCommand, Pending, Err

VARIABLES
  store,      \* the tables
  status,     \* per client: idle, invoked, or performed and not yet returned
  op,         \* the command of the client's latest call
  answer,     \* the answer of a query that was performed and has not returned
  returned    \* what the client's latest call gave it, Pending while it runs

storeVars == <<store, status, op, answer, returned>>

StoreInit ==
  /\ store = EmptyTables
  /\ status = [c \in Clients |-> "idle"]
  /\ op = [c \in Clients |-> NoCommand]
  /\ answer = [c \in Clients |-> Pending]
  /\ returned = [c \in Clients |-> Pending]

Invoke(c, command) ==
  /\ status[c] = "idle"
  /\ status' = [status EXCEPT ![c] = "invoked"]
  /\ op' = [op EXCEPT ![c] = command]
  /\ returned' = [returned EXCEPT ![c] = Pending]
  /\ UNCHANGED <<store, answer>>

(* An Add or a Del takes effect and its call is over.                      *)
PerformUpdate(c) ==
  /\ status[c] = "invoked"
  /\ ~IsQuery(op[c])
  /\ store' = Apply(store, op[c])
  /\ status' = [status EXCEPT ![c] = "idle"]
  /\ UNCHANGED <<op, answer, returned>>

(* A Get or a List reads the tables.                                       *)
PerformQuery(c) ==
  /\ status[c] = "invoked"
  /\ IsQuery(op[c])
  /\ answer' = [answer EXCEPT ![c] = Answer(store, op[c])]
  /\ status' = [status EXCEPT ![c] = "performed"]
  /\ UNCHANGED <<store, op, returned>>

ReturnAnswer(c) ==
  /\ status[c] = "performed"
  /\ returned' = [returned EXCEPT ![c] = answer[c]]
  /\ status' = [status EXCEPT ![c] = "idle"]
  /\ answer' = [answer EXCEPT ![c] = Pending]
  /\ UNCHANGED <<store, op>>

(* Only a List of the forwarding table, the one that iterates over the     *)
(* kernel map, may end in an error.                                        *)
ReturnError(c) ==
  /\ MapFaults
  /\ status[c] = "performed"
  /\ op[c] = [op |-> "List", table |-> "ForwardingTable"]
  /\ returned' = [returned EXCEPT ![c] = Err]
  /\ status' = [status EXCEPT ![c] = "idle"]
  /\ answer' = [answer EXCEPT ![c] = Pending]
  /\ UNCHANGED <<store, op>>

(* The caller drops the future of its call.                                *)
Abandon(c) ==
  /\ status[c] # "idle"
  /\ status' = [status EXCEPT ![c] = "idle"]
  /\ answer' = [answer EXCEPT ![c] = Pending]
  /\ UNCHANGED <<store, op, returned>>

StoreNext ==
  \E c \in Clients :
    \/ \E command \in Command : Invoke(c, command)
    \/ PerformUpdate(c) \/ PerformQuery(c)
    \/ ReturnAnswer(c) \/ ReturnError(c) \/ Abandon(c)

StoreSpec == StoreInit /\ [][StoreNext]_storeVars
=============================================================================
