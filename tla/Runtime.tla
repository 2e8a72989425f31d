------------------------------ MODULE Runtime ------------------------------
(***************************************************************************)
(* The tasks that run on tokio's worker threads, and what two blocking     *)
(* calls do to the others: dl_rx.next() in every reader (send_receive.rs)  *)
(* and prompt() (cli.rs) keep the worker they are polled on.               *)
(*                                                                         *)
(* Of the runtime (external) this much is modelled: one queue of runnable  *)
(* tasks, from which every idle worker takes; per worker a slot with the   *)
(* task that was woken last by what runs there, which is polled next, and  *)
(* which no other worker can take; a budget of channel operations, shared  *)
(* by what runs from one take to the next, after which a task must yield.  *)
(*                                                                         *)
(* Rest stands for all tasks that never block: State, receiver, hellos,    *)
(* sender, the server task of Cli.  What they wait for is up to them.      *)
(***************************************************************************)
EXTENDS Integers, SequencesExt

CONSTANTS
  Workers,
  Readers,                   \* one task per interface
  Forwarder, Prompt, Rest,   \* other tasks
  Capacity,                  \* capacity of the readers' channel: 100
  Budget,                    \* channel operations before a task yields: 128
  Nobody

ASSUME RuntimeAssumption ==
  /\ Capacity \in Nat \ {0}
  /\ Budget \in Nat \ {0}
  /\ IsFiniteSet(Readers) /\ Workers # {}
  /\ {Forwarder, Prompt, Rest} \cap Readers = {}
  /\ Forwarder # Prompt /\ Forwarder # Rest /\ Prompt # Rest
  /\ Nobody \notin Readers \cup {Forwarder, Prompt, Rest}

VARIABLES
  queue,     \* runnable tasks
  slot,      \* per worker: the task woken last there, or Nobody
  job,       \* per worker: the task being polled, or Nobody
  spent,     \* per worker: operations done on the present budget
  reader,    \* per reader: "next", "sending", "waiting", "granted", "dead"
  waiters,   \* the readers waiting for room in the channel
  inbound,   \* frames in the channel
  prompt     \* "typing", "awaiting" or "dead"

vars == <<queue, slot, job, spent, reader, waiters, inbound, prompt>>

Tasks == Readers \cup {Forwarder, Prompt, Rest}

(* A task is in the queue, in the slot of a worker or polled by it, or it  *)
(* is parked.                                                              *)
Places(t) == {i \in DOMAIN queue : queue[i] = t}
Parked(t) == Places(t) = {} /\ \A w \in Workers : t \notin {slot[w], job[w]}

(* The call that a worker does not come back from by itself.               *)
Blocked(w) ==
  \/ job[w] \in Readers /\ reader[job[w]] = "next"
  \/ job[w] = Prompt /\ prompt = "typing"

(* All tasks have been spawned by UserSpace::run, in this order, the       *)
(* readers in any; the last one sits in the slot of the worker it ran on.  *)
Init ==
  /\ \E order \in SetToSeqs(Readers) : queue = order \o <<Forwarder, Rest>>
  /\ \E here \in Workers :
       slot = [w \in Workers |-> IF w = here THEN Prompt ELSE Nobody]
  /\ job = [w \in Workers |-> Nobody]
  /\ spent = [w \in Workers |-> 0]
  /\ reader = [r \in Readers |-> "next"]
  /\ waiters = <<>>
  /\ inbound = 0
  /\ prompt = "typing"

-----------------------------------------------------------------------------
(* The runtime.                                                            *)

(* Task t is woken by what runs on w, if it is parked.                     *)
Wake(w, t) ==
  IF Parked(t)
  THEN /\ slot' = [slot EXCEPT ![w] = t]
       /\ queue' = IF slot[w] = Nobody THEN queue ELSE Append(queue, slot[w])
  ELSE UNCHANGED <<slot, queue>>

Leave(w) == job' = [job EXCEPT ![w] = Nobody]

(* Mutant of Spend: one operation too many.                                *)
SpendBeyond(w) == spent[w] <= Budget /\ spent' = [spent EXCEPT ![w] = @ + 1]

Spend(w) == spent[w] < Budget /\ spent' = [spent EXCEPT ![w] = @ + 1]

(* The budget is used up: the task goes to the end of the queue.           *)
Yield(w) ==
  /\ job[w] # Nobody /\ ~Blocked(w)
  /\ spent[w] = Budget
  /\ queue' = Append(queue, job[w])
  /\ Leave(w)
  /\ UNCHANGED <<slot, spent, reader, waiters, inbound, prompt>>

(* A worker turns to its slot if there is budget left for it ...           *)
TakeSlot(w) ==
  /\ job[w] = Nobody /\ slot[w] # Nobody
  /\ IF spent[w] < Budget
     THEN job' = [job EXCEPT ![w] = slot[w]] /\ UNCHANGED queue
     ELSE queue' = Append(queue, slot[w]) /\ UNCHANGED job
  /\ slot' = [slot EXCEPT ![w] = Nobody]
  /\ UNCHANGED <<spent, reader, waiters, inbound, prompt>>

(* ... and to the queue otherwise.                                         *)
TakeQueue(w) ==
  /\ job[w] = Nobody /\ slot[w] = Nobody
  /\ queue # <<>>
  /\ job' = [job EXCEPT ![w] = Head(queue)]
  /\ queue' = Tail(queue)
  /\ spent' = [spent EXCEPT ![w] = 0]
  /\ UNCHANGED <<slot, reader, waiters, inbound, prompt>>

-----------------------------------------------------------------------------
(* A reader r on worker w.                                                 *)
Reads(w, r, state) == job[w] = r /\ reader[r] = state

(* next() returns a frame, ...                                             *)
FrameRead(w, r) ==
  /\ Reads(w, r, "next")
  /\ reader' = [reader EXCEPT ![r] = "sending"]
  /\ UNCHANGED <<queue, slot, job, spent, waiters, inbound, prompt>>

(* Mutant of ReadFails: somebody else keeps a sender of the channel.        *)
ReadFailsChannelOpen(w, r) ==
  /\ Reads(w, r, "next")
  /\ reader' = [reader EXCEPT ![r] = "dead"]
  /\ Leave(w)
  /\ UNCHANGED <<queue, slot, spent, waiters, inbound, prompt>>

(* ... or fails, which ends the task and, with the last one, the channel.  *)
ReadFails(w, r) ==
  /\ Reads(w, r, "next")
  /\ reader' = [reader EXCEPT ![r] = "dead"]
  /\ Leave(w)
  /\ IF \A s \in Readers \ {r} : reader[s] = "dead" THEN Wake(w, Forwarder)
     ELSE UNCHANGED <<slot, queue>>
  /\ UNCHANGED <<spent, waiters, inbound, prompt>>

Promised == {r \in Readers : reader[r] = "granted"}
Room(r) == reader[r] = "granted" \/ inbound + Cardinality(Promised) < Capacity

(* The frame enters the channel.  The reader is not parked for it: it goes *)
(* straight on to next().                                                  *)
PassOn(w, r) ==
  /\ Reads(w, r, "sending") \/ Reads(w, r, "granted")
  /\ Room(r)
  /\ Spend(w)
  /\ inbound' = inbound + 1
  /\ reader' = [reader EXCEPT ![r] = "next"]
  /\ Wake(w, Forwarder)
  /\ UNCHANGED <<job, waiters, prompt>>

(* Mutant of WaitForRoom: blocking_send, which keeps the worker.            *)
BlockForRoom(w, r) == Reads(w, r, "sending") /\ ~Room(r) /\ UNCHANGED vars

(* There is no room: the reader is parked.                                 *)
WaitForRoom(w, r) ==
  /\ Reads(w, r, "sending")
  /\ ~Room(r)
  /\ Spend(w)
  /\ waiters' = Append(waiters, r)
  /\ reader' = [reader EXCEPT ![r] = "waiting"]
  /\ Leave(w)
  /\ UNCHANGED <<queue, slot, inbound, prompt>>

-----------------------------------------------------------------------------
(* The forwarder on worker w.                                              *)

(* It takes a frame; the room goes to the reader that waits longest.       *)
Forward(w) ==
  /\ job[w] = Forwarder
  /\ inbound > 0
  /\ Spend(w)
  /\ inbound' = inbound - 1
  /\ IF waiters = <<>>
     THEN UNCHANGED <<waiters, reader, slot, queue>>
     ELSE /\ waiters' = Tail(waiters)
          /\ reader' = [reader EXCEPT ![Head(waiters)] = "granted"]
          /\ Wake(w, Head(waiters))
  /\ UNCHANGED <<job, prompt>>

Closed == \A r \in Readers : reader[r] = "dead"

(* Mutant of ForwarderSpins: a loop around try_recv.                        *)
SpinsUnbudgeted(w) ==
  /\ job[w] = Forwarder
  /\ inbound = 0 /\ Closed
  /\ spent' = [spent EXCEPT ![w] = 0]
  /\ UNCHANGED <<queue, slot, job, reader, waiters, inbound, prompt>>

(* The channel is closed: recv returns at once, and the loop calls it      *)
(* again.                                                                  *)
ForwarderSpins(w) ==
  /\ job[w] = Forwarder
  /\ inbound = 0 /\ Closed
  /\ Spend(w)
  /\ UNCHANGED <<queue, slot, job, reader, waiters, inbound, prompt>>

ForwarderParks(w) ==
  /\ job[w] = Forwarder
  /\ inbound = 0 /\ ~Closed
  /\ Leave(w)
  /\ UNCHANGED <<queue, slot, spent, reader, waiters, inbound, prompt>>

-----------------------------------------------------------------------------
(* The prompt and the rest.                                                *)

(* prompt() returns a table's name: a listing is asked for.                *)
Typed(w) ==
  /\ job[w] = Prompt /\ prompt = "typing"
  /\ prompt' = "awaiting"
  /\ Leave(w)
  /\ Wake(w, Rest)
  /\ UNCHANGED <<spent, reader, waiters, inbound>>

PromptFails(w) ==
  /\ job[w] = Prompt /\ prompt = "typing"
  /\ prompt' = "dead"
  /\ Leave(w)
  /\ UNCHANGED <<queue, slot, spent, reader, waiters, inbound>>

(* The rest do their work and answer the prompt if it asked.               *)
RestWorks(w) ==
  /\ job[w] = Rest
  /\ Spend(w)
  /\ Leave(w)
  /\ IF prompt = "awaiting" THEN prompt' = "typing" /\ Wake(w, Prompt)
     ELSE UNCHANGED <<prompt, slot, queue>>
  /\ UNCHANGED <<reader, waiters, inbound>>

(* A timer or a command wakes one of them from elsewhere.                  *)
RestWoken ==
  /\ Parked(Rest)
  /\ queue' = Append(queue, Rest)
  /\ UNCHANGED <<slot, job, spent, reader, waiters, inbound, prompt>>

-----------------------------------------------------------------------------
(* What a worker does by itself, and what is up to the environment.        *)
Runs(w) ==
  \/ TakeSlot(w) \/ TakeQueue(w) \/ Yield(w)
  \/ \E r \in Readers : PassOn(w, r) \/ WaitForRoom(w, r)
  \/ Forward(w) \/ ForwarderSpins(w) \/ ForwarderParks(w)
  \/ RestWorks(w)

Next ==
  \/ \E w \in Workers :
       \/ Runs(w)
       \/ \E r \in Readers : FrameRead(w, r) \/ ReadFails(w, r)
       \/ Typed(w) \/ PromptFails(w)
  \/ RestWoken

Spec == Init /\ [][Next]_vars

(* A worker that is not in a blocking call goes on.  Nothing obliges a     *)
(* frame to arrive or a user to type.                                      *)
FairSpec == Spec /\ \A w \in Workers : WF_vars(Runs(w))

-----------------------------------------------------------------------------
TypeOK ==
  /\ queue \in Seq(Tasks)
  /\ slot \in [Workers -> Tasks \cup {Nobody}]
  /\ job \in [Workers -> Tasks \cup {Nobody}]
  /\ spent \in [Workers -> 0 .. Budget]
  /\ reader \in [Readers -> {"next", "sending", "waiting", "granted", "dead"}]
  /\ waiters \in Seq(Readers)
  /\ inbound \in 0 .. Capacity
  /\ prompt \in {"typing", "awaiting", "dead"}

(* No task is polled by two workers, or in the queue twice.                *)
OnePlace ==
  /\ \A i, j \in DOMAIN queue : queue[i] = queue[j] => i = j
  /\ \A v, w \in Workers :
       /\ v # w /\ slot[v] = slot[w] => slot[v] = Nobody
       /\ v # w /\ job[v] = job[w] => job[v] = Nobody
       /\ slot[v] = job[w] => slot[v] = Nobody
  /\ \A i \in DOMAIN queue, w \in Workers : queue[i] \notin {slot[w], job[w]}

(***************************************************************************)
(* No wake-up is lost: every task that could go on is in exactly one place *)
(* where the runtime will find it, and nobody waits for room in the        *)
(* readers' channel that nobody else has.  The wake-ups race with the      *)
(* parking, dying and being promised room of readers on other workers.     *)
(***************************************************************************)
NoWakeUpIsLost ==
  /\ OnePlace
  /\ Parked(Forwarder) => inbound = 0 /\ ~Closed
  /\ Parked(Prompt) => prompt # "typing"
  /\ \A r \in Readers : Parked(r) => reader[r] \in {"waiting", "dead"}
  /\ waiters # <<>> => inbound + Cardinality(Promised) = Capacity

(***************************************************************************)
(* A runnable task is polled, unless from some moment on every worker sits *)
(* in a blocking call.  So with more workers than readers and prompt no    *)
(* task starves, not even when all readers are dead and the forwarder      *)
(* spins; with fewer, the whole program waits for frames and keys.         *)
(***************************************************************************)
RunnableIsPolled ==
  \A t \in Tasks :
    Places(t) # {} ~> (Places(t) = {} \/ [](\A w \in Workers : Blocked(w)))

(***************************************************************************)
(* The forwarder, woken by a reader that then blocks on the same worker,   *)
(* waits in that worker's slot however many workers are idle.  It is       *)
(* polled when the reader parks, yields or dies: frames that keep coming   *)
(* on that interface fill the channel or use up the budget.                *)
(***************************************************************************)
SlotIsServed ==
  \A w \in Workers :
    slot[w] # Nobody ~> (slot[w] = Nobody \/ []Blocked(w))
=============================================================================
