--------------------------- MODULE RuntimeProofs ---------------------------
(***************************************************************************)
(* Proofs about the tasks on tokio's workers, for any number of workers    *)
(* and readers, any capacity of the readers' channel and any budget.       *)
(***************************************************************************)
EXTENDS Runtime, FiniteSetTheorems, SequenceTheorems, TLAPS

(* Exactly these tasks are parked: the forwarder only without a frame, a   *)
(* prompt that asked or died, readers that wait for room or died.          *)
ParkedTasks ==
  /\ Parked(Forwarder) => inbound = 0 /\ ~Closed
  /\ Parked(Prompt) <=> prompt # "typing"
  /\ \A r \in Readers : Parked(r) <=> reader[r] \in {"waiting", "dead"}

(* The readers waiting stand in line once each, and all the room there is, *)
(* or will be, is promised when somebody waits.                            *)
Waiting ==
  /\ \A i, j \in DOMAIN waiters : waiters[i] = waiters[j] => i = j
  /\ \A r \in Readers : reader[r] = "waiting" <=> \E i \in DOMAIN waiters : waiters[i] = r
  /\ inbound + Cardinality(Promised) <= Capacity
  /\ waiters # <<>> => inbound + Cardinality(Promised) = Capacity

RuntimeInv == TypeOK /\ OnePlace /\ ParkedTasks /\ Waiting

-----------------------------------------------------------------------------
LEMMA TaskNames ==
  /\ Readers \subseteq Tasks /\ {Forwarder, Prompt, Rest} \subseteq Tasks
  /\ Nobody \notin Tasks
  BY RuntimeAssumption DEF Tasks

(* How tasks move.  Each lemma says that no task gets into two places, and *)
(* which tasks are parked afterwards.                                      *)
Placed == queue \in Seq(Tasks) /\ OnePlace
          /\ slot \in [Workers -> Tasks \cup {Nobody}]
          /\ job \in [Workers -> Tasks \cup {Nobody}]

LEMMA ParkedMeans ==
  ASSUME NEW t
  PROVE  Parked(t) <=> /\ \A i \in DOMAIN queue : queue[i] # t
                       /\ \A w \in Workers : slot[w] # t /\ job[w] # t
  BY DEF Parked, Places

(* A task at the end of the queue.                                         *)
LEMMA Queued ==
  ASSUME Placed, NEW t \in Tasks, queue' = Append(queue, t)
  PROVE  /\ queue' \in Seq(Tasks)
         /\ DOMAIN queue' = DOMAIN queue \cup {Len(queue) + 1}
         /\ Len(queue) + 1 \notin DOMAIN queue
         /\ queue'[Len(queue) + 1] = t
         /\ \A i \in DOMAIN queue : queue'[i] = queue[i]
  BY DEF Placed

LEMMA LeaveMoves ==
  ASSUME Placed, NEW w \in Workers, job[w] \in Tasks, Leave(w), UNCHANGED <<queue, slot>>
  PROVE  /\ Placed'
         /\ \A t \in Tasks : Parked(t)' <=> Parked(t) \/ t = job[w]
<1>1. job' = [v \in Workers |-> IF v = w THEN Nobody ELSE job[v]]
  BY DEF Leave, Placed
<1>2. Placed'
  BY <1>1, TaskNames DEF Placed, OnePlace
<1>3. \A t \in Tasks : Parked(t)' <=> Parked(t) \/ t = job[w]
  BY <1>1, TaskNames DEF Placed, OnePlace, Parked, Places
<1> QED  BY <1>2, <1>3

LEMMA YieldMoves ==
  ASSUME Placed, NEW w \in Workers, job[w] \in Tasks, Leave(w),
         queue' = Append(queue, job[w]), UNCHANGED slot
  PROVE  /\ Placed'
         /\ \A t \in Tasks : Parked(t)' <=> Parked(t)
<1>1. job' = [v \in Workers |-> IF v = w THEN Nobody ELSE job[v]]
  BY DEF Leave, Placed
<1>2. Placed'
  BY <1>1, Queued, TaskNames DEF Placed, OnePlace
<1>3. \A t \in Tasks : Parked(t)' <=> Parked(t)
  BY <1>1, Queued, TaskNames DEF Placed, OnePlace, Parked, Places
<1> QED  BY <1>2, <1>3

LEMMA TakeSlotMoves ==
  ASSUME Placed, NEW w \in Workers, TakeSlot(w)
  PROVE  /\ Placed'
         /\ \A t \in Tasks : Parked(t)' <=> Parked(t)
<1>1. /\ job[w] = Nobody /\ slot[w] \in Tasks
      /\ slot' = [v \in Workers |-> IF v = w THEN Nobody ELSE slot[v]]
  <2>1. job[w] = Nobody /\ slot[w] # Nobody /\ slot' = [slot EXCEPT ![w] = Nobody]
    BY DEF TakeSlot
  <2>2. slot[w] \in Tasks
    BY <2>1 DEF Placed
  <2>3. slot' = [v \in Workers |-> IF v = w THEN Nobody ELSE slot[v]]
    BY <2>1 DEF Placed
  <2> QED  BY <2>1, <2>2, <2>3
<1>2. CASE spent[w] < Budget
  <2>1. queue' = queue /\ job' = [v \in Workers |-> IF v = w THEN slot[w] ELSE job[v]]
    BY <1>2 DEF TakeSlot, Placed
  <2>2. Placed'
    BY <1>1, <2>1, TaskNames DEF Placed, OnePlace
  <2>3. \A t \in Tasks : Parked(t)' <=> Parked(t)
    BY <1>1, <2>1, TaskNames DEF Placed, Parked, Places
  <2> QED  BY <2>2, <2>3
<1>3. CASE ~(spent[w] < Budget)
  <2>1. queue' = Append(queue, slot[w]) /\ job' = job
    BY <1>3 DEF TakeSlot
  <2>2. Placed'
    BY <1>1, <2>1, Queued, TaskNames DEF Placed, OnePlace
  <2>3. \A t \in Tasks : Parked(t)' <=> Parked(t)
    BY <1>1, <2>1, Queued, TaskNames DEF Placed, Parked, Places
  <2> QED  BY <2>2, <2>3
<1> QED  BY <1>2, <1>3

LEMMA TakeQueueMoves ==
  ASSUME Placed, NEW w \in Workers, TakeQueue(w)
  PROVE  /\ Placed'
         /\ \A t \in Tasks : Parked(t)' <=> Parked(t)
<1>1. /\ job[w] = Nobody /\ queue # <<>> /\ queue' = Tail(queue) /\ slot' = slot
      /\ job' = [v \in Workers |-> IF v = w THEN queue[1] ELSE job[v]]
  <2>1. /\ job[w] = Nobody /\ queue # <<>> /\ queue' = Tail(queue) /\ slot' = slot
        /\ job' = [job EXCEPT ![w] = Head(queue)]
    BY DEF TakeQueue
  <2>2. Head(queue) = queue[1]
    BY <2>1 DEF Placed
  <2> QED  BY <2>1, <2>2 DEF Placed
<1>2. /\ queue' \in Seq(Tasks) /\ 1 \in DOMAIN queue /\ queue[1] \in Tasks
      /\ \A i \in DOMAIN queue' : i + 1 \in DOMAIN queue /\ i + 1 # 1
                                  /\ queue'[i] = queue[i + 1] /\ i \in Nat
      /\ \A i \in DOMAIN queue : i = 1 \/ (i - 1 \in DOMAIN queue' /\ (i - 1) + 1 = i)
  BY <1>1 DEF Placed
<1>3. Placed'
  <2>1. \A i, j \in DOMAIN queue' : queue'[i] = queue'[j] => i = j
    <3> SUFFICES ASSUME NEW i \in DOMAIN queue', NEW j \in DOMAIN queue', queue'[i] = queue'[j]
                 PROVE  i = j
      OBVIOUS
    <3>1. i + 1 = j + 1
      BY <1>2 DEF Placed, OnePlace
    <3> QED  BY <1>2, <3>1
  <2>2. \A i \in DOMAIN queue' : queue'[i] # queue[1]
    BY <1>2 DEF Placed, OnePlace
  <2> QED  BY <1>1, <1>2, <2>1, <2>2, TaskNames DEF Placed, OnePlace
<1>4. \A t \in Tasks : Parked(t)' <=> Parked(t)
  <2> TAKE t \in Tasks
  <2>1. (\E i \in DOMAIN queue : queue[i] = t)
          <=> queue[1] = t \/ \E i \in DOMAIN queue' : queue'[i] = t
    BY <1>2
  <2> QED  BY <1>1, <2>1, TaskNames DEF Placed, Parked, Places
<1> QED  BY <1>3, <1>4

(* A wake-up, together with the parking of the task that gives it or not.  *)
LEMMA WakeMoves ==
  ASSUME Placed, NEW w \in Workers, NEW u \in Tasks, Wake(w, u),
         UNCHANGED job
  PROVE  /\ Placed'
         /\ \A t \in Tasks : Parked(t)' <=> Parked(t) /\ t # u
<1>1. CASE ~Parked(u)
  BY <1>1 DEF Wake, Placed, OnePlace, Parked, Places
<1>2. CASE Parked(u)
  <2>1. slot' = [v \in Workers |-> IF v = w THEN u ELSE slot[v]]
    BY <1>2 DEF Wake, Placed
  <2>2. CASE slot[w] = Nobody
    <3>1. queue' = queue
      BY <1>2, <2>2 DEF Wake
    <3>2. Placed'
      BY <1>2, <2>1, <3>1, TaskNames DEF Placed, OnePlace, Parked, Places
    <3>3. \A t \in Tasks : Parked(t)' <=> Parked(t) /\ t # u
      BY <2>1, <2>2, <3>1, TaskNames DEF Parked, Places
    <3> QED  BY <3>2, <3>3
  <2>3. CASE slot[w] # Nobody
    <3>1. queue' = Append(queue, slot[w]) /\ slot[w] \in Tasks
      BY <1>2, <2>3 DEF Wake, Placed
    <3>2. Placed'
      BY <1>2, <2>1, <3>1, Queued, TaskNames, ParkedMeans DEF Placed, OnePlace
    <3>3. \A t \in Tasks : Parked(t)' <=> Parked(t) /\ t # u
      BY <1>2, <2>1, <3>1, Queued, TaskNames DEF Placed, OnePlace, Parked, Places
    <3> QED  BY <3>2, <3>3
  <2> QED  BY <2>2, <2>3
<1> QED  BY <1>1, <1>2

LEMMA WakeAndLeaveMoves ==
  ASSUME Placed, NEW w \in Workers, NEW u \in Tasks, Wake(w, u),
         job[w] \in Tasks \ {u}, Leave(w)
  PROVE  /\ Placed'
         /\ \A t \in Tasks : Parked(t)' <=> (Parked(t) /\ t # u) \/ t = job[w]
<1>0. job' = [v \in Workers |-> IF v = w THEN Nobody ELSE job[v]]
  BY DEF Leave, Placed
<1>1. CASE ~Parked(u)
  <2>1. UNCHANGED <<queue, slot>>
    BY <1>1 DEF Wake
  <2> QED  BY <1>1, <2>1, LeaveMoves
<1>2. CASE Parked(u)
  <2>1. slot' = [v \in Workers |-> IF v = w THEN u ELSE slot[v]]
    BY <1>2 DEF Wake, Placed
  <2>2. CASE slot[w] = Nobody
    <3>1. queue' = queue
      BY <1>2, <2>2 DEF Wake
    <3>2. Placed'
      BY <1>0, <1>2, <2>1, <3>1, TaskNames, ParkedMeans DEF Placed, OnePlace
    <3>3. \A t \in Tasks : Parked(t)' <=> (Parked(t) /\ t # u) \/ t = job[w]
      BY <1>0, <2>1, <2>2, <3>1, TaskNames DEF Placed, OnePlace, Parked, Places
    <3> QED  BY <3>2, <3>3
  <2>3. CASE slot[w] # Nobody
    <3>1. queue' = Append(queue, slot[w]) /\ slot[w] \in Tasks
      BY <1>2, <2>3 DEF Wake, Placed
    <3>2. Placed'
      BY <1>0, <1>2, <2>1, <3>1, Queued, TaskNames, ParkedMeans DEF Placed, OnePlace
    <3>3. \A t \in Tasks : Parked(t)' <=> (Parked(t) /\ t # u) \/ t = job[w]
      BY <1>0, <1>2, <2>1, <3>1, Queued, TaskNames DEF Placed, OnePlace, Parked, Places
    <3> QED  BY <3>2, <3>3
  <2> QED  BY <2>2, <2>3
<1> QED  BY <1>1, <1>2

LEMMA RestWokenMoves ==
  ASSUME Placed, RestWoken
  PROVE  /\ Placed'
         /\ \A t \in Tasks : Parked(t)' <=> Parked(t) /\ t # Rest
<1>1. Parked(Rest) /\ queue' = Append(queue, Rest) /\ UNCHANGED <<slot, job>> /\ Rest \in Tasks
  BY TaskNames DEF RestWoken
<1>2. Placed'
  BY <1>1, Queued, ParkedMeans DEF Placed, OnePlace
<1>3. \A t \in Tasks : Parked(t)' <=> Parked(t) /\ t # Rest
  BY <1>1, Queued DEF Placed, Parked, Places
<1> QED  BY <1>2, <1>3

-----------------------------------------------------------------------------
(* The initial state.                                                      *)
LEMMA InitRuntimeInv == Init => RuntimeInv
<1> SUFFICES ASSUME Init PROVE RuntimeInv
  OBVIOUS
<1> DEFINE n == Cardinality(Readers)
<1>1. n \in Nat
  BY RuntimeAssumption, FS_CardinalityType
<1>2. PICK order \in SetToSeqs(Readers) : queue = order \o <<Forwarder, Rest>>
  BY DEF Init
<1>3. PICK here \in Workers : slot = [w \in Workers |-> IF w = here THEN Prompt ELSE Nobody]
  BY DEF Init
<1>4. /\ order \in [1 .. n -> Readers]
      /\ \A i, j \in 1 .. n : i # j => order[i] # order[j]
  BY <1>2 DEF SetToSeqs
<1>5. \A r \in Readers : \E i \in 1 .. n : order[i] = r
  <2>1. IsFiniteSet(1 .. n) /\ Cardinality(1 .. n) = n
    BY <1>1, FS_Interval
  <2>2. order \in Injection(1 .. n, Readers)
    BY <1>4 DEF Injection, IsInjective
  <2>3. order \in Surjection(1 .. n, Readers)
    BY <2>1, <2>2, RuntimeAssumption, FS_Injection
  <2> QED  BY <2>3 DEF Surjection
<1> HIDE DEF n
<1>6. /\ order \in Seq(Readers) /\ Len(order) = n
      /\ order \in Seq(Tasks) /\ <<Forwarder, Rest>> \in Seq(Tasks)
  BY <1>1, <1>4, TaskNames
<1>7. /\ queue \in Seq(Tasks) /\ DOMAIN queue = 1 .. (n + 2)
      /\ \A i \in 1 .. n : queue[i] = order[i]
      /\ queue[n + 1] = Forwarder /\ queue[n + 2] = Rest
  <2> DEFINE two == <<Forwarder, Rest>>
  <2>1. Len(two) = 2 /\ two[1] = Forwarder /\ two[2] = Rest
    OBVIOUS
  <2>2. two \in Seq(Tasks)
    BY <1>6
  <2> HIDE DEF two
  <2>3. queue = order \o two
    BY <1>2 DEF two
  <2>4. /\ queue \in Seq(Tasks) /\ Len(queue) = Len(order) + Len(two)
        /\ \A i \in 1 .. Len(order) + Len(two) :
             queue[i] = IF i <= Len(order) THEN order[i] ELSE two[i - Len(order)]
    BY <1>6, <2>2, <2>3, ConcatProperties
  <2>5. /\ n + 1 \in 1 .. (n + 2) /\ (n + 1) - n = 1 /\ ~(n + 1 <= n)
        /\ n + 2 \in 1 .. (n + 2) /\ (n + 2) - n = 2 /\ ~(n + 2 <= n)
        /\ \A i \in 1 .. n : i \in 1 .. (n + 2) /\ i <= n
        /\ Len(order) = n /\ Len(order) + Len(two) = n + 2
    BY <1>1, <1>6, <2>1
  <2>6. \A i \in 1 .. (n + 2) : queue[i] = IF i <= n THEN order[i] ELSE two[i - n]
    BY <2>4, <2>5
  <2>7. \A i \in 1 .. n : queue[i] = order[i]
    BY <2>5, <2>6
  <2>8. queue[n + 1] = Forwarder /\ queue[n + 2] = Rest
    BY <2>1, <2>5, <2>6
  <2>9. DOMAIN queue = 1 .. Len(queue)
    BY <2>4
  <2> QED  BY <2>4, <2>5, <2>7, <2>8, <2>9
<1>8. \A i \in 1 .. (n + 2) : i \in 1 .. n \/ i = n + 1 \/ i = n + 2
  BY <1>1
<1>9. /\ job = [w \in Workers |-> Nobody] /\ spent = [w \in Workers |-> 0]
      /\ reader = [r \in Readers |-> "next"]
      /\ waiters = <<>> /\ inbound = 0 /\ prompt = "typing"
  BY DEF Init
<1>10. TypeOK
  <2>1. 0 \in 0 .. Budget /\ 0 \in 0 .. Capacity
    BY RuntimeAssumption
  <2>2. slot \in [Workers -> Tasks \cup {Nobody}]
    BY <1>3, TaskNames
  <2> QED  BY <1>7, <1>9, <2>1, <2>2 DEF TypeOK
<1>11. OnePlace
  <2>1. \A i \in DOMAIN queue : queue[i] \in Readers \cup {Forwarder, Rest}
    BY <1>4, <1>7, <1>8
  <2>2. \A i, j \in DOMAIN queue : queue[i] = queue[j] => i = j
    BY <1>4, <1>7, <1>8, RuntimeAssumption
  <2> QED  BY <1>3, <1>9, <2>1, <2>2, RuntimeAssumption DEF OnePlace
<1>12. ParkedTasks
  <2>1. ~Parked(Forwarder)
    <3>1. n + 1 \in DOMAIN queue
      BY <1>1, <1>7
    <3> QED  BY <1>7, <3>1, ParkedMeans
  <2>2. ~Parked(Prompt)
    BY <1>3, ParkedMeans
  <2>3. \A r \in Readers : ~Parked(r)
    <3> TAKE r \in Readers
    <3>1. PICK i \in 1 .. n : order[i] = r
      BY <1>5
    <3>2. i \in DOMAIN queue /\ queue[i] = r
      BY <1>1, <1>7, <3>1
    <3> QED  BY <3>2, ParkedMeans
  <2> QED  BY <1>9, <2>1, <2>2, <2>3 DEF ParkedTasks
<1>13. Waiting
  <2>1. Promised = {}
    BY <1>9 DEF Promised
  <2>2. Cardinality(Promised) = 0
    BY <2>1, FS_EmptySet
  <2> QED  BY <1>9, <2>2, RuntimeAssumption DEF Waiting
<1> QED  BY <1>10, <1>11, <1>12, <1>13 DEF RuntimeInv

-----------------------------------------------------------------------------
(* What many steps share.                                                  *)
LEMMA PlacedNow ==
  ASSUME RuntimeInv
  PROVE  Placed /\ Cardinality(Promised) \in Nat /\ inbound \in Nat /\ IsFiniteSet(Promised)
<1>1. IsFiniteSet(Promised)
  <2>1. Promised \in SUBSET Readers
    BY DEF Promised
  <2> QED  BY <2>1, RuntimeAssumption, FS_Subset
<1>2. Cardinality(Promised) \in Nat
  BY <1>1, FS_CardinalityType
<1> QED  BY <1>1, <1>2 DEF RuntimeInv, TypeOK, Placed

LEMMA SpendType ==
  ASSUME RuntimeInv, NEW w \in Workers, Spend(w)
  PROVE  spent' \in [Workers -> 0 .. Budget]
<1>1. spent[w] \in Nat /\ spent[w] < Budget /\ spent' = [spent EXCEPT ![w] = spent[w] + 1]
  BY DEF Spend, RuntimeInv, TypeOK
<1>2. spent[w] + 1 \in 0 .. Budget
  BY <1>1, RuntimeAssumption
<1> QED  BY <1>1, <1>2 DEF RuntimeInv, TypeOK

(* A step of the runtime, of the rest, or a forwarder that parks or spins. *)
LEMMA QuietRuntimeInv ==
  ASSUME RuntimeInv, Placed', UNCHANGED <<reader, waiters, inbound, prompt>>,
         spent' \in [Workers -> 0 .. Budget],
         Parked(Forwarder)' => Parked(Forwarder) \/ (inbound = 0 /\ ~Closed),
         \A t \in Tasks \ {Rest, Forwarder} : Parked(t)' <=> Parked(t)
  PROVE  RuntimeInv'
<1>1. TypeOK' /\ OnePlace'
  BY DEF RuntimeInv, TypeOK, Placed
<1>2. Closed' <=> Closed
  BY DEF Closed
<1>3. /\ Parked(Forwarder)' => Parked(Forwarder) \/ (inbound = 0 /\ ~Closed)
      /\ Parked(Prompt)' <=> Parked(Prompt)
      /\ \A r \in Readers : Parked(r)' <=> Parked(r)
  BY TaskNames, RuntimeAssumption
<1>4. ParkedTasks'
  BY <1>2, <1>3 DEF RuntimeInv, ParkedTasks
<1>5. Promised' = Promised
  BY DEF Promised
<1>6. Waiting'
  BY <1>5 DEF RuntimeInv, Waiting
<1> QED  BY <1>1, <1>4, <1>6 DEF RuntimeInv

LEMMA SchedulerRuntimeInv ==
  ASSUME RuntimeInv, NEW w \in Workers,
         \/ Yield(w) \/ TakeSlot(w) \/ TakeQueue(w) \/ RestWoken
         \/ ForwarderSpins(w) \/ ForwarderParks(w) \/ UNCHANGED vars
  PROVE  RuntimeInv'
<1>0. Placed /\ spent \in [Workers -> 0 .. Budget] /\ 0 \in 0 .. Budget
      /\ job[w] \in Tasks \cup {Nobody}
  BY PlacedNow, RuntimeAssumption DEF RuntimeInv, TypeOK, Placed
<1>1. CASE Yield(w)
  <2>1. /\ job[w] \in Tasks /\ Leave(w) /\ queue' = Append(queue, job[w])
        /\ UNCHANGED <<slot, spent, reader, waiters, inbound, prompt>>
    BY <1>0, <1>1 DEF Yield
  <2>2. Placed' /\ \A t \in Tasks : Parked(t)' <=> Parked(t)
    BY <1>0, <2>1, YieldMoves
  <2> QED  BY <1>0, <2>1, <2>2, QuietRuntimeInv, TaskNames
<1>2. CASE TakeSlot(w)
  <2>1. UNCHANGED <<spent, reader, waiters, inbound, prompt>>
    BY <1>2 DEF TakeSlot
  <2>2. Placed' /\ \A t \in Tasks : Parked(t)' <=> Parked(t)
    BY <1>0, <1>2, TakeSlotMoves
  <2> QED  BY <1>0, <2>1, <2>2, QuietRuntimeInv, TaskNames
<1>3. CASE TakeQueue(w)
  <2>1. UNCHANGED <<reader, waiters, inbound, prompt>> /\ spent' \in [Workers -> 0 .. Budget]
    BY <1>0, <1>3 DEF TakeQueue
  <2>2. Placed' /\ \A t \in Tasks : Parked(t)' <=> Parked(t)
    BY <1>0, <1>3, TakeQueueMoves
  <2> QED  BY <2>1, <2>2, QuietRuntimeInv, TaskNames
<1>4. CASE RestWoken
  <2>1. UNCHANGED <<spent, reader, waiters, inbound, prompt>>
    BY <1>4 DEF RestWoken
  <2>2. Placed' /\ \A t \in Tasks : Parked(t)' <=> Parked(t) /\ t # Rest
    BY <1>0, <1>4, RestWokenMoves
  <2> QED  BY <1>0, <2>1, <2>2, QuietRuntimeInv, TaskNames
<1>5. CASE ForwarderSpins(w)
  <2>1. UNCHANGED <<queue, slot, job, reader, waiters, inbound, prompt>> /\ Spend(w)
    BY <1>5 DEF ForwarderSpins
  <2>2. Placed' /\ \A t \in Tasks : Parked(t)' <=> Parked(t)
    BY <1>0, <2>1 DEF Placed, OnePlace, Parked, Places
  <2>3. spent' \in [Workers -> 0 .. Budget]
    BY <2>1, SpendType
  <2> QED  BY <2>1, <2>2, <2>3, QuietRuntimeInv, TaskNames
<1>6. CASE ForwarderParks(w)
  <2>1. /\ job[w] = Forwarder /\ inbound = 0 /\ ~Closed /\ Leave(w) /\ Forwarder \in Tasks
        /\ UNCHANGED <<queue, slot, spent, reader, waiters, inbound, prompt>>
    BY <1>6, TaskNames DEF ForwarderParks
  <2>2. Placed' /\ \A t \in Tasks : Parked(t)' <=> Parked(t) \/ t = Forwarder
    BY <1>0, <2>1, LeaveMoves
  <2> QED  BY <1>0, <2>1, <2>2, QuietRuntimeInv, TaskNames
<1>7. CASE UNCHANGED vars
  <2>1. UNCHANGED <<queue, slot, job, spent, reader, waiters, inbound, prompt>>
    BY <1>7 DEF vars
  <2>2. Placed' /\ \A t \in Tasks : Parked(t)' <=> Parked(t)
    BY <1>0, <2>1 DEF Placed, OnePlace, Parked, Places
  <2> QED  BY <1>0, <2>1, <2>2, QuietRuntimeInv, TaskNames
<1> QED  BY <1>1, <1>2, <1>3, <1>4, <1>5, <1>6, <1>7

-----------------------------------------------------------------------------
(* The readers.                                                            *)

(* Nobody gets, or gives back, room.                                       *)
LEMMA PromisedSame ==
  ASSUME \A r \in Readers : reader'[r] = "granted" <=> reader[r] = "granted"
  PROVE  Promised' = Promised
  BY DEF Promised

LEMMA FrameReadInv ==
  ASSUME RuntimeInv, NEW w \in Workers, NEW r \in Readers, FrameRead(w, r)
  PROVE  RuntimeInv'
<1>1. /\ job[w] = r /\ reader[r] = "next"
      /\ reader' = [q \in Readers |-> IF q = r THEN "sending" ELSE reader[q]]
      /\ UNCHANGED <<queue, slot, job, spent, waiters, inbound, prompt>>
  BY DEF FrameRead, Reads, RuntimeInv, TypeOK
<1>2. TypeOK' /\ OnePlace'
  BY <1>1 DEF RuntimeInv, TypeOK, OnePlace
<1>3. ~Closed'
  BY <1>1 DEF Closed
<1>4. ParkedTasks'
  BY <1>1, <1>3 DEF RuntimeInv, ParkedTasks, Parked, Places
<1>5. Promised' = Promised
  BY <1>1, PromisedSame
<1>6. Waiting'
  BY <1>1, <1>5 DEF RuntimeInv, Waiting
<1> QED  BY <1>2, <1>4, <1>6 DEF RuntimeInv

LEMMA ReadFailsInv ==
  ASSUME RuntimeInv, NEW w \in Workers, NEW r \in Readers, ReadFails(w, r)
  PROVE  RuntimeInv'
<1> DEFINE last == \A s \in Readers \ {r} : reader[s] = "dead"
<1>1. /\ job[w] = r /\ reader[r] = "next"
      /\ reader' = [q \in Readers |-> IF q = r THEN "dead" ELSE reader[q]]
      /\ Leave(w) /\ UNCHANGED <<spent, waiters, inbound, prompt>>
      /\ last => Wake(w, Forwarder)
      /\ ~last => UNCHANGED <<slot, queue>>
  BY DEF ReadFails, Reads, RuntimeInv, TypeOK
<1>2. /\ Placed /\ r \in Tasks /\ Forwarder \in Tasks /\ Prompt \in Tasks
      /\ r \notin {Forwarder, Prompt} /\ Forwarder # Prompt /\ Readers \subseteq Tasks
      /\ Forwarder \notin Readers /\ Prompt \notin Readers
  BY PlacedNow, TaskNames, RuntimeAssumption
<1>3. Closed' <=> last
  BY <1>1 DEF Closed
<1>4. /\ Placed'
      /\ \A t \in Tasks : Parked(t)' <=> (Parked(t) /\ ~(last /\ t = Forwarder)) \/ t = r
  <2>1. CASE last
    <3>1. Wake(w, Forwarder) /\ job[w] \in Tasks \ {Forwarder}
      BY <1>1, <1>2, <2>1
    <3> HIDE DEF last
    <3> QED  BY <1>1, <1>2, <2>1, <3>1, WakeAndLeaveMoves
  <2>2. CASE ~last
    <3>1. UNCHANGED <<queue, slot>>
      BY <1>1, <2>2
    <3> HIDE DEF last
    <3> QED  BY <1>1, <1>2, <2>2, <3>1, LeaveMoves
  <2> QED  BY <2>1, <2>2
<1> HIDE DEF last
<1>5. TypeOK' /\ OnePlace'
  BY <1>1, <1>4 DEF RuntimeInv, TypeOK, Placed
<1>6. ParkedTasks'
  <2>1. Parked(Forwarder)' => inbound' = 0 /\ ~Closed'
    BY <1>1, <1>2, <1>3, <1>4 DEF RuntimeInv, ParkedTasks
  <2>2. Parked(Prompt)' <=> prompt' # "typing"
    BY <1>1, <1>2, <1>4 DEF RuntimeInv, ParkedTasks
  <2>3. \A q \in Readers : Parked(q)' <=> reader'[q] \in {"waiting", "dead"}
    BY <1>1, <1>2, <1>4 DEF RuntimeInv, ParkedTasks
  <2> QED  BY <2>1, <2>2, <2>3 DEF ParkedTasks
<1>7. Promised' = Promised
  BY <1>1, PromisedSame
<1>8. Waiting'
  BY <1>1, <1>7 DEF RuntimeInv, Waiting
<1> QED  BY <1>5, <1>6, <1>8 DEF RuntimeInv

LEMMA PassOnInv ==
  ASSUME RuntimeInv, NEW w \in Workers, NEW r \in Readers, PassOn(w, r)
  PROVE  RuntimeInv'
<1>1. /\ job[w] = r /\ reader[r] \in {"sending", "granted"}
      /\ reader' = [q \in Readers |-> IF q = r THEN "next" ELSE reader[q]]
      /\ Room(r) /\ inbound' = inbound + 1 /\ Wake(w, Forwarder) /\ Spend(w)
      /\ UNCHANGED <<job, waiters, prompt>>
  BY DEF PassOn, Reads, RuntimeInv, TypeOK
<1>2. /\ Placed /\ Cardinality(Promised) \in Nat /\ inbound \in Nat /\ IsFiniteSet(Promised)
      /\ Forwarder \in Tasks /\ Prompt \in Tasks /\ Readers \subseteq Tasks
      /\ Forwarder # Prompt /\ Forwarder \notin Readers /\ Prompt \notin Readers
  BY PlacedNow, TaskNames, RuntimeAssumption
<1>3. Placed' /\ \A t \in Tasks : Parked(t)' <=> Parked(t) /\ t # Forwarder
  BY <1>1, <1>2, WakeMoves
<1>4. ParkedTasks'
  <2>1. ~Parked(Forwarder)'
    BY <1>2, <1>3
  <2>2. Parked(Prompt)' <=> prompt' # "typing"
    BY <1>1, <1>2, <1>3 DEF RuntimeInv, ParkedTasks
  <2>3. \A q \in Readers : Parked(q)' <=> reader'[q] \in {"waiting", "dead"}
    BY <1>1, <1>2, <1>3 DEF RuntimeInv, ParkedTasks
  <2> QED  BY <2>1, <2>2, <2>3 DEF ParkedTasks
<1>5. /\ inbound' + Cardinality(Promised') <= Capacity
      /\ waiters # <<>> => inbound' + Cardinality(Promised') = Capacity
      /\ Cardinality(Promised') \in Nat
  <2>1. CASE reader[r] = "sending"
    <3>1. Promised' = Promised
      BY <1>1, <2>1, PromisedSame
    <3>2. inbound + Cardinality(Promised) < Capacity
      BY <1>1, <2>1 DEF Room
    <3> QED  BY <1>1, <1>2, <3>1, <3>2, RuntimeAssumption DEF RuntimeInv, Waiting
  <2>2. CASE reader[r] = "granted"
    <3>1. r \in Promised /\ Promised' = Promised \ {r}
      BY <1>1, <2>2 DEF Promised
    <3>2. Cardinality(Promised') = Cardinality(Promised) - 1 /\ Cardinality(Promised') \in Nat
      BY <1>2, <3>1, FS_RemoveElement, FS_CardinalityType
    <3> QED  BY <1>1, <1>2, <3>2, RuntimeAssumption DEF RuntimeInv, Waiting
  <2> QED  BY <1>1, <2>1, <2>2
<1>6. Waiting'
  <2>1. \A q \in Readers : reader'[q] = "waiting" <=> reader[q] = "waiting"
    BY <1>1
  <2> QED  BY <1>1, <1>5, <2>1 DEF RuntimeInv, Waiting
<1>7. inbound' \in 0 .. Capacity
  BY <1>1, <1>2, <1>5, RuntimeAssumption
<1>8. TypeOK' /\ OnePlace'
  <2>1. spent' \in [Workers -> 0 .. Budget]
    BY <1>1, SpendType
  <2> QED  BY <1>1, <1>3, <1>7, <2>1 DEF RuntimeInv, TypeOK, Placed
<1> QED  BY <1>4, <1>6, <1>8 DEF RuntimeInv

LEMMA WaitForRoomInv ==
  ASSUME RuntimeInv, NEW w \in Workers, NEW r \in Readers, WaitForRoom(w, r)
  PROVE  RuntimeInv'
<1>1. /\ job[w] = r /\ reader[r] = "sending"
      /\ reader' = [q \in Readers |-> IF q = r THEN "waiting" ELSE reader[q]]
      /\ ~Room(r) /\ waiters' = Append(waiters, r) /\ Spend(w) /\ Leave(w)
      /\ UNCHANGED <<queue, slot, inbound, prompt>>
  BY DEF WaitForRoom, Reads, RuntimeInv, TypeOK
<1>2. /\ Placed /\ Cardinality(Promised) \in Nat /\ inbound \in Nat
      /\ Forwarder \in Tasks /\ Prompt \in Tasks /\ Readers \subseteq Tasks
      /\ Forwarder # Prompt /\ Forwarder \notin Readers /\ Prompt \notin Readers
  BY PlacedNow, TaskNames, RuntimeAssumption
<1>3. Placed' /\ \A t \in Tasks : Parked(t)' <=> Parked(t) \/ t = r
  BY <1>1, <1>2, LeaveMoves
<1>4. ~Closed'
  BY <1>1 DEF Closed
<1>5. ParkedTasks'
  <2>1. Parked(Forwarder)' => inbound' = 0 /\ ~Closed'
    BY <1>1, <1>2, <1>3, <1>4 DEF RuntimeInv, ParkedTasks
  <2>2. Parked(Prompt)' <=> prompt' # "typing"
    BY <1>1, <1>2, <1>3 DEF RuntimeInv, ParkedTasks
  <2>3. \A q \in Readers : Parked(q)' <=> reader'[q] \in {"waiting", "dead"}
    BY <1>1, <1>2, <1>3 DEF RuntimeInv, ParkedTasks
  <2> QED  BY <2>1, <2>2, <2>3 DEF ParkedTasks
<1>6. Promised' = Promised
  BY <1>1, PromisedSame
<1>7. waiters \in Seq(Readers) /\ waiters' \in Seq(Readers)
      /\ DOMAIN waiters' = DOMAIN waiters \cup {Len(waiters) + 1}
      /\ Len(waiters) + 1 \notin DOMAIN waiters
      /\ waiters'[Len(waiters) + 1] = r
      /\ \A i \in DOMAIN waiters : waiters'[i] = waiters[i]
  BY <1>1 DEF RuntimeInv, TypeOK
<1>8. Waiting'
  <2>1. inbound + Cardinality(Promised) = Capacity
    BY <1>1, <1>2, RuntimeAssumption DEF RuntimeInv, Waiting, Room
  <2>2. \A i \in DOMAIN waiters : waiters[i] # r
    BY <1>1 DEF RuntimeInv, Waiting
  <2>3. \A i, j \in DOMAIN waiters' : waiters'[i] = waiters'[j] => i = j
    BY <1>7, <2>2 DEF RuntimeInv, Waiting
  <2>4. \A q \in Readers : reader'[q] = "waiting" <=> \E i \in DOMAIN waiters' : waiters'[i] = q
    BY <1>1, <1>7 DEF RuntimeInv, Waiting
  <2> QED  BY <1>1, <1>2, <1>6, <2>1, <2>3, <2>4, RuntimeAssumption DEF Waiting
<1>9. TypeOK' /\ OnePlace'
  <2>1. spent' \in [Workers -> 0 .. Budget]
    BY <1>1, SpendType
  <2> QED  BY <1>1, <1>3, <1>7, <2>1 DEF RuntimeInv, TypeOK, Placed
<1> QED  BY <1>5, <1>8, <1>9 DEF RuntimeInv

-----------------------------------------------------------------------------
(* The forwarder takes a frame, and the room goes to whoever waits longest. *)
LEMMA ForwardInv ==
  ASSUME RuntimeInv, NEW w \in Workers, Forward(w)
  PROVE  RuntimeInv'
<1>1. /\ job[w] = Forwarder /\ inbound > 0 /\ inbound' = inbound - 1 /\ Spend(w)
      /\ UNCHANGED <<job, prompt>>
  BY DEF Forward
<1>2. /\ Placed /\ Cardinality(Promised) \in Nat /\ inbound \in Nat /\ IsFiniteSet(Promised)
      /\ Forwarder \in Tasks /\ Prompt \in Tasks /\ Readers \subseteq Tasks
      /\ Forwarder # Prompt /\ Forwarder \notin Readers /\ Prompt \notin Readers
      /\ waiters \in Seq(Readers) /\ inbound \in 0 .. Capacity
  BY PlacedNow, TaskNames, RuntimeAssumption DEF RuntimeInv, TypeOK
<1>3. spent' \in [Workers -> 0 .. Budget] /\ inbound' \in 0 .. Capacity
  BY <1>1, <1>2, SpendType, RuntimeAssumption
<1>4. ~Parked(Forwarder)
  BY <1>1, ParkedMeans
<1>5. CASE waiters = <<>>
  <2>1. UNCHANGED <<waiters, reader, slot, queue>>
    BY <1>5 DEF Forward
  <2>2. TypeOK' /\ OnePlace'
    BY <1>1, <1>3, <2>1 DEF RuntimeInv, TypeOK, OnePlace
  <2>3. \A t : Parked(t)' <=> Parked(t)
    BY <1>1, <2>1 DEF Parked, Places
  <2>4. ParkedTasks'
    BY <1>1, <1>4, <2>1, <2>3 DEF RuntimeInv, ParkedTasks
  <2>5. Promised' = Promised
    BY <2>1 DEF Promised
  <2>6. Waiting'
    BY <1>1, <1>2, <1>5, <2>1, <2>5, RuntimeAssumption DEF RuntimeInv, Waiting
  <2> QED  BY <2>2, <2>4, <2>6 DEF RuntimeInv
<1>6. CASE waiters # <<>>
  <2> DEFINE h == waiters[1]
  <2>1. /\ h \in Readers /\ 1 \in DOMAIN waiters /\ Head(waiters) = h
        /\ Tail(waiters) \in Seq(Readers)
        /\ \A i \in DOMAIN Tail(waiters) : /\ i + 1 \in DOMAIN waiters /\ i + 1 # 1 /\ i \in Nat
                                          /\ Tail(waiters)[i] = waiters[i + 1]
        /\ \A i \in DOMAIN waiters : i = 1 \/ (i - 1 \in DOMAIN Tail(waiters) /\ (i - 1) + 1 = i)
    BY <1>2, <1>6
  <2> HIDE DEF h
  <2>2. /\ waiters' = Tail(waiters) /\ Wake(w, h)
        /\ reader' = [q \in Readers |-> IF q = h THEN "granted" ELSE reader[q]]
    BY <1>6, <2>1 DEF Forward, RuntimeInv, TypeOK
  <2>3. reader[h] = "waiting"
    BY <2>1 DEF RuntimeInv, Waiting, h
  <2>4. Placed' /\ \A t \in Tasks : Parked(t)' <=> Parked(t) /\ t # h
    BY <1>1, <1>2, <2>1, <2>2, WakeMoves
  <2>5. TypeOK' /\ OnePlace'
    BY <1>1, <1>3, <2>1, <2>2, <2>4 DEF RuntimeInv, TypeOK, Placed
  <2>6. ParkedTasks'
    <3>1. ~Parked(Forwarder)'
      BY <1>2, <1>4, <2>4
    <3>2. Parked(Prompt)' <=> prompt' # "typing"
      BY <1>1, <1>2, <2>1, <2>4 DEF RuntimeInv, ParkedTasks
    <3>3. \A q \in Readers : Parked(q)' <=> reader'[q] \in {"waiting", "dead"}
      BY <1>2, <2>1, <2>2, <2>3, <2>4 DEF RuntimeInv, ParkedTasks
    <3> QED  BY <3>1, <3>2, <3>3 DEF ParkedTasks
  <2>7. Cardinality(Promised') = Cardinality(Promised) + 1
    <3>1. h \notin Promised /\ Promised' = Promised \cup {h}
      BY <2>1, <2>2, <2>3 DEF Promised
    <3> QED  BY <1>2, <3>1, FS_AddElement
  <2>8. Waiting'
    <3>1. inbound' + Cardinality(Promised') = Capacity
      BY <1>1, <1>2, <1>6, <2>7, RuntimeAssumption DEF RuntimeInv, Waiting
    <3>2. \A i, j \in DOMAIN waiters' : waiters'[i] = waiters'[j] => i = j
      <4> SUFFICES ASSUME NEW i \in DOMAIN Tail(waiters), NEW j \in DOMAIN Tail(waiters),
                          Tail(waiters)[i] = Tail(waiters)[j]
                   PROVE  i = j
        BY <2>2
      <4>1. i + 1 = j + 1
        BY <2>1 DEF RuntimeInv, Waiting
      <4> QED  BY <2>1, <4>1
    <3>3. \A q \in Readers : (\E i \in DOMAIN waiters : waiters[i] = q)
            <=> q = h \/ \E i \in DOMAIN Tail(waiters) : Tail(waiters)[i] = q
      <4> TAKE q \in Readers
      <4>1. ASSUME NEW i \in DOMAIN waiters, waiters[i] = q
            PROVE  q = h \/ \E j \in DOMAIN Tail(waiters) : Tail(waiters)[j] = q
        BY <2>1, <4>1 DEF h
      <4>2. ASSUME NEW i \in DOMAIN Tail(waiters), Tail(waiters)[i] = q
            PROVE  \E j \in DOMAIN waiters : waiters[j] = q
        BY <2>1, <4>2
      <4>3. q = h => \E j \in DOMAIN waiters : waiters[j] = q
        BY <2>1 DEF h
      <4> QED  BY <4>1, <4>2, <4>3
    <3>4. \A i \in DOMAIN Tail(waiters) : Tail(waiters)[i] # h
      BY <2>1 DEF RuntimeInv, Waiting, h
    <3>5. \A q \in Readers : reader'[q] = "waiting" <=> \E i \in DOMAIN waiters' : waiters'[i] = q
      BY <2>1, <2>2, <3>3, <3>4 DEF RuntimeInv, Waiting
    <3> QED  BY <1>3, <2>7, <1>2, <3>1, <3>2, <3>5, RuntimeAssumption DEF Waiting
  <2> QED  BY <2>5, <2>6, <2>8 DEF RuntimeInv
<1> QED  BY <1>5, <1>6

-----------------------------------------------------------------------------
(* The prompt and the rest.                                                *)
LEMMA PromptInv ==
  ASSUME RuntimeInv, NEW w \in Workers, Typed(w) \/ PromptFails(w) \/ RestWorks(w)
  PROVE  RuntimeInv'
<1>1. /\ Placed /\ spent \in [Workers -> 0 .. Budget]
      /\ Forwarder \in Tasks /\ Prompt \in Tasks /\ Rest \in Tasks /\ Readers \subseteq Tasks
      /\ Forwarder # Prompt /\ Forwarder # Rest /\ Prompt # Rest
      /\ Forwarder \notin Readers /\ Prompt \notin Readers /\ Rest \notin Readers
  BY PlacedNow, TaskNames, RuntimeAssumption DEF RuntimeInv, TypeOK
<1>2. UNCHANGED <<reader, waiters, inbound>> /\ prompt' \in {"typing", "awaiting", "dead"}
      /\ spent' \in [Workers -> 0 .. Budget]
  BY <1>1, SpendType DEF Typed, PromptFails, RestWorks, RuntimeInv, TypeOK
<1>3. /\ Placed'
      /\ \A t \in Readers \cup {Forwarder} : Parked(t)' <=> Parked(t)
      /\ Parked(Prompt)' <=> prompt' # "typing"
  <2>1. CASE Typed(w)
    <3>1. job[w] = Prompt /\ prompt' = "awaiting" /\ Leave(w) /\ Wake(w, Rest)
      BY <2>1 DEF Typed
    <3>2. Placed' /\ \A t \in Tasks : Parked(t)' <=> (Parked(t) /\ t # Rest) \/ t = Prompt
      BY <1>1, <3>1, WakeAndLeaveMoves
    <3> QED  BY <1>1, <3>1, <3>2
  <2>2. CASE PromptFails(w)
    <3>1. job[w] = Prompt /\ prompt' = "dead" /\ Leave(w) /\ UNCHANGED <<queue, slot>>
      BY <2>2 DEF PromptFails
    <3>2. Placed' /\ \A t \in Tasks : Parked(t)' <=> Parked(t) \/ t = Prompt
      BY <1>1, <3>1, LeaveMoves
    <3> QED  BY <1>1, <3>1, <3>2
  <2>3. CASE RestWorks(w) /\ prompt = "awaiting"
    <3>1. job[w] = Rest /\ prompt' = "typing" /\ Leave(w) /\ Wake(w, Prompt)
      BY <2>3 DEF RestWorks
    <3>2. Placed' /\ \A t \in Tasks : Parked(t)' <=> (Parked(t) /\ t # Prompt) \/ t = Rest
      BY <1>1, <3>1, WakeAndLeaveMoves
    <3> QED  BY <1>1, <3>1, <3>2
  <2>4. CASE RestWorks(w) /\ prompt # "awaiting"
    <3>1. job[w] = Rest /\ Leave(w) /\ UNCHANGED <<prompt, queue, slot>>
      BY <2>4 DEF RestWorks
    <3>2. Placed' /\ \A t \in Tasks : Parked(t)' <=> Parked(t) \/ t = Rest
      BY <1>1, <3>1, LeaveMoves
    <3> QED  BY <1>1, <3>1, <3>2 DEF RuntimeInv, ParkedTasks
  <2> QED  BY <2>1, <2>2, <2>3, <2>4
<1>4. TypeOK' /\ OnePlace'
  BY <1>2, <1>3 DEF RuntimeInv, TypeOK, Placed
<1>5. ParkedTasks'
  <2>1. Closed' <=> Closed
    BY <1>2 DEF Closed
  <2> QED  BY <1>2, <1>3, <2>1 DEF RuntimeInv, ParkedTasks
<1>6. Waiting'
  <2>1. Promised' = Promised
    BY <1>2 DEF Promised
  <2> QED  BY <1>2, <2>1 DEF RuntimeInv, Waiting
<1> QED  BY <1>4, <1>5, <1>6 DEF RuntimeInv

LEMMA StepRuntimeInv == RuntimeInv /\ [Next]_vars => RuntimeInv'
<1> SUFFICES ASSUME RuntimeInv, [Next]_vars PROVE RuntimeInv'
  OBVIOUS
<1>1. ASSUME NEW w \in Workers, Runs(w) PROVE RuntimeInv'
  BY <1>1, SchedulerRuntimeInv, PassOnInv, WaitForRoomInv, ForwardInv, PromptInv DEF Runs
<1>2. ASSUME RestWoken \/ UNCHANGED vars, NEW w \in Workers PROVE RuntimeInv'
  BY <1>2, SchedulerRuntimeInv
<1>3. ASSUME NEW w \in Workers, NEW r \in Readers, FrameRead(w, r) \/ ReadFails(w, r)
      PROVE  RuntimeInv'
  BY <1>3, FrameReadInv, ReadFailsInv
<1>4. ASSUME NEW w \in Workers, Typed(w) \/ PromptFails(w) PROVE RuntimeInv'
  BY <1>4, PromptInv
<1>5. Workers # {}
  BY RuntimeAssumption
<1> QED  BY <1>1, <1>2, <1>3, <1>4, <1>5 DEF Next

(* The variables keep their types: the channel is never overfull and no    *)
(* worker spends more than its budget.                                     *)
THEOREM RuntimeTypeCorrect == Spec => []TypeOK
<1>1. RuntimeInv => TypeOK
  BY DEF RuntimeInv
<1> QED  BY <1>1, InitRuntimeInv, StepRuntimeInv, PTL DEF Spec

(* No wake-up is lost, however readers, forwarder and prompt on different  *)
(* workers park, wake, die and hand on the room in the channel.            *)
THEOREM WakeUpsCorrect == Spec => []NoWakeUpIsLost
<1>1. RuntimeInv => NoWakeUpIsLost
  BY DEF RuntimeInv, ParkedTasks, Waiting, NoWakeUpIsLost
<1> QED  BY <1>1, InitRuntimeInv, StepRuntimeInv, PTL DEF Spec

-----------------------------------------------------------------------------
(* Enough workers.                                                         *)

SomeWorkerIsFree == \E w \in Workers : ~Blocked(w)

(* A task blocks the one worker that polls it, so the readers and the      *)
(* prompt cannot block more workers than there are of them.                *)
LEMMA BlockedAreFew ==
  ASSUME IsFiniteSet(Workers), Cardinality(Workers) > Cardinality(Readers) + 1, RuntimeInv
  PROVE  SomeWorkerIsFree
<1> SUFFICES ASSUME \A w \in Workers : Blocked(w) PROVE FALSE
  BY DEF SomeWorkerIsFree
<1> DEFINE blockers == Readers \cup {Prompt}
           polled == [w \in Workers |-> job[w]]
<1>1. \A w \in Workers : job[w] \in blockers
  BY DEF Blocked
<1>2. IsFiniteSet(blockers) /\ Cardinality(blockers) = Cardinality(Readers) + 1
  BY RuntimeAssumption, FS_AddElement
<1>3. polled \in [Workers -> blockers]
  BY <1>1
<1>4. PICK v, w \in Workers : v # w /\ polled[v] = polled[w]
  <2> HIDE DEF blockers, polled
  <2>1. Cardinality(blockers) < Cardinality(Workers)
    BY <1>2, FS_CardinalityType, RuntimeAssumption
  <2> QED  BY <1>2, <1>3, <2>1, FS_PigeonHole
<1>5. job[v] = Nobody
  BY <1>4 DEF RuntimeInv, OnePlace
<1> QED  BY <1>1, <1>5, RuntimeAssumption

(* With one worker more than readers and prompt there is always one that   *)
(* dl_rx.next() and prompt() leave to the other tasks.                     *)
THEOREM EnoughWorkers ==
  ASSUME IsFiniteSet(Workers), Cardinality(Workers) > Cardinality(Readers) + 1
  PROVE  Spec => []SomeWorkerIsFree
<1>1. RuntimeInv => SomeWorkerIsFree
  BY BlockedAreFew
<1> QED  BY <1>1, InitRuntimeInv, StepRuntimeInv, PTL DEF Spec

(* What RunnableIsPolled promises of a task is then all that a task needs: *)
(* no task starves, whatever the readers and the user at the prompt do.    *)
COROLLARY NobodyStarves ==
  ASSUME IsFiniteSet(Workers), Cardinality(Workers) > Cardinality(Readers) + 1,
         NEW t \in Tasks
  PROVE  Spec /\ (Places(t) # {} ~> (Places(t) = {} \/ [](\A w \in Workers : Blocked(w))))
           => (Places(t) # {} ~> Places(t) = {})
<1>1. SomeWorkerIsFree => ~(\A w \in Workers : Blocked(w))
  BY DEF SomeWorkerIsFree
<1> QED  BY <1>1, EnoughWorkers, PTL
=============================================================================
