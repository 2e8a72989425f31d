----------------------------- MODULE CliProofs -----------------------------
(***************************************************************************)
(* Proofs about the command line on top of neighbour discovery, for any    *)
(* capacity of the channel of commands.                                    *)
(***************************************************************************)
EXTENDS Cli, DiscoveryProofs

(* One command at a time is under way, and only while the prompt waits for *)
(* it: in the channel of commands, then with the server task.              *)
OneCommand ==
  /\ prompt \in {"reading", "sending", "waiting", "dead", "exited"}
  /\ {asked, serving} \subseteq Actor!TableType \cup {NoTable}
  /\ requests \in Seq(Actor!TableType) /\ Len(requests) <= 1
  /\ prompt = "sending" => answer = Pending
  /\ prompt # "waiting" \/ answer # Pending => requests = <<>> /\ serving = NoTable
  /\ serving # NoTable => requests = <<>>
  /\ prompt = "sending" => asked \in Actor!TableType

(* While the server task lists a table its list is in the command channel  *)
(* at most once, and has not been answered then.                           *)
OneListing ==
  /\ serving = NoTable => pc[Console] = "idle"
  /\ pc[Console] = "sending" => reply[Console] = Pending
  /\ \A k \in 1 .. Len(queue) : queue[k].from = Console =>
       /\ pc[Console] = "waiting" /\ reply[Console] = Pending
       /\ \A j \in 1 .. Len(queue) : queue[j].from = Console => j = k

(* Errors come from the death of the State task, and that comes with one.  *)
DeathIsAnswered ==
  /\ answer = Err => server = "dead"
  /\ reply[Console] = Err => server = "dead"
  /\ server = "dead" =>
       \/ prompt = "dead"
       \/ prompt = "waiting" /\ serving # NoTable /\ reply[Console] = Err
       \/ prompt = "waiting" /\ serving = NoTable /\ answer = Err

CliInv == DiscoveryInv /\ OneCommand /\ OneListing /\ DeathIsAnswered

-----------------------------------------------------------------------------
LEMMA InitCliInv == CliInit => CliInv
<1> SUFFICES ASSUME CliInit PROVE CliInv
  OBVIOUS
<1>1. DiscoveryInv
  BY InitDiscoveryInv DEF CliInit
<1>2. OneCommand /\ OneListing /\ DeathIsAnswered
  BY DiscoveryAssumption
     DEF CliInit, Init, Actor!Init, OneCommand, OneListing, DeathIsAnswered, Console
<1> QED  BY <1>1, <1>2 DEF CliInv

(* The steps of the prompt task.                                           *)
PromptNext ==
  \/ \E table \in Actor!TableType : TypeTable(table)
  \/ Leave \/ SendRequest \/ TakeAnswer

LEMMA PromptCliInv ==
  ASSUME CliInv, PromptNext
  PROVE  CliInv'
<1>1. UNCHANGED vars /\ UNCHANGED <<queue, server, pc, reply, serving>>
  BY DEF PromptNext, TypeTable, Leave, SendRequest, TakeAnswer, vars
<1>2. DiscoveryInv'
  BY <1>1, StutterDiscoveryInv DEF CliInv
<1>3. OneListing'
  BY <1>1 DEF CliInv, OneListing
<1>4. OneCommand'
  <2>1. CASE \E table \in Actor!TableType : TypeTable(table)
    BY <2>1 DEF TypeTable, CliInv, OneCommand
  <2>2. CASE Leave
    BY <2>2 DEF Leave, CliInv, OneCommand
  <2>3. CASE SendRequest
    <3>1. requests = <<>> /\ asked \in Actor!TableType /\ answer = Pending /\ serving = NoTable
      BY <2>3 DEF SendRequest, CliInv, OneCommand
    <3>2. requests' = <<asked>>
      BY <2>3, <3>1 DEF SendRequest
    <3> QED  BY <2>3, <3>1, <3>2 DEF SendRequest, CliInv, OneCommand
  <2>4. CASE TakeAnswer
    BY <2>4 DEF TakeAnswer, CliInv, OneCommand
  <2> QED  BY <2>1, <2>2, <2>3, <2>4 DEF PromptNext
<1>5. DeathIsAnswered'
  <2>1. CASE \E table \in Actor!TableType : TypeTable(table)
    BY <1>1, <2>1, DiscoveryAssumption DEF TypeTable, CliInv, DeathIsAnswered
  <2>2. CASE Leave
    BY <1>1, <2>2 DEF Leave, CliInv, DeathIsAnswered
  <2>3. CASE SendRequest
    BY <1>1, <2>3 DEF SendRequest, CliInv, DeathIsAnswered
  <2>4. CASE TakeAnswer
    BY <1>1, <2>4 DEF TakeAnswer, CliInv, OneCommand, DeathIsAnswered
  <2> QED  BY <2>1, <2>2, <2>3, <2>4 DEF PromptNext
<1> QED  BY <1>2, <1>3, <1>4, <1>5 DEF CliInv

(* The steps of the server task.                                           *)
LEMMA ServeCliInv ==
  ASSUME CliInv, Serve
  PROVE  CliInv'
<1> DEFINE t == Head(requests)
<1>1. /\ serving = NoTable /\ requests # <<>> /\ serving' = t /\ requests' = Tail(requests)
      /\ ListTable(t) /\ UNCHANGED <<prompt, asked, answer>>
  BY DEF Serve
<1>2. t \in Actor!TableType /\ requests' = <<>>
  BY <1>1 DEF CliInv, OneCommand
<1>3. prompt = "waiting" /\ answer = Pending
  BY <1>1 DEF CliInv, OneCommand
<1>4. DiscoveryInv'
  BY <1>1, <1>2, ListDiscoveryInv DEF CliInv
<1>5. /\ pc[Console] = "idle" /\ reply'[Console] = Pending
      /\ queue' = queue /\ server' = server
  BY <1>1 DEF ListTable, Actor!Call, CliInv, DiscoveryInv, Actor!TypeOK
<1>6. server # "dead"
  BY <1>1, <1>3, AnswerTypes DEF CliInv, DeathIsAnswered
<1>7. OneCommand'
  BY <1>1, <1>2, <1>3 DEF CliInv, OneCommand
<1>8. OneListing'
  <2>1. \A k \in 1 .. Len(queue) : queue[k].from # Console
    BY <1>5 DEF CliInv, OneListing
  <2>2. serving' = NoTable => pc'[Console] = "idle"
    BY <1>1, <1>2, CliAssumption
  <2> QED  BY <1>5, <2>1, <2>2 DEF OneListing
<1>9. DeathIsAnswered'
  BY <1>1, <1>3, <1>5, <1>6, AnswerTypes DEF DeathIsAnswered
<1> QED  BY <1>4, <1>7, <1>8, <1>9 DEF CliInv

LEMMA AnswerCliInv ==
  ASSUME CliInv, AnswerPrompt
  PROVE  CliInv'
<1>1. /\ serving # NoTable /\ pc[Console] = "idle" /\ answer' = reply[Console]
      /\ serving' = NoTable /\ UNCHANGED <<prompt, asked, requests>> /\ UNCHANGED vars
      /\ UNCHANGED <<queue, server, pc, reply>>
  BY DEF AnswerPrompt, vars
<1>2. requests = <<>> /\ prompt = "waiting"
  BY <1>1 DEF CliInv, OneCommand
<1>3. DiscoveryInv'
  BY <1>1, StutterDiscoveryInv DEF CliInv
<1>4. OneCommand'
  BY <1>1, <1>2 DEF CliInv, OneCommand
<1>5. OneListing'
  BY <1>1 DEF CliInv, OneListing
<1>6. DeathIsAnswered'
  BY <1>1, <1>2 DEF CliInv, DeathIsAnswered
<1> QED  BY <1>3, <1>4, <1>5, <1>6 DEF CliInv

-----------------------------------------------------------------------------
(* The steps of Discovery.  Of those only sending, returning and serving   *)
(* have to do with the Console.                                            *)
LEMMA OtherWork ==
  ASSUME CliInv, UNCHANGED cliVars,
         \/ \E frame \in Hello \cup {Noise} : Arrive(frame)
         \/ SkipFrame \/ TakeHello \/ GetReturned \/ HelloDone
  PROVE  OneListing' /\ DeathIsAnswered'
<1>1. /\ queue' = queue /\ server' = server
      /\ pc'[Console] = pc[Console] /\ reply'[Console] = reply[Console]
  BY DEF Arrive, SkipFrame, TakeHello, GetReturned, GiveUp, StoreNeighbor, HelloDone,
         actorVars, Actor!Call, CliInv, DiscoveryInv, Actor!TypeOK, Receiver, Console
<1> QED  BY <1>1 DEF CliInv, OneListing, DeathIsAnswered, cliVars

LEMMA SendWork ==
  ASSUME CliInv, UNCHANGED cliVars, NEW c \in {Receiver, Console}, SendCommand(c)
  PROVE  OneListing' /\ DeathIsAnswered'
<1> DEFINE entry == [from |-> c, cmd |-> cmd[c], open |-> Actor!IsQuery(cmd[c])]
<1>1. /\ Actor!Send(c) /\ UNCHANGED <<server, reply>> /\ pc[c] = "sending"
      /\ pc' = [pc EXCEPT ![c] = IF Actor!IsQuery(cmd[c]) THEN "waiting" ELSE "idle"]
      /\ UNCHANGED <<prompt, answer, serving>>
  BY DEF SendCommand, Actor!Send, cliVars
<1>2. queue' = Append(queue, entry) /\ entry \in Actor!Entry /\ Sent(entry)
  BY <1>1, SendEntry DEF CliInv
<1>3. entry.from = c
  OBVIOUS
<1>4. queue \in Seq(Actor!Entry) /\ Len(queue) \in Nat
  BY DEF CliInv, DiscoveryInv, QueueOK
<1> HIDE DEF entry
<1>5. /\ Len(queue') = Len(queue) + 1 /\ queue'[Len(queue) + 1] = entry
      /\ \A k \in 1 .. Len(queue) : queue'[k] = queue[k]
  BY <1>2, <1>4
<1>6. DeathIsAnswered'
  BY <1>1 DEF CliInv, DeathIsAnswered
<1>7. OneListing'
  <2>1. CASE c = Receiver
    <3>1. pc'[Console] = pc[Console] /\ entry.from # Console
      BY <1>1, <1>3, <2>1 DEF CliInv, DiscoveryInv, Actor!TypeOK, Receiver, Console
    <3> QED  BY <1>1, <1>4, <1>5, <3>1 DEF CliInv, OneListing
  <2>2. CASE c = Console
    <3>1. \A k \in 1 .. Len(queue) : queue[k].from # Console
      BY <1>1, <2>2 DEF CliInv, OneListing
    <3>2. serving # NoTable
      BY <1>1, <2>2 DEF CliInv, OneListing
    <3>3. pc'[Console] = "waiting"
      <4>1. Actor!IsQuery(cmd[Console])
        BY <1>1, <2>2 DEF CliInv, DiscoveryInv, ReplyOK, ListATable, Actor!IsQuery
      <4> QED  BY <1>1, <2>2, <4>1 DEF CliInv, DiscoveryInv, Actor!TypeOK
    <3>4. reply'[Console] = Pending
      BY <1>1, <2>2 DEF CliInv, OneListing
    <3> QED  BY <1>1, <1>4, <1>5, <3>1, <3>2, <3>3, <3>4 DEF OneListing
  <2> QED  BY <2>1, <2>2
<1> QED  BY <1>6, <1>7

LEMMA ReturnWork ==
  ASSUME CliInv, UNCHANGED cliVars, NEW c \in {Receiver, Console}, ReturnCall(c)
  PROVE  OneListing' /\ DeathIsAnswered'
<1>1. /\ UNCHANGED <<queue, server, reply>> /\ pc[c] = "waiting" /\ reply[c] # Pending
      /\ pc' = [pc EXCEPT ![c] = "idle"]
      /\ UNCHANGED <<prompt, answer, serving>>
  BY DEF ReturnCall, Actor!Return, cliVars
<1>2. pc'[Console] = pc[Console] \/ (c = Console /\ pc'[Console] = "idle")
  BY <1>1 DEF CliInv, DiscoveryInv, Actor!TypeOK
<1>3. c = Console => \A k \in 1 .. Len(queue) : queue[k].from # Console
  BY <1>1 DEF CliInv, OneListing
<1> QED  BY <1>1, <1>2, <1>3 DEF CliInv, OneListing, DeathIsAnswered

LEMMA ServeWork ==
  ASSUME CliInv, UNCHANGED cliVars, ServeCommand
  PROVE  OneListing' /\ DeathIsAnswered'
<1>1. Actor!Handle /\ UNCHANGED <<prompt, answer, serving>>
  BY DEF ServeCommand, cliVars
<1>2. /\ server = "up" /\ Head(queue) = queue[1]
      /\ Len(queue') = Len(queue) - 1 /\ Len(queue) \in Nat /\ Len(queue) >= 1
      /\ \A k \in 1 .. Len(queue') : queue'[k] = queue[k + 1]
      /\ UNCHANGED <<pc, cmd>>
  BY <1>1, HeadTaken DEF CliInv
<1>3. Receiver # Console /\ reply \in [{Receiver, Console} -> Actor!AnswerType \cup {Pending, Err}]
  BY DEF CliInv, DiscoveryInv, Actor!TypeOK, Receiver, Console
<1>4. \A k \in 1 .. Len(queue') : k + 1 \in 1 .. Len(queue) /\ queue'[k] = queue[k + 1]
  BY <1>2
<1>5. CASE queue[1].from = Receiver
  <2>1. reply'[Console] = reply[Console] /\ server' = server
    BY <1>1, <1>2, <1>3, <1>5, ServeEffect DEF CliInv
  <2>2. OneListing'
    <3> SUFFICES ASSUME NEW k \in 1 .. Len(queue'), queue'[k].from = Console
                 PROVE  /\ pc[Console] = "waiting" /\ reply[Console] = Pending
                        /\ \A j \in 1 .. Len(queue') : queue'[j].from = Console => j = k
      BY <1>1, <1>2, <2>1 DEF CliInv, OneListing
    <3>1. k + 1 \in 1 .. Len(queue) /\ queue[k + 1].from = Console
      BY <1>4
    <3>2. /\ pc[Console] = "waiting" /\ reply[Console] = Pending
          /\ \A j \in 1 .. Len(queue) : queue[j].from = Console => j = k + 1
      BY <3>1 DEF CliInv, OneListing
    <3>3. \A j \in 1 .. Len(queue') : queue'[j].from = Console => j + 1 = k + 1
      BY <1>4, <3>2
    <3> QED  BY <1>2, <3>2, <3>3
  <2> QED  BY <1>1, <1>2, <2>1, <2>2 DEF CliInv, DeathIsAnswered
<1>6. CASE queue[1].from = Console
  <2>1. /\ pc[Console] = "waiting" /\ reply[Console] = Pending
        /\ \A j \in 1 .. Len(queue) : queue[j].from = Console => j = 1
    BY <1>2, <1>6 DEF CliInv, OneListing
  <2>2. \A k \in 1 .. Len(queue') : queue'[k].from # Console
    <3> SUFFICES ASSUME NEW k \in 1 .. Len(queue'), queue'[k].from = Console
                 PROVE  FALSE
      OBVIOUS
    <3>1. k + 1 = 1
      BY <1>4, <2>1
    <3> QED  BY <1>2, <3>1
  <2>3. OneListing'
    BY <1>1, <1>2, <2>1, <2>2 DEF CliInv, OneListing
  <2>4. serving # NoTable /\ prompt = "waiting" /\ answer = Pending
    <3>1. serving # NoTable
      BY <2>1 DEF CliInv, OneListing
    <3> QED  BY <3>1 DEF CliInv, OneCommand
  <2>5. \/ server' = "up" /\ reply'[Console] \in Actor!AnswerType
        \/ server' = "dead" /\ reply'[Console] = Err
    BY <1>1, <1>2, <1>3, <1>6, ServeEffect DEF CliInv
  <2>6. DeathIsAnswered'
    BY <1>1, <2>4, <2>5, AnswerTypes DEF DeathIsAnswered
  <2> QED  BY <2>3, <2>6
<1> QED
  BY <1>1, <1>2, <1>5, <1>6, HeadTaken DEF CliInv, Sent

LEMMA BesideCliInv ==
  ASSUME CliInv, Beside(Work)
  PROVE  CliInv'
<1>1. Work /\ UNCHANGED cliVars /\ UNCHANGED <<prompt, asked, answer, requests, serving>>
  BY DEF Beside, cliVars
<1>2. DiscoveryInv'
  BY <1>1, WorkDiscoveryInv DEF CliInv
<1>3. OneCommand'
  BY <1>1 DEF CliInv, OneCommand
<1>4. OneListing' /\ DeathIsAnswered'
  BY <1>1, OtherWork, SendWork, ReturnWork, ServeWork DEF Work
<1> QED  BY <1>2, <1>3, <1>4 DEF CliInv

LEMMA StepCliInv == CliInv /\ [CliNext]_allVars => CliInv'
<1> SUFFICES ASSUME CliInv, [CliNext]_allVars PROVE CliInv'
  OBVIOUS
<1>1. CASE UNCHANGED allVars
  <2>1. UNCHANGED vars /\ UNCHANGED <<prompt, asked, answer, requests, serving>>
        /\ UNCHANGED <<queue, server, pc, reply>>
    BY <1>1 DEF allVars, vars, cliVars
  <2>2. DiscoveryInv'
    BY <2>1, StutterDiscoveryInv DEF CliInv
  <2> QED  BY <2>1, <2>2 DEF CliInv, OneCommand, OneListing, DeathIsAnswered
<1>2. CASE PromptNext
  BY <1>2, PromptCliInv
<1> QED  BY <1>1, <1>2, ServeCliInv, AnswerCliInv, BesideCliInv DEF CliNext, PromptNext

-----------------------------------------------------------------------------
(* Nobody types a command into a program whose State task is gone: its     *)
(* death takes the prompt along, and a list fails for no other reason.     *)
THEOREM PromptGoesWithState == CliSpec => []StateTakesPromptAlong
<1>1. CliInv => StateTakesPromptAlong
  BY DEF CliInv, DeathIsAnswered, StateTakesPromptAlong
<1> QED  BY <1>1, InitCliInv, StepCliInv, PTL DEF CliSpec
-----------------------------------------------------------------------------
(* What a listing shows.                                                   *)

(* Every interface that was in an earlier table is in this one.            *)
Shows(table, earlier) ==
  \A id \in NodeIds, mac \in Macs :
    earlier[id] # None /\ earlier[id][mac] # None
      => table[id] # None /\ table[id][mac] # None

(* The command on its way is the one the prompt asked.                     *)
AskedIsServed ==
  /\ requests # <<>> => Head(requests) = asked
  /\ serving # NoTable =>
       serving = asked /\ cmd[Console] = [op |-> "List", table |-> asked]
  /\ \A k \in 1 .. Len(queue) : queue[k].from = Console => queue[k].cmd = cmd[Console]

(* A list in the command channel will find the table as the adds before it *)
(* will have left it, and all that was heard when the prompt asked is      *)
(* there, or in those adds.                                                *)
ListFinds ==
  asked = "NeighborTable" =>
    \A k \in 1 .. Len(queue) : queue[k].from = Console =>
      Shows(KnownAfter(tables["NeighborTable"], queue, k - 1), heard)

ListFound ==
  /\ asked = "NeighborTable" /\ serving # NoTable /\ reply[Console] \notin {Pending, Err}
       => Shows(reply[Console], heard)
  /\ asked = "NeighborTable" /\ answer \notin {Pending, Err} => Shows(answer, heard)

ListingInv ==
  /\ CliInv /\ HearingInv
  /\ answer \in Actor!AnswerType \cup {Pending, Err}
  /\ heard \in [NodeIds -> Neighbor \cup {None}]
  /\ Shows(Known, heard)
  /\ AskedIsServed /\ ListFinds /\ ListFound

-----------------------------------------------------------------------------
LEMMA KnownType ==
  ASSUME HearingInv
  PROVE  Known \in [NodeIds -> Neighbor \cup {None}]
<1> DEFINE table == tables["NeighborTable"]
           l == Len(queue)
<1>1. l \in Nat /\ l \in 0 .. l /\ table \in [NodeIds -> Neighbor \cup {None}]
  BY DEF HearingInv, DiscoveryInv, QueueOK, Actor!TypeOK, Actor!IsTables, Actor!TableType,
         Actor!Contents, Actor!Keys, Actor!Values
<1>2. ASSUME NEW id \in NodeIds
      PROVE  KnownAfter(table, queue, l)[id] \in Neighbor \cup {None}
  <2>1. /\ Adds(queue, id, l) = {k \in 1 .. l : queue[k].cmd \in AddNeighbor
                                              /\ queue[k].cmd.key = id}
        /\ \A j, k \in Adds(queue, id, l) : j = k
    BY <1>1, OneAdd
  <2>2. CASE Adds(queue, id, l) = {}
    BY <1>1, <2>2, KnownWithoutAdds
  <2>3. ASSUME NEW k \in Adds(queue, id, l)
        PROVE  KnownAfter(table, queue, l)[id] \in Neighbor
    <3>1. KnownAfter(table, queue, l)[id] = queue[k].cmd.value
      BY <1>1, <2>1, KnownByAdd
    <3> QED  BY <2>1, <3>1 DEF AddNeighbor
  <2> QED  BY <2>2, <2>3
<1>3. KnownAfter(table, queue, l) = [id \in NodeIds |-> KnownAfter(table, queue, l)[id]]
  BY DEF KnownAfter
<1> QED  BY <1>2, <1>3 DEF Known

(* What is known only grows: no step forgets an interface.                 *)
LEMMA KnownGrows ==
  ASSUME HearingInv, [Next]_vars, NEW earlier, Shows(Known, earlier)
  PROVE  Shows(Known', earlier)
<1>1. CASE Known' = Known
  BY <1>1
<1>2. ASSUME NEW h \in Hello, Known' = [Known EXCEPT ![h.id] = Merge(Known[h.id], h)]
      PROVE  Shows(Known', earlier)
  <2> SUFFICES ASSUME NEW id \in NodeIds, NEW mac \in Macs,
                      earlier[id] # None, earlier[id][mac] # None
               PROVE  Known'[id] # None /\ Known'[id][mac] # None
    BY DEF Shows
  <2>1. Known[id] \in Neighbor /\ Known[id][mac] # None /\ Known[id] # None
    BY KnownType DEF Shows
  <2>2. CASE id = h.id
    <3>1. Known'[id] = [Known[id] EXCEPT ![h.mac] = InterfaceOf(h)]
      BY <1>2, <2>1, <2>2, KnownType DEF Merge, AddInterface
    <3>2. InterfaceOf(h) \in NeighborInterface
      BY DEF InterfaceOf, NeighborInterface, Hello
    <3>3. Known'[id] \in Neighbor /\ Known'[id][mac] \in {Known[id][mac], InterfaceOf(h)}
      BY <2>1, <3>1, <3>2 DEF Neighbor
    <3> QED  BY <2>1, <3>2, <3>3, NeighborDataAssumption
  <2>3. CASE id # h.id
    BY <1>2, <2>1, <2>3, KnownType
  <2> QED  BY <2>2, <2>3
<1>3. [Promise!NeighborhoodNext]_(Promise!neighborhoodVars)
  BY StepPromise
<1>4. CASE Promise!Hear
  <2>1. \E h \in Hello : Known' = [Known EXCEPT ![h.id] = Merge(Known[h.id], h)]
    BY <1>4, SameData DEF Promise!Hear
  <2> QED  BY <1>2, <2>1
<1>5. CASE ~Promise!Hear
  BY <1>1, <1>3, <1>5 DEF Promise!NeighborhoodNext, Promise!Receive, Promise!PassOver,
                          Promise!neighborhoodVars
<1> QED  BY <1>4, <1>5

(* To Discovery the command line is a client that lists tables.            *)
LEMMA CliIsDiscovery ==
  ASSUME CliInv, [CliNext]_allVars
  PROVE  [Next]_vars
<1>1. CASE Serve
  <2>1. Head(requests) \in Actor!TableType
    BY <1>1 DEF Serve, CliInv, OneCommand
  <2> QED  BY <1>1, <2>1 DEF Serve, Next
<1> QED  BY <1>1 DEF CliNext, allVars, TypeTable, Leave, SendRequest, TakeAnswer,
                     AnswerPrompt, Beside, Next

LEMMA InitListing == CliInit => ListingInv
<1> SUFFICES ASSUME CliInit PROVE ListingInv
  OBVIOUS
<1>1. CliInv /\ HearingInv
  BY InitCliInv, InitHearing DEF CliInit
<1>2. heard \in [NodeIds -> Neighbor \cup {None}] /\ Shows(Known, heard)
  BY <1>1, KnownType DEF CliInit, Shows
<1>3. answer = Pending /\ asked = NoTable /\ requests = <<>> /\ serving = NoTable
      /\ queue = <<>> /\ NoTable # "NeighborTable"
  BY CliAssumption DEF CliInit, Init, Actor!Init, Actor!TableType
<1>4. AskedIsServed /\ ListFinds /\ ListFound
  BY <1>3 DEF AskedIsServed, ListFinds, ListFound
<1> QED  BY <1>1, <1>2, <1>3, <1>4 DEF ListingInv

-----------------------------------------------------------------------------
(* The steps of the prompt and of the server task.                         *)
LEMMA PromptListing ==
  ASSUME ListingInv, PromptNext
  PROVE  /\ AskedIsServed' /\ ListFinds' /\ ListFound'
         /\ answer' \in Actor!AnswerType \cup {Pending, Err}
         /\ heard' \in [NodeIds -> Neighbor \cup {None}]
         /\ Shows(Known', heard')
<1>1. UNCHANGED <<tables, queue, pc, cmd, reply, serving>> /\ Known' = Known
  BY DEF PromptNext, TypeTable, Leave, SendRequest, TakeAnswer, vars, Known
<1>2. CASE \E table \in Actor!TableType : TypeTable(table)
  <2>1. prompt = "reading" /\ answer' = Pending /\ heard' = Known /\ UNCHANGED requests
    BY <1>2 DEF TypeTable
  <2>2. requests = <<>> /\ serving = NoTable
    BY <2>1 DEF ListingInv, CliInv, OneCommand
  <2>3. \A k \in 1 .. Len(queue) : queue[k].from # Console
    BY <2>2 DEF ListingInv, CliInv, OneListing
  <2>4. heard' \in [NodeIds -> Neighbor \cup {None}] /\ Shows(Known', heard')
    BY <1>1, <2>1, KnownType DEF ListingInv, Shows
  <2> QED  BY <1>1, <2>1, <2>2, <2>3, <2>4 DEF AskedIsServed, ListFinds, ListFound
<1>3. CASE Leave \/ TakeAnswer
  BY <1>1, <1>3 DEF Leave, TakeAnswer, ListingInv, AskedIsServed, ListFinds, ListFound
<1>4. CASE SendRequest
  <2>1. requests = <<>> /\ requests' = Append(requests, asked) /\ UNCHANGED <<asked, answer, heard>>
    BY <1>4 DEF SendRequest, ListingInv, CliInv, OneCommand
  <2>2. Head(requests') = asked
    BY <2>1
  <2> QED  BY <1>1, <2>1, <2>2 DEF ListingInv, AskedIsServed, ListFinds, ListFound
<1> QED  BY <1>2, <1>3, <1>4 DEF PromptNext

LEMMA ServerListing ==
  ASSUME ListingInv, Serve \/ AnswerPrompt
  PROVE  /\ AskedIsServed' /\ ListFinds' /\ ListFound'
         /\ answer' \in Actor!AnswerType \cup {Pending, Err}
<1>1. CASE Serve
  <2> DEFINE t == Head(requests)
  <2>1. /\ serving = NoTable /\ requests # <<>> /\ serving' = t /\ requests' = Tail(requests)
        /\ ListTable(t) /\ UNCHANGED <<asked, answer, heard>>
    BY <1>1 DEF Serve
  <2>2. t = asked /\ requests' = <<>>
    BY <2>1 DEF ListingInv, AskedIsServed, CliInv, OneCommand
  <2>3. /\ cmd'[Console] = [op |-> "List", table |-> asked] /\ reply'[Console] = Pending
        /\ UNCHANGED <<tables, queue>>
    BY <2>1, <2>2 DEF ListTable, Actor!Call, ListingInv, CliInv, DiscoveryInv, Actor!TypeOK
  <2>4. \A k \in 1 .. Len(queue) : queue[k].from # Console
    BY <2>1 DEF ListingInv, CliInv, OneListing
  <2> QED  BY <2>1, <2>2, <2>3, <2>4 DEF ListingInv, AskedIsServed, ListFinds, ListFound
<1>2. CASE AnswerPrompt
  <2>1. /\ serving # NoTable /\ answer' = reply[Console] /\ serving' = NoTable
        /\ UNCHANGED <<tables, queue, cmd, reply, asked, requests, heard>>
    BY <1>2 DEF AnswerPrompt, vars
  <2>2. reply[Console] \in Actor!AnswerType \cup {Pending, Err}
    BY DEF ListingInv, CliInv, DiscoveryInv, Actor!TypeOK
  <2> QED  BY <2>1, <2>2 DEF ListingInv, AskedIsServed, ListFinds, ListFound
<1> QED  BY <1>1, <1>2

-----------------------------------------------------------------------------
(* The steps of Discovery.                                                 *)
LEMMA OtherListing ==
  ASSUME ListingInv, UNCHANGED cliVars,
         \/ \E frame \in Hello \cup {Noise} : Arrive(frame)
         \/ SkipFrame \/ TakeHello \/ GetReturned \/ HelloDone
         \/ \E c \in {Receiver, Console} : ReturnCall(c)
         \/ UNCHANGED vars
  PROVE  AskedIsServed' /\ ListFinds' /\ ListFound'
<1>1. /\ UNCHANGED <<tables, queue, asked, answer, requests, serving, heard>>
      /\ cmd'[Console] = cmd[Console]
      /\ reply'[Console] = reply[Console]
  BY DEF Arrive, SkipFrame, TakeHello, GetReturned, GiveUp, StoreNeighbor, HelloDone, ReturnCall,
         actorVars, vars, cliVars, Actor!Call, Actor!Return, ListingInv, CliInv, DiscoveryInv,
         Actor!TypeOK, Receiver, Console
<1> QED  BY <1>1 DEF ListingInv, AskedIsServed, ListFinds, ListFound

LEMMA SendListing ==
  ASSUME ListingInv, UNCHANGED cliVars, NEW c \in {Receiver, Console}, SendCommand(c)
  PROVE  AskedIsServed' /\ ListFinds' /\ ListFound'
<1> DEFINE l == Len(queue)
           table == tables["NeighborTable"]
<1>1. /\ Len(queue') = l + 1 /\ l \in Nat
      /\ queue'[l + 1].from = c /\ queue'[l + 1].cmd = cmd[c]
      /\ \A k \in 1 .. l : queue'[k] = queue[k]
      /\ UNCHANGED <<tables, cmd, reply>>
      /\ UNCHANGED <<asked, answer, requests, serving, heard>>
  BY EntrySent DEF ListingInv, CliInv, cliVars
<1>2. \A k \in 1 .. (l + 1) : k \in 1 .. l \/ k = l + 1
  BY <1>1
<1>3. AskedIsServed'
  BY <1>1, <1>2 DEF ListingInv, AskedIsServed
<1>4. ListFound'
  BY <1>1 DEF ListingInv, ListFound
<1>5. \A k \in 1 .. (l + 1) :
        KnownAfter(table, queue', k - 1) = KnownAfter(table, queue, k - 1)
  <2> TAKE k \in 1 .. (l + 1)
  <2>1. k - 1 \in Nat /\ k - 1 \in 0 .. l /\ \A j \in 1 .. (k - 1) : j \in 1 .. l
    BY <1>1
  <2>2. \A id \in NodeIds : \A i, j \in Adds(queue, id, k - 1) : i = j
    BY <2>1, OneAdd DEF ListingInv
  <2>3. \A j \in 1 .. (k - 1) : queue'[j] = queue[j]
    BY <1>1, <2>1
  <2> QED  BY <2>1, <2>2, <2>3, SendingIsKnown
<1>6. ListFinds'
  <2> SUFFICES ASSUME asked = "NeighborTable", NEW k \in 1 .. (l + 1), queue'[k].from = Console
               PROVE  Shows(KnownAfter(table, queue, k - 1), heard)
    BY <1>1, <1>5 DEF ListFinds
  <2>1. CASE k \in 1 .. l
    BY <1>1, <2>1 DEF ListingInv, ListFinds
  <2>2. CASE k = l + 1
    <3>1. KnownAfter(table, queue, k - 1) = Known
      BY <1>1, <2>2 DEF Known
    <3> QED  BY <3>1 DEF ListingInv
  <2> QED  BY <1>2, <2>1, <2>2
<1> QED  BY <1>3, <1>4, <1>6

(* A list is answered with the table as it is.                             *)
LEMMA ListAnswered ==
  ASSUME DiscoveryInv, Actor!Handle, Head(queue).from = Console
  PROVE  reply'[Console] \in {Err, tables[Head(queue).cmd.table]}
<1> DEFINE e == Head(queue)
<1>1. /\ e.cmd \in ListATable /\ e.open /\ e.cmd.op = "List"
      /\ reply \in [{Receiver, Console} -> Actor!AnswerType \cup {Pending, Err}]
  BY HeadTaken DEF DiscoveryInv, Actor!TypeOK, Sent, ListATable, Receiver, Console
<1>2. Actor!HandleList \/ Actor!PanicInList
  BY <1>1 DEF Actor!Handle, Actor!HandleAdd, Actor!HandleDel, Actor!HandleGet, Actor!Take
<1>3. Actor!Answer(tables, e.cmd) = tables[e.cmd.table]
  BY <1>1 DEF Actor!Answer, Actor!TableList
<1>4. CASE Actor!HandleList
  BY <1>1, <1>3, <1>4 DEF Actor!HandleList, Actor!Reply
<1>5. CASE Actor!PanicInList
  BY <1>1, <1>5 DEF Actor!PanicInList, Actor!Reply
<1> QED  BY <1>2, <1>4, <1>5

LEMMA ServeListing ==
  ASSUME ListingInv, UNCHANGED cliVars, ServeCommand
  PROVE  AskedIsServed' /\ ListFinds' /\ ListFound'
<1> DEFINE table == tables["NeighborTable"]
           after == tables'["NeighborTable"]
           l == Len(queue)
<1>1. /\ Actor!Handle /\ DiscoveryInv /\ HearingInv /\ UNCHANGED cmd
      /\ UNCHANGED <<asked, answer, requests, serving, heard>>
  BY HeadTaken DEF ServeCommand, cliVars, ListingInv, CliInv
<1>2. /\ l \in Nat /\ 1 \in 1 .. l /\ Len(queue') = l - 1
      /\ Head(queue) = queue[1] /\ Sent(queue[1])
      /\ \A k \in 1 .. Len(queue') : /\ k \in 1 .. l /\ k + 1 \in 1 .. l /\ (k + 1) - 1 = k
                                     /\ queue'[k] = queue[k + 1]
  BY <1>1, HeadTaken
<1>3. AskedIsServed'
  BY <1>1, <1>2 DEF ListingInv, AskedIsServed
<1>4. ListFinds'
  <2> SUFFICES ASSUME asked = "NeighborTable", NEW k \in 1 .. Len(queue'),
                      queue'[k].from = Console
               PROVE  Shows(KnownAfter(after, queue', k - 1), heard)
    BY <1>1 DEF ListFinds
  <2>1. KnownAfter(after, queue', k - 1) = KnownAfter(table, queue, k)
    BY <1>1, <1>2, ServingIsKnown
  <2>2. Shows(KnownAfter(table, queue, (k + 1) - 1), heard)
    BY <1>2 DEF ListingInv, ListFinds
  <2> QED  BY <1>2, <2>1, <2>2
<1>5. ListFound'
  <2>1. CASE queue[1].from = Console
    <3>1. serving # NoTable /\ queue[1].cmd = [op |-> "List", table |-> asked]
      BY <1>2, <2>1 DEF ListingInv, CliInv, OneListing, AskedIsServed
    <3>2. reply'[Console] \in {Err, tables[asked]}
      BY <1>1, <1>2, <2>1, <3>1, ListAnswered
    <3>3. ASSUME asked = "NeighborTable" PROVE Shows(table, heard)
      <4>1. Shows(KnownAfter(table, queue, 0), heard)
        BY <1>2, <2>1, <3>3 DEF ListingInv, ListFinds
      <4>2. \A id \in NodeIds : KnownAfter(table, queue, 0)[id] = table[id]
        <5> TAKE id \in NodeIds
        <5>1. Adds(queue, id, 0) = {}
          BY DEF Adds
        <5> QED  BY <5>1, KnownWithoutAdds
      <4> QED  BY <4>1, <4>2 DEF Shows
    <3> QED  BY <1>1, <3>2, <3>3 DEF ListingInv, ListFound
  <2>2. CASE queue[1].from = Receiver
    <3>1. reply'[Console] = reply[Console]
      <4>1. /\ reply \in [{Receiver, Console} -> Actor!AnswerType \cup {Pending, Err}]
            /\ Receiver # Console
        BY <1>1 DEF DiscoveryInv, Actor!TypeOK, Receiver, Console
      <4> QED  BY <1>1, <1>2, <2>2, <4>1, ServeEffect
    <3> QED  BY <1>1, <3>1 DEF ListingInv, ListFound
  <2> QED  BY <1>2, <2>1, <2>2 DEF Sent
<1> QED  BY <1>3, <1>4, <1>5

LEMMA StepListing == ListingInv /\ [CliNext]_allVars => ListingInv'
<1> SUFFICES ASSUME ListingInv, [CliNext]_allVars PROVE ListingInv'
  OBVIOUS
<1>1. CliInv' /\ HearingInv' /\ [Next]_vars
  BY StepCliInv, StepHearing, CliIsDiscovery DEF ListingInv
<1>2. Shows(Known', heard)
  BY <1>1, KnownGrows DEF ListingInv
<1>3. CASE PromptNext
  BY <1>1, <1>3, PromptListing DEF ListingInv
<1>4. CASE Serve \/ AnswerPrompt
  <2>1. heard' = heard
    BY <1>4 DEF Serve, AnswerPrompt
  <2> QED  BY <1>1, <1>2, <1>4, <2>1, ServerListing DEF ListingInv
<1>5. CASE Beside(Work) \/ UNCHANGED allVars
  <2>1. UNCHANGED cliVars /\ (Work \/ UNCHANGED vars) /\ heard' = heard /\ answer' = answer
    BY <1>5 DEF Beside, allVars, cliVars
  <2>2. AskedIsServed' /\ ListFinds' /\ ListFound'
    BY <2>1, OtherListing, SendListing, ServeListing DEF Work
  <2> QED  BY <1>1, <1>2, <2>1, <2>2 DEF ListingInv
<1> QED  BY <1>3, <1>4, <1>5 DEF CliNext, PromptNext

LEMMA ListingInvImplies == ListingInv => CliTypeOK /\ ListingIsCurrent
<1> SUFFICES ASSUME ListingInv PROVE CliTypeOK /\ ListingIsCurrent
  OBVIOUS
<1>1. TypeOK
  BY DiscoveryInvImplies DEF ListingInv, CliInv
<1>2. requests \in Seq(Actor!TableType) /\ Len(requests) <= PromptCapacity
  BY CliAssumption DEF ListingInv, CliInv, OneCommand
<1>3. heard \in Actor!Contents("NeighborTable")
  BY DEF ListingInv, Actor!Contents, Actor!Keys, Actor!Values, Actor!TableType
<1>4. CliTypeOK
  BY <1>1, <1>2, <1>3 DEF ListingInv, CliInv, OneCommand, CliTypeOK
<1>5. ListingIsCurrent
  BY DEF ListingInv, ListFound, Shows, ListingIsCurrent
<1> QED  BY <1>4, <1>5

(* The prompt, the server task and the channel between them stay what they *)
(* are declared to be.                                                     *)
THEOREM CliTypeCorrect == CliSpec => []CliTypeOK
BY InitListing, StepListing, ListingInvImplies, PTL DEF CliSpec

(* What is printed is current: a listing of the neighbours shows every     *)
(* interface whose hello had been handled when the command was typed.      *)
THEOREM ListingCorrect == CliSpec => []ListingIsCurrent
BY InitListing, StepListing, ListingInvImplies, PTL DEF CliSpec
-----------------------------------------------------------------------------
(* Whom the prompt waits for.                                              *)

(* A command the prompt waits for is in one of its two places, and a list  *)
(* not answered yet is about to enter the command channel, or in it.       *)
UnderWay ==
  /\ prompt = "waiting" /\ answer = Pending => requests # <<>> \/ serving # NoTable
  /\ serving # NoTable /\ reply[Console] = Pending =>
       \/ pc[Console] = "sending"
       \/ \E k \in 1 .. Len(queue) : queue[k].from = Console

WaitingInv == ListingInv /\ UnderWay

LEMMA PromptUnderWay ==
  ASSUME WaitingInv, PromptNext
  PROVE  UnderWay'
<1>1. UNCHANGED <<queue, pc, reply, serving>>
  BY DEF PromptNext, TypeTable, Leave, SendRequest, TakeAnswer, vars
<1>2. prompt' = "waiting" => requests' # <<>>
  <2>1. CASE SendRequest
    <3>1. requests = <<>> /\ requests' = Append(requests, asked)
      BY <2>1 DEF SendRequest, WaitingInv, ListingInv, CliInv, OneCommand
    <3> QED  BY <3>1
  <2>2. CASE ~SendRequest
    BY <2>2 DEF PromptNext, TypeTable, Leave, TakeAnswer
  <2> QED  BY <2>1, <2>2
<1> QED  BY <1>1, <1>2 DEF WaitingInv, UnderWay

LEMMA ServerUnderWay ==
  ASSUME WaitingInv, Serve \/ AnswerPrompt
  PROVE  UnderWay'
<1>1. CASE Serve
  <2>1. serving' = Head(requests) /\ ListTable(Head(requests)) /\ requests # <<>>
    BY <1>1 DEF Serve
  <2>2. Head(requests) # NoTable
    BY <2>1, CliAssumption DEF WaitingInv, ListingInv, CliInv, OneCommand
  <2>3. pc'[Console] = "sending"
    BY <2>1 DEF ListTable, Actor!Call, WaitingInv, ListingInv, CliInv, DiscoveryInv,
                Actor!TypeOK
  <2> QED  BY <2>1, <2>2, <2>3 DEF UnderWay
<1>2. CASE AnswerPrompt
  <2>1. /\ serving # NoTable /\ pc[Console] = "idle"
        /\ serving' = NoTable /\ answer' = reply[Console]
    BY <1>2 DEF AnswerPrompt
  <2>2. reply[Console] # Pending
    BY <2>1 DEF WaitingInv, UnderWay, ListingInv, CliInv, OneListing
  <2> QED  BY <2>1, <2>2 DEF UnderWay
<1> QED  BY <1>1, <1>2

LEMMA SendUnderWay ==
  ASSUME WaitingInv, UNCHANGED cliVars, NEW c \in {Receiver, Console}, SendCommand(c)
  PROVE  UnderWay'
<1>1. /\ Len(queue') = Len(queue) + 1 /\ Len(queue) \in Nat
      /\ queue'[Len(queue) + 1].from = c
      /\ \A k \in 1 .. Len(queue) : queue'[k] = queue[k]
      /\ UNCHANGED reply
      /\ \A d \in {Receiver, Console} \ {c} : pc'[d] = pc[d]
      /\ UNCHANGED <<prompt, answer, requests, serving>>
  BY EntrySent DEF WaitingInv, ListingInv, CliInv, cliVars
<1>2. CASE c = Console
  <2>1. Len(queue) + 1 \in 1 .. Len(queue')
    BY <1>1
  <2> QED  BY <1>1, <1>2, <2>1 DEF WaitingInv, UnderWay
<1>3. CASE c = Receiver
  <2>1. pc'[Console] = pc[Console] /\ \A k \in 1 .. Len(queue) : k \in 1 .. Len(queue')
    BY <1>1, <1>3 DEF Receiver, Console
  <2> QED  BY <1>1, <2>1 DEF WaitingInv, UnderWay
<1> QED  BY <1>2, <1>3

(* The State task answers the list, or serves another and brings it closer. *)
LEMMA ServeUnderWay ==
  ASSUME WaitingInv, UNCHANGED cliVars, ServeCommand
  PROVE  UnderWay'
<1>1. /\ Actor!Handle /\ DiscoveryInv
      /\ UNCHANGED <<prompt, answer, requests, serving>>
  BY DEF ServeCommand, cliVars, WaitingInv, ListingInv, CliInv
<1>2. /\ Len(queue) \in Nat /\ Len(queue') = Len(queue) - 1
      /\ Head(queue) = queue[1] /\ Sent(queue[1]) /\ UNCHANGED pc
      /\ \A k \in 1 .. Len(queue') : queue'[k] = queue[k + 1]
  BY <1>1, HeadTaken
<1>3. CASE queue[1].from = Console
  <2>1. queue[1].cmd.table \in Actor!TableType
    BY <1>2, <1>3 DEF Sent, ListATable, Receiver, Console
  <2>2. tables[queue[1].cmd.table] \in Actor!AnswerType
    BY <1>1, <2>1, AnswerTypes DEF DiscoveryInv, Actor!TypeOK, Actor!IsTables
  <2>3. reply'[Console] # Pending
    BY <1>1, <1>2, <1>3, <2>2, ListAnswered, AnswerTypes
  <2> QED  BY <1>1, <2>3 DEF WaitingInv, UnderWay
<1>4. CASE queue[1].from = Receiver
  <2>1. reply'[Console] = reply[Console]
    <3>1. /\ reply \in [{Receiver, Console} -> Actor!AnswerType \cup {Pending, Err}]
          /\ Receiver # Console
      BY <1>1 DEF DiscoveryInv, Actor!TypeOK, Receiver, Console
    <3> QED  BY <1>1, <1>2, <1>4, <3>1, ServeEffect
  <2>2. ASSUME NEW k \in 1 .. Len(queue), queue[k].from = Console
        PROVE  \E j \in 1 .. Len(queue') : queue'[j].from = Console
    <3>1. k # 1 /\ k - 1 \in 1 .. Len(queue') /\ (k - 1) + 1 = k
      BY <1>2, <1>4, <2>2 DEF Receiver, Console
    <3> QED  BY <1>2, <2>2, <3>1
  <2> QED  BY <1>1, <1>2, <2>1, <2>2 DEF WaitingInv, UnderWay
<1> QED  BY <1>2, <1>3, <1>4 DEF Sent

LEMMA OtherUnderWay ==
  ASSUME WaitingInv, UNCHANGED cliVars,
         \/ \E frame \in Hello \cup {Noise} : Arrive(frame)
         \/ SkipFrame \/ TakeHello \/ GetReturned \/ HelloDone
         \/ UNCHANGED vars
  PROVE  UnderWay'
<1>1. /\ UNCHANGED <<queue, prompt, answer, requests, serving>>
      /\ pc'[Console] = pc[Console] /\ reply'[Console] = reply[Console]
  BY DEF Arrive, SkipFrame, TakeHello, GetReturned, GiveUp, StoreNeighbor, HelloDone,
         actorVars, vars, cliVars, Actor!Call, WaitingInv, ListingInv, CliInv, DiscoveryInv,
         Actor!TypeOK, Receiver, Console
<1> QED  BY <1>1 DEF WaitingInv, UnderWay

LEMMA ReturnUnderWay ==
  ASSUME WaitingInv, UNCHANGED cliVars, NEW c \in {Receiver, Console}, ReturnCall(c)
  PROVE  UnderWay'
<1>1. /\ UNCHANGED <<queue, reply, prompt, answer, requests, serving>>
      /\ pc[c] = "waiting" /\ pc' = [pc EXCEPT ![c] = "idle"]
  BY DEF ReturnCall, Actor!Return, cliVars
<1>2. pc[Console] = "sending" => pc'[Console] = "sending"
  BY <1>1 DEF WaitingInv, ListingInv, CliInv, DiscoveryInv, Actor!TypeOK
<1> QED  BY <1>1, <1>2 DEF WaitingInv, UnderWay

LEMMA StepWaiting == WaitingInv /\ [CliNext]_allVars => WaitingInv'
<1> SUFFICES ASSUME WaitingInv, [CliNext]_allVars PROVE UnderWay'
  BY StepListing DEF WaitingInv
<1>1. CASE PromptNext
  BY <1>1, PromptUnderWay
<1>2. CASE Serve \/ AnswerPrompt
  BY <1>2, ServerUnderWay
<1>3. CASE Beside(Work) \/ UNCHANGED allVars
  <2>1. UNCHANGED cliVars /\ (Work \/ UNCHANGED vars)
    BY <1>3 DEF Beside, allVars
  <2> QED  BY <2>1, SendUnderWay, ServeUnderWay, ReturnUnderWay, OtherUnderWay DEF Work
<1> QED  BY <1>1, <1>2, <1>3 DEF CliNext, PromptNext

LEMMA SingleCommand ==
  ASSUME NEW S, NEW s \in Seq(S), s # <<>>, Len(s) <= 1
  PROVE  s = <<Head(s)>>
<1>1. Len(s) \in Nat /\ Len(s) # 0
  BY EmptySeq
<1>2. Len(s) = 1 /\ Head(s) = s[1]
  BY <1>1
<1> QED  BY <1>2

LEMMA WaitingInvImplies == WaitingInv => PromptWaitsForSomebody
<1> SUFFICES ASSUME WaitingInv, prompt = "waiting", answer = Pending
             PROVE  PromptWaitsForSomebody
  BY DEF PromptWaitsForSomebody
<1>1. server \in {"up", "dead"} /\ Pending # Err
  BY AnswerTypes DEF WaitingInv, ListingInv, CliInv, DiscoveryInv, Actor!TypeOK
<1>2. CASE requests # <<>>
  <2>1. serving = NoTable /\ Head(requests) = asked
    BY <1>2 DEF WaitingInv, ListingInv, CliInv, OneCommand, AskedIsServed
  <2>2. requests = <<asked>>
    <3>1. requests \in Seq(Actor!TableType) /\ Len(requests) <= 1
      BY DEF WaitingInv, ListingInv, CliInv, OneCommand
    <3> QED  BY <1>2, <2>1, <3>1, SingleCommand
  <2>3. server = "up"
    BY <1>1, <2>1 DEF WaitingInv, ListingInv, CliInv, DeathIsAnswered
  <2> QED  BY <2>1, <2>2, <2>3 DEF PromptWaitsForSomebody
<1>3. CASE requests = <<>>
  <2>1. serving # NoTable /\ serving = asked
    BY <1>3 DEF WaitingInv, UnderWay, ListingInv, AskedIsServed
  <2>2. CASE reply[Console] = Pending
    <3>1. server = "up"
      BY <1>1, <2>1, <2>2 DEF WaitingInv, ListingInv, CliInv, DeathIsAnswered
    <3>2. CASE pc[Console] = "sending"
      BY <1>3, <2>1, <3>1, <3>2 DEF PromptWaitsForSomebody
    <3>3. ASSUME NEW k \in 1 .. Len(queue), queue[k].from = Console
          PROVE  PromptWaitsForSomebody
      <4>1. pc[Console] = "waiting" /\ queue[k].open /\ k \in DOMAIN queue
        BY <3>3 DEF WaitingInv, ListingInv, CliInv, OneListing, DiscoveryInv, QueueOK, Sent,
                    Receiver, Console
      <4> QED  BY <1>3, <2>1, <3>1, <3>3, <4>1 DEF PromptWaitsForSomebody
    <3> QED  BY <2>1, <2>2, <3>2, <3>3 DEF WaitingInv, UnderWay
  <2> QED  BY <1>3, <2>1, <2>2 DEF PromptWaitsForSomebody
<1> QED  BY <1>2, <1>3

(* While the prompt waits, its command is in one place, with somebody who  *)
(* lives and has it to move: the prompt, the server task and the State     *)
(* task never wait for one another in a circle, nor for one that is gone.  *)
THEOREM WaitingCorrect == CliSpec => []PromptWaitsForSomebody
<1>1. CliInit => WaitingInv
  BY InitListing DEF WaitingInv, UnderWay, CliInit
<1> QED  BY <1>1, StepWaiting, WaitingInvImplies, PTL DEF CliSpec
-----------------------------------------------------------------------------
(* What is true of discovery is true with a command line on top of it: the *)
(* prompt and the server task are nothing more to it than a client that    *)
(* lists tables.  So every hello is heard once, and the table of           *)
(* neighbours is one hello behind at most, whatever is typed.              *)
THEOREM DiscoveryUnderCli == CliSpec => EveryHelloIsHeardOnce /\ []TableIsOneHelloBehind
<1> DEFINE I == CliInv /\ LagInv
<1>1. CliInit => I /\ Promise!NeighborhoodInit
  BY InitCliInv, InitHearing, InitPromise
     DEF CliInit, LagInv, AddsAreHellos, Init, Actor!Init
<1>2. I /\ [CliNext]_allVars => I' /\ [Promise!NeighborhoodNext]_(Promise!neighborhoodVars)
  BY StepCliInv, CliIsDiscovery, StepLag, StepPromise DEF LagInv
<1>3. I => TableIsOneHelloBehind
  BY LagInvImplies
<1> QED
  BY <1>1, <1>2, <1>3, PTL DEF CliSpec, EveryHelloIsHeardOnce, Promise!NeighborhoodSpec
=============================================================================
