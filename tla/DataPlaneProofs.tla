--------------------------- MODULE DataPlaneProofs ---------------------------
(***************************************************************************)
(* Proofs about the XDP program, for every set of clients and cpus, every  *)
(* capacity of the channel, every address width and all routes.            *)
(***************************************************************************)
EXTENDS RouteHistory, StateServerProofs

-----------------------------------------------------------------------------
(* Every step of the data plane is one of the State actor or leaves it be. *)

LEMMA DataStepIsHistoryStep == [DataNext]_dataVars => [HNext]_historyVars
  BY DEF DataNext, dataVars, HNext, ClientCalls, ClientSends, ClientReturns,
         ClientCancels, TaskServes, ProgramRuns, FrameIn, NotForwarded, Lookup, Forward

LEMMA DataHistoryCorrect == DataSpec => []HistoryInv
<1>1. DataInit => HInit
  BY DEF DataInit
<1> QED  BY <1>1, DataStepIsHistoryStep, HistoryCorrect, PTL DEF DataSpec, HSpec

(* The clients of the data plane see one atomic set of tables: under the   *)
(* frames, and with one of the clients writing all routes, the State actor *)
(* keeps what it promises by itself.                                       *)
THEOREM DataUsesStore == DataSpec => Linearizable
<1>1. DataInit => HInit
  BY DEF DataInit
<1> QED  BY <1>1, DataStepIsHistoryStep, ActorIsLinearizable, PTL DEF DataSpec, HSpec

LEMMA DataNodesCorrect == DataSpec => []OneEntryPerNode
<1>1. DataInit => Init
  BY DEF DataInit, HInit
<1>2. [DataNext]_dataVars => [Next]_vars
  <2>1. [HNext]_historyVars => [Next]_vars
    BY DEF HNext, Next, HCall, HSend, HReturn, HCancel, HHandle, historyVars, vars
  <2> QED  BY <2>1, DataStepIsHistoryStep
<1> QED  BY <1>1, <1>2, NodesCorrect, PTL DEF DataSpec, Spec

-----------------------------------------------------------------------------
(* Host routes.                                                            *)

LEMMA HostRouteIsFound ==
  ASSUME NEW entries, Stored(entries) \subseteq Prefix,
         \A p, q \in Stored(entries) : SameNode(p, q) => p = q,
         NEW host \in Stored(entries), host[2] = Width
  PROVE  TrieLookup(entries, KeyOf(host[1])) = entries[host]
<1> DEFINE key == KeyOf(host[1])
           hits == {p \in Stored(entries) : Answers(p, key)}
<1>1. key[1] = host[1] /\ key[2] = Width
  BY DEF KeyOf
<1>2. \A p \in Stored(entries) : p[2] \in Int
  BY DEF Prefix
<1> HIDE DEF key
<1>3. host \in hits
  BY <1>1, <1>2 DEF Answers, SameTrieBits
<1>4. Longest(hits, host)
  BY <1>1 DEF Longest, Answers
<1>5. ASSUME NEW p \in hits, Longest(hits, p)
      PROVE  p = host
  <2>1. p[2] <= Width /\ SameTrieBits(p[1], host[1], p[2])
    BY <1>1 DEF Answers
  <2>2. Width <= p[2]
    BY <1>3, <1>5 DEF Longest
  <2>3. p[2] = host[2]
    BY <1>2, <2>1, <2>2
  <2> QED  BY <2>1, <2>3 DEF SameNode
<1>6. (CHOOSE p \in hits : Longest(hits, p)) = host
  BY <1>3, <1>4, <1>5
<1>7. key[2] <= Width /\ \E p \in hits : Longest(hits, p)
  <2>1. key[2] = host[2] /\ host[2] \in Int
    BY <1>1, <1>2
  <2>2. key[2] <= Width
    BY <2>1
  <2>3. \E p \in hits : Longest(hits, p)
    BY <1>3, <1>4
  <2> QED  BY <2>2, <2>3
<1> QED  BY <1>6, <1>7 DEF TrieLookup, key

(* A frame to a destination that has an entry of its own is treated by     *)
(* that entry, whatever else is in the kernel map.                         *)
THEOREM HostRouteCorrect == DataSpec => []HostRouteWins
<1>1. HistoryInv /\ OneEntryPerNode => HostRouteWins
  <2> SUFFICES ASSUME HistoryInv, OneEntryPerNode,
                      NEW p \in Stored(tables["ForwardingTable"]), p[2] = Width
               PROVE  TrieLookup(tables["ForwardingTable"], KeyOf(p[1]))
                        = tables["ForwardingTable"][p]
    BY DEF HostRouteWins
  <2>1. tables["ForwardingTable"] \in [ForwardingPrefixes -> NextHops \cup {None}]
    BY DEF HistoryInv, TypeOK, IsTables, Contents, Keys, Values, TableType
  <2>2. Stored(tables["ForwardingTable"]) \subseteq Prefix
    BY <2>1, TablesAssumption DEF Stored
  <2> QED  BY <2>2, HostRouteIsFound DEF OneEntryPerNode
<1> QED  BY <1>1, DataHistoryCorrect, DataNodesCorrect, PTL

-----------------------------------------------------------------------------
(* Which commands change a route.                                          *)

LEMMA OtherCommandsLeaveRoutes ==
  ASSUME NEW T, IsTables(T), NEW c \in Command, ~RouteWrite(c)
  PROVE  Apply(T, c)["ForwardingTable"] = T["ForwardingTable"]
<1>1. DOMAIN T = TableType /\ "ForwardingTable" \in TableType
  BY DEF IsTables, TableType
<1> QED  BY <1>1, CommandFields DEF Apply, RouteWrite

(* What holds of the routes when nothing in the channel changes them.      *)
LEMMA ServedRoutes ==
  ASSUME HistoryInv, RoutesServed
  PROVE  /\ \A i \in 0 .. Len(queue) : RoutesAfter(i) = tables["ForwardingTable"]
         /\ InForce = tables["ForwardingTable"]
<1>1. views[0] = tables /\ Len(queue) \in Nat
  BY DEF HistoryInv, TypeOK, ViewsFollowTheQueue
<1> QED  BY <1>1 DEF RoutesServed, RoutesAfter, InForce

(* A step that leaves the channel's commands and the tables alone leaves   *)
(* the routes alone.                                                       *)
LEMMA SameViews ==
  ASSUME Len(queue') = Len(queue), views' = views, tables' = tables
  PROVE  RoutesServed' <=> RoutesServed
  BY DEF RoutesServed, RoutesAfter

-----------------------------------------------------------------------------
(* The steps of the clients and of the State task preserve SettledInv.     *)

LEMMA InitSettledInv == DataInit => SettledInv
<1> SUFFICES ASSUME DataInit PROVE SettledInv
  OBVIOUS
<1>1. Len(queue) = 0
  BY DEF DataInit, HInit, Init
<1>2. DataTypeOK
  BY DEF DataInit, DataTypeOK
<1>3. RoutesServed /\ QueryIsBarrier
  BY <1>1 DEF RoutesServed, QueryIsBarrier
<1>4. OnlyControllerWrites /\ AnsweredMeansServed
  BY DataPlaneAssumption DEF DataInit, HInit, Init, OnlyControllerWrites, AnsweredMeansServed
<1>5. FreshLookups /\ VerdictsFollowLookups
  BY DEF DataInit, FreshLookups, VerdictsFollowLookups
<1> QED  BY <1>2, <1>3, <1>4, <1>5 DEF SettledInv

LEMMA CallSettledInv ==
  ASSUME HistoryInv, SettledInv,
         NEW c \in Clients, NEW command \in Command, ClientCalls(c, command)
  PROVE  SettledInv'
<1> USE DEF SettledInv, ClientCalls, HCall, Call, xdpVars
<1>1. DataTypeOK'
  BY DEF DataTypeOK
<1>2. pc = [d \in Clients |-> pc[d]] /\ cmd = [d \in Clients |-> cmd[d]]
  BY DEF HistoryInv, TypeOK
<1>3. OnlyControllerWrites'
  BY <1>2 DEF OnlyControllerWrites
<1>4. settled' => RoutesServed'
  BY DEF RoutesServed, RoutesAfter
<1>5. QueryIsBarrier'
  BY DEF QueryIsBarrier, RoutesAfter
<1>6. AnsweredMeansServed'
  <2>1. CASE c = Controller
    BY <1>2, <2>1 DEF AnsweredMeansServed
  <2>2. CASE c # Controller
    <3>1. pc'[Controller] = pc[Controller] /\ reply'[Controller] = reply[Controller]
      BY <2>2, <1>2, DataPlaneAssumption DEF HistoryInv, TypeOK
    <3> QED  BY <3>1 DEF AnsweredMeansServed, RoutesServed, RoutesAfter
  <2> QED  BY <2>1, <2>2
<1>7. FreshLookups' /\ VerdictsFollowLookups'
  BY DEF FreshLookups, VerdictsFollowLookups
<1> QED  BY <1>1, <1>3, <1>4, <1>5, <1>6, <1>7

LEMMA SendSettledInv ==
  ASSUME HistoryInv, SettledInv, HistoryInv', NEW c \in Clients, ClientSends(c)
  PROVE  SettledInv'
<1> DEFINE New(i) == views'[i]["ForwardingTable"]
<1>1. /\ pc \in [Clients -> {"idle", "sending", "waiting"}]
      /\ pc[c] = "sending" /\ cmd[c] \in Command
      /\ pc' = [pc EXCEPT ![c] = IF IsQuery(cmd[c]) THEN "waiting" ELSE "idle"]
      /\ cmd' = cmd /\ reply' = reply /\ tables' = tables
      /\ frame' = frame /\ hop' = hop /\ verdict' = verdict
      /\ Len(queue) \in Nat
  BY DEF HistoryInv, TypeOK, ClientSends, HSend, Send, xdpVars
<1>2. /\ Len(queue') = Len(queue) + 1
      /\ queue'[Len(queue) + 1].from = c
      /\ \A i \in 1 .. Len(queue) : queue'[i] = queue[i]
  <2>1. Enqueue(c) /\ TypeOK /\ pc[c] # "idle"
    BY <1>1 DEF HistoryInv, ClientSends, HSend, Send
  <2>2. /\ Len(queue') = Len(queue) + 1
        /\ queue'[Len(queue) + 1] =
             [from |-> c, cmd |-> cmd[c], open |-> IsQuery(cmd[c])]
        /\ \A i \in 1 .. Len(queue) : queue'[i] = queue[i]
    BY <2>1, EnqueueType
  <2> QED  BY <2>2
<1>3. /\ \A i \in 0 .. Len(queue) : views'[i] = views[i]
      /\ views'[Len(queue) + 1] = Apply(views[Len(queue)], cmd[c])
  BY <1>1 DEF ClientSends, HSend
<1>4. reply[c] = Pending
  BY <1>1 DEF HistoryInv, CallsAreConsistent
<1>5. ~RouteWrite(cmd[c]) => New(Len(queue) + 1) = RoutesAfter(Len(queue))
  <2>1. IsTables(views[Len(queue)])
    BY <1>1 DEF HistoryInv, ViewsFollowTheQueue
  <2> QED  BY <1>1, <1>3, <2>1, OtherCommandsLeaveRoutes DEF RoutesAfter
<1>6. \A i \in 0 .. Len(queue) : New(i) = RoutesAfter(i)
  BY <1>3 DEF RoutesAfter
<1> HIDE DEF New
<1>7. RoutesServed /\ ~RouteWrite(cmd[c]) => RoutesServed'
  <2> SUFFICES ASSUME RoutesServed, ~RouteWrite(cmd[c]), NEW i \in 0 .. Len(queue')
               PROVE  New(i) = New(0)
    BY DEF RoutesServed, RoutesAfter, New
  <2>1. \A k \in 0 .. Len(queue) : New(k) = New(0)
    BY <1>1, <1>6 DEF RoutesServed
  <2>2. New(Len(queue) + 1) = New(0)
    BY <1>1, <1>5, <1>6 DEF RoutesServed
  <2> QED  BY <1>1, <1>2, <2>1, <2>2
<1>8. DataTypeOK'
  BY <1>1 DEF SettledInv, DataTypeOK, ClientSends
<1>9. settled' => RoutesServed'
  BY <1>7 DEF SettledInv, ClientSends
<1>10. OnlyControllerWrites'
  BY <1>1 DEF SettledInv, OnlyControllerWrites
<1>11. QueryIsBarrier'
  <2> SUFFICES ASSUME NEW i \in 1 .. Len(queue'), queue'[i].open,
                      queue'[i].from = Controller, NEW j \in i .. Len(queue')
               PROVE  New(j) = New(i)
    BY DEF QueryIsBarrier, RoutesAfter, New
  <2>1. CASE i = Len(queue')
    BY <1>1, <1>2, <2>1
  <2>2. CASE i # Len(queue')
    <3>1. i \in 1 .. Len(queue) /\ queue[i].open /\ queue[i].from = Controller
      BY <1>1, <1>2, <2>2
    <3>2. pc[Controller] = "waiting"
      BY <3>1 DEF HistoryInv, OpenEntriesAreOwed
    <3>3. ~RouteWrite(cmd[c])
      BY <1>1, <3>2 DEF SettledInv, OnlyControllerWrites
    <3>4. \A k \in i .. Len(queue) : New(k) = New(i)
      BY <1>1, <1>6, <3>1 DEF SettledInv, QueryIsBarrier
    <3>5. New(Len(queue) + 1) = New(i)
      BY <1>1, <1>5, <1>6, <3>1, <3>3 DEF SettledInv, QueryIsBarrier
    <3> QED  BY <1>1, <1>2, <3>4, <3>5
  <2> QED  BY <2>1, <2>2
<1>12. AnsweredMeansServed'
  <2> SUFFICES ASSUME pc'[Controller] = "waiting", reply'[Controller] # Pending
               PROVE  RoutesServed'
    BY DEF AnsweredMeansServed
  <2>1. c # Controller
    BY <1>1, <1>4
  <2>2. pc[Controller] = "waiting" /\ RoutesServed
    BY <1>1, <2>1 DEF SettledInv, AnsweredMeansServed
  <2>3. ~RouteWrite(cmd[c])
    BY <1>1, <2>1 DEF SettledInv, OnlyControllerWrites
  <2> QED  BY <1>7, <2>2, <2>3
<1>13. FreshLookups'
  BY <1>1 DEF SettledInv, FreshLookups, ClientSends
<1>14. VerdictsFollowLookups'
  BY <1>1 DEF SettledInv, VerdictsFollowLookups
<1> QED
  BY <1>8, <1>9, <1>10, <1>11, <1>12, <1>13, <1>14 DEF SettledInv

LEMMA ReturnSettledInv ==
  ASSUME HistoryInv, SettledInv, NEW c \in Clients, ClientReturns(c)
  PROVE  SettledInv'
<1> USE DEF ClientReturns, HReturn, Return, xdpVars
<1>1. RoutesServed' <=> RoutesServed
  BY SameViews
<1>2. settled' => RoutesServed
  BY DEF SettledInv, AnsweredMeansServed
<1>3. pc = [d \in Clients |-> pc[d]]
  BY DEF HistoryInv, TypeOK
<1>4. DataTypeOK'
  BY DEF SettledInv, DataTypeOK
<1>5. OnlyControllerWrites'
  BY <1>3 DEF SettledInv, OnlyControllerWrites
<1>6. QueryIsBarrier'
  BY DEF SettledInv, QueryIsBarrier, RoutesAfter
<1>7. AnsweredMeansServed'
  BY <1>1, <1>3, DataPlaneAssumption DEF SettledInv, AnsweredMeansServed
<1>8. FreshLookups' /\ VerdictsFollowLookups'
  BY DEF SettledInv, FreshLookups, VerdictsFollowLookups
<1> QED  BY <1>1, <1>2, <1>4, <1>5, <1>6, <1>7, <1>8 DEF SettledInv

LEMMA CancelSettledInv ==
  ASSUME HistoryInv, SettledInv, NEW c \in Clients, ClientCancels(c)
  PROVE  SettledInv'
<1>1. /\ pc = [d \in Clients |-> pc[d]]
      /\ reply = [d \in Clients |-> reply[d]]
      /\ pc' = [pc EXCEPT ![c] = "idle"]
      /\ reply' = [reply EXCEPT ![c] = Pending]
      /\ UNCHANGED <<tables, cmd, views, frame, hop, verdict, settled, fresh>>
  BY DEF HistoryInv, TypeOK, ClientCancels, HCancel, Cancel, xdpVars
<1>2. /\ Len(queue') = Len(queue)
      /\ \A i \in 1 .. Len(queue) :
           /\ queue'[i].from = queue[i].from
           /\ queue'[i].open => queue[i].open
  <2>1. DropReceiver(c) /\ TypeOK
    BY DEF HistoryInv, ClientCancels, HCancel, Cancel
  <2> QED  BY <2>1, DropReceiverType
<1>3. RoutesServed' <=> RoutesServed
  BY <1>1, <1>2, SameViews
<1>4. DataTypeOK'
  BY <1>1 DEF SettledInv, DataTypeOK
<1>5. OnlyControllerWrites'
  BY <1>1 DEF SettledInv, OnlyControllerWrites
<1>6. QueryIsBarrier'
  BY <1>1, <1>2 DEF SettledInv, QueryIsBarrier, RoutesAfter
<1>7. AnsweredMeansServed'
  BY <1>1, <1>3, DataPlaneAssumption DEF SettledInv, AnsweredMeansServed
<1>8. FreshLookups' /\ VerdictsFollowLookups'
  BY <1>1 DEF SettledInv, FreshLookups, VerdictsFollowLookups
<1> QED  BY <1>1, <1>3, <1>4, <1>5, <1>6, <1>7, <1>8 DEF SettledInv

LEMMA ServeSettledInv ==
  ASSUME HistoryInv, SettledInv, HistoryInv', TaskServes
  PROVE  SettledInv'
<1> DEFINE e == queue[1]
<1>1. /\ Len(queue) \in Nat \ {0}
      /\ Len(queue') = Len(queue) - 1
      /\ \A i \in 1 .. Len(queue') : queue'[i] = queue[i + 1]
      /\ UNCHANGED <<pc, cmd, frame, hop, verdict, settled, fresh>>
  BY HandleEffect, HistoryHasOneshots DEF TaskServes, HHandle, xdpVars
<1>2. \A i \in 0 .. Len(queue') : views'[i] = views[i + 1]
  BY <1>1 DEF TaskServes, HHandle
<1>3. views[0] = tables /\ views'[0] = tables'
  BY DEF HistoryInv, ViewsFollowTheQueue
<1>4. ASSUME \A j \in 1 .. Len(queue) : RoutesAfter(j) = RoutesAfter(1)
      PROVE  RoutesServed'
  <2> SUFFICES ASSUME NEW i \in 0 .. Len(queue')
               PROVE  views'[i]["ForwardingTable"] = views'[0]["ForwardingTable"]
    BY DEF RoutesServed, RoutesAfter
  <2>1. i + 1 \in 1 .. Len(queue) /\ 0 \in 0 .. Len(queue')
    BY <1>1
  <2>2. views'[i] = views[i + 1] /\ views'[0] = views[1]
    BY <1>2, <2>1
  <2> QED  BY <1>4, <2>1, <2>2 DEF RoutesAfter
<1>5. RoutesServed => RoutesServed' /\ tables'["ForwardingTable"] = tables["ForwardingTable"]
  <2> SUFFICES ASSUME RoutesServed
               PROVE  RoutesServed' /\ tables'["ForwardingTable"] = tables["ForwardingTable"]
    OBVIOUS
  <2>1. RoutesServed'
    BY <1>1, <1>4 DEF RoutesServed
  <2>2. views'[0] = views[1] /\ 1 \in 0 .. Len(queue)
    BY <1>1, <1>2
  <2> QED  BY <1>3, <2>1, <2>2 DEF RoutesServed, RoutesAfter
<1>6. DataTypeOK'
  BY <1>1 DEF SettledInv, DataTypeOK
<1>7. OnlyControllerWrites'
  BY <1>1 DEF SettledInv, OnlyControllerWrites
<1>8. QueryIsBarrier'
  <2> SUFFICES ASSUME NEW i \in 1 .. Len(queue'), queue'[i].open,
                      queue'[i].from = Controller, NEW j \in i .. Len(queue')
               PROVE  views'[j]["ForwardingTable"] = views'[i]["ForwardingTable"]
    BY DEF QueryIsBarrier, RoutesAfter
  <2>1. /\ i + 1 \in 1 .. Len(queue) /\ j + 1 \in (i + 1) .. Len(queue)
        /\ i \in 0 .. Len(queue') /\ j \in 0 .. Len(queue')
    BY <1>1
  <2>2. RoutesAfter(j + 1) = RoutesAfter(i + 1)
    BY <1>1, <2>1 DEF SettledInv, QueryIsBarrier
  <2> QED  BY <1>2, <2>1, <2>2 DEF RoutesAfter
<1>9. AnsweredMeansServed'
  <2> SUFFICES ASSUME pc[Controller] = "waiting", reply'[Controller] # Pending
               PROVE  RoutesServed'
    BY <1>1 DEF AnsweredMeansServed
  <2>1. CASE reply[Controller] # Pending
    BY <1>5, <2>1 DEF SettledInv, AnsweredMeansServed
  <2>2. CASE reply[Controller] = Pending
    <3>1. e.open /\ e.from = Controller
      <4>1. e.open => \E v : reply' = [reply EXCEPT ![e.from] = v]
        BY HandleEffect, HistoryHasOneshots DEF TaskServes, HHandle
      <4>2. ~e.open => reply' = reply
        BY HandleEffect, HistoryHasOneshots DEF TaskServes, HHandle
      <4>3. reply = [d \in Clients |-> reply[d]]
        BY DEF HistoryInv, TypeOK
      <4> QED  BY <2>2, <4>1, <4>2, <4>3, DataPlaneAssumption
    <3> QED  BY <1>1, <1>4, <3>1 DEF SettledInv, QueryIsBarrier
  <2> QED  BY <2>1, <2>2
<1>10. FreshLookups'
  BY <1>1, <1>5 DEF SettledInv, FreshLookups
<1>11. VerdictsFollowLookups'
  BY <1>1 DEF SettledInv, VerdictsFollowLookups
<1> QED
  BY <1>1, <1>5, <1>6, <1>7, <1>8, <1>9, <1>10, <1>11 DEF SettledInv

-----------------------------------------------------------------------------
(* The steps of the XDP program preserve SettledInv.                       *)

(* They do not touch what most parts of it are about.                      *)
LEMMA ProgramLeavesActor ==
  ASSUME SettledInv, UNCHANGED <<historyVars, settled>>
  PROVE  /\ (settled => RoutesServed)'
         /\ OnlyControllerWrites'
         /\ QueryIsBarrier'
         /\ AnsweredMeansServed'
<1>1. RoutesServed' <=> RoutesServed
  BY SameViews DEF historyVars
<1>2. OnlyControllerWrites'
  BY DEF SettledInv, OnlyControllerWrites, historyVars
<1>3. QueryIsBarrier'
  BY DEF SettledInv, QueryIsBarrier, RoutesAfter, historyVars
<1> QED  BY <1>1, <1>2, <1>3 DEF SettledInv, AnsweredMeansServed, historyVars

LEMMA ProgramSettledInv ==
  ASSUME HistoryInv, SettledInv, NEW cpu \in Cpus, ProgramRuns(cpu)
  PROVE  SettledInv'
<1>1. UNCHANGED <<historyVars, settled>>
  BY DEF ProgramRuns, FrameIn, NotForwarded, Lookup, Forward
<1>2. tables' = tables
  BY <1>1 DEF historyVars
<1>3. DataTypeOK
  BY DEF SettledInv
<1>4. tables["ForwardingTable"] \in [ForwardingPrefixes -> NextHops \cup {None}]
  BY DEF HistoryInv, TypeOK, IsTables, Contents, Keys, Values, TableType
<1>5. ASSUME NEW f \in Frame, FrameIn(cpu, f)
      PROVE  DataTypeOK' /\ FreshLookups' /\ VerdictsFollowLookups'
  BY <1>2, <1>3, <1>5 DEF DataTypeOK, FrameIn, SettledInv, FreshLookups, VerdictsFollowLookups
<1>6. ASSUME NotForwarded(cpu)
      PROVE  DataTypeOK' /\ FreshLookups' /\ VerdictsFollowLookups'
  <2>1. DataTypeOK'
    BY <1>3, <1>6 DEF DataTypeOK, NotForwarded
  <2>2. FreshLookups'
    BY <1>2, <1>6 DEF SettledInv, FreshLookups, NotForwarded
  <2>3. VerdictsFollowLookups'
    BY <1>3, <1>6 DEF SettledInv, VerdictsFollowLookups, NotForwarded, DataTypeOK
  <2> QED  BY <2>1, <2>2, <2>3
<1>7. ASSUME Lookup(cpu)
      PROVE  DataTypeOK' /\ FreshLookups' /\ VerdictsFollowLookups'
  <2> DEFINE found == TrieLookup(tables["ForwardingTable"], KeyOf(frame[cpu].dst))
  <2>1. found \in NextHops \cup {None}
    BY <1>4, TrieLookupType
  <2>2. /\ hop' = [hop EXCEPT ![cpu] = found]
        /\ frame[cpu] # Nothing /\ frame[cpu].kind = "ipv4" /\ verdict[cpu] = Nothing
        /\ UNCHANGED <<frame, verdict, fresh, settled>>
    BY <1>7 DEF Lookup
  <2>3. DataTypeOK'
    <3> HIDE DEF found
    <3> QED  BY <1>3, <2>1, <2>2 DEF DataTypeOK
  <2>4. FreshLookups'
    BY <1>2, <1>3, <2>2 DEF SettledInv, FreshLookups, DataTypeOK
  <2>5. VerdictsFollowLookups'
    <3> HIDE DEF found
    <3> QED  BY <1>3, <2>2 DEF SettledInv, VerdictsFollowLookups, DataTypeOK
  <2> QED  BY <2>3, <2>4, <2>5
<1>8. ASSUME Forward(cpu)
      PROVE  DataTypeOK' /\ FreshLookups' /\ VerdictsFollowLookups'
  <2>1. hop[cpu] \in NextHops \cup {None} /\ hop[cpu] # Nothing
    BY <1>3, <1>8 DEF DataTypeOK, Forward
  <2>2. Decide(hop[cpu]) \in {Pass} \cup {Redirect(h) : h \in NextHops}
    BY <2>1 DEF Decide
  <2>3. /\ verdict' = [verdict EXCEPT ![cpu] = Decide(hop[cpu])]
        /\ UNCHANGED <<frame, hop, fresh, settled>>
    BY <1>8 DEF Forward
  <2>4. DataTypeOK'
    BY <1>3, <2>2, <2>3 DEF DataTypeOK
  <2>5. FreshLookups'
    BY <1>2, <2>3 DEF SettledInv, FreshLookups
  <2>6. VerdictsFollowLookups'
    BY <1>3, <2>1, <2>3 DEF SettledInv, VerdictsFollowLookups, DataTypeOK
  <2> QED  BY <2>4, <2>5, <2>6
<1>9. DataTypeOK' /\ FreshLookups' /\ VerdictsFollowLookups'
  BY <1>5, <1>6, <1>7, <1>8 DEF ProgramRuns
<1> QED  BY <1>1, <1>9, ProgramLeavesActor DEF SettledInv

LEMMA StepSettledInv ==
  HistoryInv /\ SettledInv /\ HistoryInv' /\ [DataNext]_dataVars => SettledInv'
<1> SUFFICES ASSUME HistoryInv, SettledInv, HistoryInv', [DataNext]_dataVars
             PROVE  SettledInv'
  OBVIOUS
<1>1. CASE UNCHANGED dataVars
  <2>1. UNCHANGED <<historyVars, settled, frame, hop, verdict, fresh, tables>>
    BY <1>1 DEF dataVars, xdpVars, historyVars
  <2>2. DataTypeOK' /\ FreshLookups' /\ VerdictsFollowLookups'
    BY <2>1 DEF SettledInv, DataTypeOK, FreshLookups, VerdictsFollowLookups
  <2> QED  BY <2>1, <2>2, ProgramLeavesActor DEF SettledInv
<1> QED
  BY <1>1, CallSettledInv, SendSettledInv, ReturnSettledInv, CancelSettledInv,
     ServeSettledInv, ProgramSettledInv DEF DataNext

(* A query of the controller is a barrier: when it is answered, nothing in *)
(* the channel of StateCommands changes a route any more.                  *)
THEOREM SettledCorrect == DataSpec => []SettledInv
<1>1. DataInit => SettledInv
  BY InitSettledInv
<1>2. HistoryInv /\ SettledInv /\ HistoryInv' /\ [DataNext]_dataVars => SettledInv'
  BY StepSettledInv
<1> QED  BY <1>1, <1>2, DataHistoryCorrect, PTL DEF DataSpec

(* The data plane treats a frame as the controller's routes say as soon as *)
(* the controller has been answered, for every number of clients that      *)
(* share the channel of StateCommands and every number of cpus.            *)
THEOREM SettledRoutesCorrect == DataSpec => []SettledRoutesForward
<1>1. HistoryInv /\ SettledInv => SettledRoutesForward
  <2> SUFFICES ASSUME HistoryInv, SettledInv, NEW cpu \in Cpus,
                      fresh[cpu], verdict[cpu] # Nothing, frame[cpu].kind = "ipv4"
               PROVE  verdict[cpu] = Decide(TrieLookup(InForce, KeyOf(frame[cpu].dst)))
    BY DEF SettledRoutesForward
  <2>1. hop[cpu] # Nothing /\ verdict[cpu] = Decide(hop[cpu])
    BY DEF SettledInv, VerdictsFollowLookups
  <2>2. settled /\ hop[cpu] = TrieLookup(tables["ForwardingTable"], KeyOf(frame[cpu].dst))
    BY <2>1 DEF SettledInv, FreshLookups
  <2>3. InForce = tables["ForwardingTable"]
    BY <2>2, ServedRoutes DEF SettledInv
  <2> QED  BY <2>1, <2>2, <2>3
<1> QED  BY <1>1, DataHistoryCorrect, SettledCorrect, PTL

-----------------------------------------------------------------------------
(* Frames for which no hop is found.                                       *)

(* A lookup that finds nothing was answered by nothing: no route in force  *)
(* is in a node on the path of the key.                                    *)
LEMMA NoHopNoMatch ==
  ASSUME HistoryInv, SettledInv, NEW cpu \in Cpus, fresh[cpu], hop[cpu] = None,
         NEW p \in Stored(InForce)
  PROVE  ~Answers(p, KeyOf(frame[cpu].dst))
<1> SUFFICES ASSUME Answers(p, KeyOf(frame[cpu].dst))
             PROVE  FALSE
  OBVIOUS
<1> DEFINE ft == tables["ForwardingTable"]
           key == KeyOf(frame[cpu].dst)
           hits == {q \in Stored(ft) : Answers(q, key)}
<1>1. hop[cpu] # Nothing
  BY DataPlaneAssumption
<1>2. settled /\ frame[cpu].kind = "ipv4" /\ hop[cpu] = TrieLookup(ft, key)
  BY <1>1 DEF SettledInv, FreshLookups
<1>3. InForce = ft
  BY <1>2, ServedRoutes DEF SettledInv
<1>4. ft \in [ForwardingPrefixes -> NextHops \cup {None}]
  BY DEF HistoryInv, TypeOK, IsTables, Contents, Keys, Values, TableType
<1>5. key[2] <= Width
  BY LpmTrieAssumption DEF KeyOf, Width
<1>6. p \in hits
  BY <1>3
<1>7. ForwardingPrefixes \in SUBSET Prefix /\ hits = {q \in Stored(ft) : Answers(q, key)}
  BY TablesAssumption
<1>8. PICK q \in hits : Longest(hits, q)
  <2> HIDE DEF ft, key, hits
  <2> QED  BY <1>4, <1>5, <1>6, <1>7, LongestHit
<1>9. (CHOOSE best \in hits : Longest(hits, best)) \in Stored(ft)
  BY <1>8
<1>10. TrieLookup(ft, key) = ft[CHOOSE best \in hits : Longest(hits, best)]
  BY <1>5, <1>8 DEF TrieLookup
<1> QED  BY <1>2, <1>9, <1>10 DEF Stored

(* Unless the kernel refused the last add of its node, a prefix is in      *)
(* force as it was written; one that is too long is never in force.        *)
AsWritten(p, entries) == ~Spoiled(p) => entries[p] = written[p]

WrittenInForce ==
  /\ InForce \in [ForwardingPrefixes -> NextHops \cup {None}]
  /\ written \in [ForwardingPrefixes -> NextHops \cup {None}]
  /\ \A p \in ForwardingPrefixes : AsWritten(p, InForce)
  /\ \A p \in ForwardingPrefixes : p[2] > Width => InForce[p] = None

LEMMA SameNodeIsEquivalence ==
  /\ \A p : SameNode(p, p)
  /\ \A p, q : SameNode(p, q) => SameNode(q, p)
  /\ \A p, q, r : SameNode(p, q) /\ SameNode(q, r) => SameNode(p, r)
  BY DEF SameNode, SameTrieBits

LEMMA RouteStepIsDataStep == [RouteNext]_routeVars => [DataNext]_dataVars
  BY DEF RouteNext, routeVars, DataNext, CommandSent

(* What a write does to the routes in force, to those written and to those *)
(* refused.                                                                *)
LEMMA WriteKeepsForce ==
  ASSUME WrittenInForce, NEW command \in Command, RouteWrite(command), NEW after,
         after = IF command.op = "Add" THEN TrieUpdate(InForce, command.key, command.value)
                 ELSE TrieDelete(InForce, command.key)
  PROVE  /\ after \in [ForwardingPrefixes -> NextHops \cup {None}]
         /\ Written(command) \in [ForwardingPrefixes -> NextHops \cup {None}]
         /\ \A p \in ForwardingPrefixes :
              (\A q \in Refused(command) : ~SameNode(p, q))
                => after[p] = Written(command)[p]
         /\ \A p \in ForwardingPrefixes : p[2] > Width => after[p] = None
<1> DEFINE key == command.key
<1>1. /\ key \in ForwardingPrefixes
      /\ command.op \in {"Add", "Del"}
      /\ command.op = "Add" => command.value \in NextHops
  BY CommandFields DEF RouteWrite, Keys, Values, TableType
<1>2. InForce \in [ForwardingPrefixes -> NextHops \cup {None}]
  BY DEF WrittenInForce
<1>3. after \in [ForwardingPrefixes -> NextHops \cup {None}]
  BY <1>1, <1>2, TrieUpdateType, TrieDeleteType
<1>4. Written(command) \in [ForwardingPrefixes -> NextHops \cup {None}]
  BY <1>1 DEF Written, WrittenInForce
<1>5. key[2] \in Int /\ Width \in Int
  BY <1>1, TablesAssumption, LpmTrieAssumption DEF Prefix, Width
<1>6. ASSUME NEW p \in ForwardingPrefixes, SameNode(p, key),
             \A q \in Refused(command) : ~SameNode(p, q)
      PROVE  after[p] = Written(command)[p]
  <2>1. CASE command.op = "Add"
    <3>1. key \notin Refused(command)
      BY <1>6
    <3>2. TrieAccepts(InForce, key)
      BY <2>1, <3>1 DEF Refused
    <3> QED  BY <1>2, <1>6, <2>1, <3>2 DEF TrieUpdate, Written
  <2>2. CASE command.op = "Del" /\ key[2] <= Width
    BY <1>2, <1>6, <2>2 DEF TrieDelete, Written
  <2>3. CASE command.op = "Del" /\ key[2] > Width
    <3>1. InForce[p] = None
      BY <1>6, <2>3 DEF WrittenInForce, SameNode
    <3> QED  BY <1>2, <1>6, <2>3, <3>1 DEF TrieDelete, Written
  <2> QED  BY <1>1, <1>5, <2>1, <2>2, <2>3
<1>7. ASSUME NEW p \in ForwardingPrefixes, ~SameNode(p, key),
             \A q \in Refused(command) : ~SameNode(p, q)
      PROVE  after[p] = Written(command)[p]
  <2>1. p # key
    BY <1>7, SameNodeIsEquivalence
  <2>2. Written(command)[p] = written[p]
    BY <1>7, <2>1 DEF Written
  <2>3. ASSUME NEW q \in refused, SameNode(p, q) PROVE FALSE
    <3>1. ~SameNode(q, key)
      BY <1>7, <2>3, SameNodeIsEquivalence
    <3>2. q \in Refused(command)
      BY <3>1 DEF Refused
    <3> QED  BY <1>7, <2>3, <3>2
  <2>4. InForce[p] = written[p]
    BY <2>3 DEF WrittenInForce, AsWritten, Spoiled
  <2>5. after[p] = InForce[p]
    BY <1>1, <1>2, <1>7, <2>1 DEF TrieUpdate, TrieDelete
  <2> QED  BY <2>2, <2>4, <2>5
<1>8. ASSUME NEW p \in ForwardingPrefixes, p[2] > Width
      PROVE  after[p] = None
  <2>1. InForce[p] = None
    BY <1>8 DEF WrittenInForce
  <2>2. TrieAccepts(InForce, key) => p # key
    BY <1>5, <1>8 DEF TrieAccepts
  <2> QED  BY <1>1, <1>2, <2>1, <2>2 DEF TrieUpdate, TrieDelete
<1> QED  BY <1>3, <1>4, <1>6, <1>7, <1>8

LEMMA SendKeepsForce ==
  ASSUME HistoryInv, WrittenInForce, NEW c \in Clients, CommandSent(c)
  PROVE  WrittenInForce'
<1> DEFINE now == views[Len(queue)]
<1>1. /\ TypeOK /\ Enqueue(c) /\ pc[c] # "idle"
      /\ cmd[c] \in Command
      /\ Len(queue) \in Nat
  BY DEF HistoryInv, TypeOK, CommandSent, ClientSends, HSend, Send
<1>2. Len(queue') = Len(queue) + 1
  BY <1>1, EnqueueType
<1>3. views'[Len(queue) + 1] = Apply(now, cmd[c])
  BY <1>1 DEF CommandSent, ClientSends, HSend
<1>4. InForce' = Apply(now, cmd[c])["ForwardingTable"]
  BY <1>2, <1>3 DEF InForce, RoutesAfter
<1>5. IsTables(now) /\ InForce = now["ForwardingTable"]
  BY <1>1 DEF HistoryInv, ViewsFollowTheQueue, InForce, RoutesAfter
<1>6. CASE RouteWrite(cmd[c])
  <2>1. /\ cmd[c].op \in {"Add", "Del"} /\ cmd[c].table = "ForwardingTable"
        /\ DOMAIN now = TableType /\ "ForwardingTable" \in TableType
    BY <1>5, <1>6 DEF RouteWrite, IsTables, TableType
  <2>2. InForce' = IF cmd[c].op = "Add"
                   THEN TrieUpdate(InForce, cmd[c].key, cmd[c].value)
                   ELSE TrieDelete(InForce, cmd[c].key)
    BY <1>4, <1>5, <2>1 DEF Apply, TableAdd, TableRemove
  <2>3. written' = Written(cmd[c]) /\ refused' = Refused(cmd[c])
    BY <1>6 DEF CommandSent
  <2>4. /\ InForce' \in [ForwardingPrefixes -> NextHops \cup {None}]
        /\ written' \in [ForwardingPrefixes -> NextHops \cup {None}]
        /\ \A p \in ForwardingPrefixes :
             (\A q \in refused' : ~SameNode(p, q)) => InForce'[p] = written'[p]
        /\ \A p \in ForwardingPrefixes : p[2] > Width => InForce'[p] = None
    BY <1>1, <1>6, <2>2, <2>3, WriteKeepsForce
  <2> QED  BY <2>4 DEF WrittenInForce, AsWritten, Spoiled
<1>7. CASE ~RouteWrite(cmd[c])
  <2>1. InForce' = InForce
    BY <1>1, <1>4, <1>5, <1>7, OtherCommandsLeaveRoutes
  <2> QED  BY <1>7, <2>1 DEF WrittenInForce, AsWritten, Spoiled, CommandSent, writeVars
<1> QED  BY <1>6, <1>7

(* No other step changes what the channel will leave in force.             *)
LEMMA OtherStepsKeepForce ==
  ASSUME HistoryInv,
         \/ \E c \in Clients :
              \/ \E command \in Command : ClientCalls(c, command)
              \/ ClientReturns(c) \/ ClientCancels(c)
         \/ TaskServes
         \/ \E cpu \in Cpus : ProgramRuns(cpu)
         \/ UNCHANGED dataVars
  PROVE  InForce' = InForce
<1>1. ASSUME Len(queue') = Len(queue), views' = views
      PROVE  InForce' = InForce
  BY <1>1 DEF InForce, RoutesAfter
<1>2. ASSUME NEW c \in Clients, NEW command \in Command, ClientCalls(c, command)
      PROVE  InForce' = InForce
  BY <1>1, <1>2 DEF ClientCalls, HCall, Call
<1>3. ASSUME NEW c \in Clients, ClientReturns(c)
      PROVE  InForce' = InForce
  BY <1>1, <1>3 DEF ClientReturns, HReturn, Return
<1>4. ASSUME NEW c \in Clients, ClientCancels(c)
      PROVE  InForce' = InForce
  <2>1. TypeOK /\ DropReceiver(c) /\ views' = views
    BY <1>4 DEF HistoryInv, ClientCancels, HCancel, Cancel
  <2> QED  BY <1>1, <2>1, DropReceiverType
<1>5. ASSUME TaskServes
      PROVE  InForce' = InForce
  <2>1. Len(queue) \in Nat \ {0} /\ Len(queue') = Len(queue) - 1
    BY <1>5, HandleEffect, HistoryHasOneshots DEF TaskServes, HHandle
  <2>2. views'[Len(queue')] = views[Len(queue)]
    BY <1>5, <2>1 DEF TaskServes, HHandle
  <2> QED  BY <2>2 DEF InForce, RoutesAfter
<1>6. ASSUME NEW cpu \in Cpus, ProgramRuns(cpu)
      PROVE  InForce' = InForce
  BY <1>1, <1>6 DEF ProgramRuns, FrameIn, NotForwarded, Lookup, Forward, historyVars, vars
<1>7. CASE UNCHANGED dataVars
  BY <1>1, <1>7 DEF dataVars, historyVars, vars
<1> QED  BY <1>2, <1>3, <1>4, <1>5, <1>6, <1>7

LEMMA InitWrittenInForce == RouteInit => WrittenInForce
<1> SUFFICES ASSUME RouteInit PROVE WrittenInForce
  OBVIOUS
<1>1. /\ Len(queue) = 0 /\ views[0] = EmptyTables
      /\ written = [p \in ForwardingPrefixes |-> None]
  BY DEF RouteInit, DataInit, HInit, Init
<1>2. InForce = [p \in ForwardingPrefixes |-> None]
  BY <1>1 DEF InForce, RoutesAfter, EmptyTables, Keys, TableType
<1> QED  BY <1>1, <1>2 DEF WrittenInForce, AsWritten

LEMMA StepWrittenInForce ==
  HistoryInv /\ WrittenInForce /\ [RouteNext]_routeVars => WrittenInForce'
<1> SUFFICES ASSUME HistoryInv, WrittenInForce, [RouteNext]_routeVars
             PROVE  WrittenInForce'
  OBVIOUS
<1>1. CASE \E c \in Clients : CommandSent(c)
  BY <1>1, SendKeepsForce
<1>2. CASE ~\E c \in Clients : CommandSent(c)
  <2>1. InForce' = InForce
    BY <1>2, OtherStepsKeepForce DEF RouteNext, routeVars
  <2>2. UNCHANGED writeVars
    BY <1>2 DEF RouteNext, routeVars
  <2> QED  BY <2>1, <2>2 DEF WrittenInForce, AsWritten, Spoiled, writeVars
<1> QED  BY <1>1, <1>2

(* A query of the controller uncovers everything but refusals: once it is  *)
(* answered the kernel map holds each route the controller wrote, as it    *)
(* wrote it, and none it deleted or wrote anew, except where the kernel    *)
(* refused the last add (forwarding_table.rs throws that result away), for *)
(* every number of clients and cpus, every capacity of the channel and of  *)
(* the map, and all routes.                                                *)
THEOREM WrittenCorrect == RouteSpec => []MapIsAsWritten
<1>1. RouteSpec => DataSpec
  <2>1. RouteInit => DataInit
    BY DEF RouteInit
  <2> QED  BY <2>1, RouteStepIsDataStep, PTL DEF RouteSpec, DataSpec
<1>2. RouteSpec => []WrittenInForce
  <2>1. RouteSpec => []HistoryInv
    BY <1>1, DataHistoryCorrect
  <2> QED
    BY <2>1, InitWrittenInForce, StepWrittenInForce, PTL DEF RouteSpec
<1>3. HistoryInv /\ SettledInv /\ WrittenInForce => MapIsAsWritten
  <2> SUFFICES ASSUME HistoryInv, SettledInv, WrittenInForce, settled
               PROVE  \A p \in ForwardingPrefixes :
                        ~Spoiled(p) => tables["ForwardingTable"][p] = written[p]
    BY DEF MapIsAsWritten
  <2>1. InForce = tables["ForwardingTable"]
    BY ServedRoutes DEF SettledInv
  <2> QED  BY <2>1 DEF WrittenInForce, AsWritten
<1> QED  BY <1>1, <1>2, <1>3, DataHistoryCorrect, SettledCorrect, PTL

-----------------------------------------------------------------------------
(* What would make the program's log true.                                 *)

(* The trie compares addresses from the top of the number.                 *)
InNetworkOrder ==
  \A a \in Address, i \in 0 .. (Width - 1) : TrieBit(a, i) = NetworkBit(a, i)

(* With addresses of one byte it does.                                     *)
LEMMA OneByteIsInOrder == AddressBytes = 1 => InNetworkOrder
<1> SUFFICES ASSUME AddressBytes = 1, NEW a \in Address, NEW i \in 0 .. (Width - 1)
             PROVE  TrieBit(a, i) = NetworkBit(a, i)
  BY DEF InNetworkOrder
<1>1. Width = ByteBits /\ ByteBits \in Nat \ {0}
  BY LpmTrieAssumption DEF Width
<1>2. i \in Nat /\ i < ByteBits
  BY <1>1
<1>3. i \div ByteBits = 0 /\ i % ByteBits = i
  BY <1>1, <1>2
<1>4. 0 * ByteBits + (ByteBits - 1 - i) = Width - 1 - i
  BY <1>1, <1>2
<1> QED  BY <1>3, <1>4 DEF TrieBit, NetworkBit

(* The order of the bytes is all that separates what the log says from     *)
(* what the program does: nothing else hides a network from a frame.       *)
LEMMA OrderIsAllThatIsMissing ==
  ASSUME InNetworkOrder
  PROVE  DataSpec => []NoHopMeansNoNetwork
<1>1. HistoryInv /\ SettledInv => NoHopMeansNoNetwork
  <2> SUFFICES ASSUME HistoryInv, SettledInv,
                      NEW cpu \in Cpus, fresh[cpu], hop[cpu] = None,
                      NEW p \in Stored(InForce), Contains(p, KeyOf(frame[cpu].dst))
               PROVE  FALSE
    BY DEF NoHopMeansNoNetwork
  <2>1. settled /\ frame[cpu] # Nothing /\ frame[cpu].kind = "ipv4"
    BY DataPlaneAssumption DEF SettledInv, FreshLookups
  <2>2. frame[cpu].dst \in Address
    BY <2>1, DataPlaneAssumption DEF SettledInv, DataTypeOK, Frame
  <2>3. p \in Prefix
    <3>1. InForce = tables["ForwardingTable"]
      BY <2>1, ServedRoutes DEF SettledInv
    <3>2. tables["ForwardingTable"] \in [ForwardingPrefixes -> NextHops \cup {None}]
      BY DEF HistoryInv, TypeOK, IsTables, Contents, Keys, Values, TableType
    <3> QED  BY <3>1, <3>2, TablesAssumption DEF Stored
  <2>4. p[2] <= Width /\ SameNetworkBits(p[1], frame[cpu].dst, p[2])
    BY DEF Contains, KeyOf
  <2>5. p[1] \in Address /\ p[2] \in Int /\ Width \in Int
    BY <2>3, LpmTrieAssumption DEF Prefix, Width
  <2>6. \A i \in 0 .. (p[2] - 1) : i \in 0 .. (Width - 1)
    BY <2>4, <2>5
  <2>7. SameTrieBits(p[1], frame[cpu].dst, p[2])
    BY <2>2, <2>4, <2>5, <2>6, InNetworkOrder DEF InNetworkOrder, SameTrieBits, SameNetworkBits
  <2>8. Answers(p, KeyOf(frame[cpu].dst))
    BY <2>4, <2>7 DEF Answers, KeyOf
  <2> QED  BY <2>8, NoHopNoMatch
<1> QED  BY <1>1, DataHistoryCorrect, SettledCorrect, PTL
=============================================================================
