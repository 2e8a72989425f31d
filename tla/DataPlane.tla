----------------------------- MODULE DataPlane -----------------------------
(***************************************************************************)
(* The XDP program (fabric-rs-ebpf/src/main.rs) on top of the State actor. *)
(* The map it looks destinations up in is the one behind ForwardingTable,  *)
(* so what it does depends on the commands the State task has SERVED, not  *)
(* on the calls that have returned.                                        *)
(*                                                                         *)
(* One holder of a StateClient, the controller, writes the forwarding      *)
(* table.  A run of the program on a frame is: FrameIn, then either Return *)
(* for a frame it does not look up, or Lookup and Forward.  The hops a     *)
(* lookup returned stay readable although the entry is replaced or deleted *)
(* meanwhile.                                                              *)
(***************************************************************************)
EXTENDS StateHistory

CONSTANTS
  Controller,     \* the client that writes routes
  Cpus,           \* where the program runs, one frame each at a time
  Destinations,   \* destination addresses of the frames that come in
  Nothing         \* no frame, or no result yet

ASSUME DataPlaneAssumption ==
  /\ Controller \in Clients
  /\ Destinations \subseteq Address
  /\ Nothing # None
  /\ Nothing \notin NextHops

VARIABLES
  frame,      \* per cpu: the frame the program runs on
  hop,        \* per cpu: the first of the hops the lookup found, or None
  verdict,    \* per cpu: what the program did with the frame
  settled,    \* history: no route was written since the controller's last query
  fresh       \* history, per cpu: settled when the frame came in, and ever since

xdpVars == <<frame, hop, verdict>>
dataVars == <<historyVars, xdpVars, settled, fresh>>

(* "cut" is a frame too short for its headers, "other" whatever is not     *)
(* IPv4, the hellos with their ethertype Loop included.                    *)
Frame == [kind : {"cut", "other"}] \cup [kind : {"ipv4"}, dst : Destinations]

Aborted == [action |-> "ABORTED"]
Pass == [action |-> "PASS"]

(* The first hop of an entry says how many there are; without any the frame *)
(* is passed to the host, otherwise it is readdressed and redirected.      *)
Redirect(h) ==
  [action |-> "REDIRECT", ifidx |-> h.ifidx, src |-> h.dst_mac, dst |-> h.src_mac]

Decide(h) == IF h # None /\ h.total > 0 THEN Redirect(h) ELSE Pass

RouteWrite(command) ==
  command.op \in {"Add", "Del"} /\ command.table = "ForwardingTable"

(* Mutant of KeyOf: a prefix that leaves out the last bit.                 *)
ShortKeyOf(dst) == <<dst, Width - 1>>

(* The key of a destination: all of its bits, in host order.               *)
KeyOf(dst) == <<dst, Width>>

-----------------------------------------------------------------------------
DataInit ==
  /\ HInit
  /\ frame = [cpu \in Cpus |-> Nothing]
  /\ hop = [cpu \in Cpus |-> Nothing]
  /\ verdict = [cpu \in Cpus |-> Nothing]
  /\ settled = TRUE
  /\ fresh = [cpu \in Cpus |-> FALSE]

(* Any client calls anything, but only the controller writes routes.       *)
ClientCalls(c, command) ==
  /\ RouteWrite(command) => c = Controller
  /\ HCall(c, command)
  /\ UNCHANGED <<xdpVars, settled, fresh>>

ClientSends(c) ==
  /\ HSend(c)
  /\ IF RouteWrite(cmd[c])
     THEN settled' = FALSE /\ fresh' = [cpu \in Cpus |-> FALSE]
     ELSE UNCHANGED <<settled, fresh>>
  /\ UNCHANGED xdpVars

(* With the answer to a query, or the error of one, the controller knows   *)
(* that the task has served all that it sent before.                       *)
ClientReturns(c) ==
  /\ HReturn(c)
  /\ settled' = (settled \/ c = Controller)
  /\ UNCHANGED <<xdpVars, fresh>>

ClientCancels(c) == HCancel(c) /\ UNCHANGED <<xdpVars, settled, fresh>>

TaskServes == HHandle /\ UNCHANGED <<xdpVars, settled, fresh>>

-----------------------------------------------------------------------------
(* Mutant of FrameIn: the hop of the last frame is kept.                   *)
KeepHop(cpu, f) ==
  /\ frame[cpu] = Nothing \/ verdict[cpu] # Nothing
  /\ frame' = [frame EXCEPT ![cpu] = f]
  /\ verdict' = [verdict EXCEPT ![cpu] = Nothing]
  /\ fresh' = [fresh EXCEPT ![cpu] = settled]
  /\ UNCHANGED <<historyVars, hop, settled>>

(* A frame comes in and the program is run on it.                          *)
FrameIn(cpu, f) ==
  /\ frame[cpu] = Nothing \/ verdict[cpu] # Nothing
  /\ frame' = [frame EXCEPT ![cpu] = f]
  /\ hop' = [hop EXCEPT ![cpu] = Nothing]
  /\ verdict' = [verdict EXCEPT ![cpu] = Nothing]
  /\ fresh' = [fresh EXCEPT ![cpu] = settled]
  /\ UNCHANGED <<historyVars, settled>>

(* A frame that is not looked up: aborted when a header is cut off, passed *)
(* to the host when it is not IPv4.                                        *)
NotForwarded(cpu) ==
  /\ frame[cpu] # Nothing
  /\ verdict[cpu] = Nothing
  /\ frame[cpu].kind # "ipv4"
  /\ verdict' = [verdict EXCEPT ![cpu] =
                   IF frame[cpu].kind = "cut" THEN Aborted ELSE Pass]
  /\ UNCHANGED <<historyVars, frame, hop, settled, fresh>>

(* ROUTINGTABLE.get of the destination.                                    *)
Lookup(cpu) ==
  /\ frame[cpu] # Nothing
  /\ verdict[cpu] = Nothing
  /\ frame[cpu].kind = "ipv4"
  /\ hop[cpu] = Nothing
  /\ hop' = [hop EXCEPT ![cpu] =
               TrieLookup(tables["ForwardingTable"], KeyOf(frame[cpu].dst))]
  /\ UNCHANGED <<historyVars, frame, verdict, settled, fresh>>

(* Readdress and redirect the frame, or pass it to the host.               *)
Forward(cpu) ==
  /\ hop[cpu] # Nothing
  /\ verdict[cpu] = Nothing
  /\ verdict' = [verdict EXCEPT ![cpu] = Decide(hop[cpu])]
  /\ UNCHANGED <<historyVars, frame, hop, settled, fresh>>

-----------------------------------------------------------------------------
ProgramRuns(cpu) ==
  \/ \E f \in Frame : FrameIn(cpu, f)
  \/ NotForwarded(cpu) \/ Lookup(cpu) \/ Forward(cpu)

DataNext ==
  \/ \E c \in Clients :
       \/ \E command \in Command : ClientCalls(c, command)
       \/ ClientSends(c) \/ ClientReturns(c) \/ ClientCancels(c)
  \/ TaskServes
  \/ \E cpu \in Cpus : ProgramRuns(cpu)

DataSpec == DataInit /\ [][DataNext]_dataVars

-----------------------------------------------------------------------------
(* The routes as they will be when the first i commands are served.        *)
RoutesAfter(i) == views[i]["ForwardingTable"]

(* The routes in force once the channel is served: what the controller has *)
(* written, less what the kernel refuses (RouteHistory tells them apart).  *)
InForce == RoutesAfter(Len(queue))

(***************************************************************************)
(* add and del return before the data plane has changed, but a query is a  *)
(* barrier: a frame that comes in after the controller was answered is     *)
(* treated as the routes in force say, with nothing still to be served in  *)
(* them, until the controller writes the next one, even if the State task  *)
(* has died meanwhile or the answer was an error.                          *)
(***************************************************************************)
SettledRoutesForward ==
  \A cpu \in Cpus :
    fresh[cpu] /\ verdict[cpu] # Nothing /\ frame[cpu].kind = "ipv4" =>
      verdict[cpu] = Decide(TrieLookup(InForce, KeyOf(frame[cpu].dst)))

(***************************************************************************)
(* A host route is never shadowed: when the table holds an entry for a     *)
(* destination itself, that entry is the one a frame to it is treated by,  *)
(* whatever other prefixes are stored and in whatever order the bytes of   *)
(* the key are compared.  (This is what keeps a node's own addresses out   *)
(* of its default route.)                                                  *)
(***************************************************************************)
HostRouteWins ==
  LET ft == tables["ForwardingTable"]
  IN  \A p \in Stored(ft) :
        p[2] = Width => TrieLookup(ft, KeyOf(p[1])) = ft[p]

(***************************************************************************)
(* What the program's log says ("no route_next_hop found for dst_ip"): a   *)
(* frame for whose destination no entry is found is one that no network in *)
(* the table contains.  (It may be: the trie compares the lowest byte of   *)
(* the address first.)                                                     *)
(***************************************************************************)
NoHopMeansNoNetwork ==
  \A cpu \in Cpus :
    fresh[cpu] /\ hop[cpu] = None =>
      \A p \in Stored(InForce) : ~Contains(p, KeyOf(frame[cpu].dst))

-----------------------------------------------------------------------------
(* The parts of the inductive invariant behind SettledRoutesForward.       *)

(* No command in the channel changes a route.                              *)
RoutesServed == \A i \in 0 .. Len(queue) : RoutesAfter(i) = RoutesAfter(0)

DataTypeOK ==
  /\ frame \in [Cpus -> Frame \cup {Nothing}]
  /\ hop \in [Cpus -> NextHops \cup {None, Nothing}]
  /\ verdict \in [Cpus -> {Aborted, Pass, Nothing} \cup {Redirect(h) : h \in NextHops}]
  /\ settled \in BOOLEAN
  /\ fresh \in [Cpus -> BOOLEAN]

OnlyControllerWrites ==
  \A c \in Clients : pc[c] = "sending" /\ RouteWrite(cmd[c]) => c = Controller

(* Behind a query of the controller no command changes a route.            *)
QueryIsBarrier ==
  \A i \in 1 .. Len(queue) :
    queue[i].open /\ queue[i].from = Controller =>
      \A j \in i .. Len(queue) : RoutesAfter(j) = RoutesAfter(i)

AnsweredMeansServed ==
  pc[Controller] = "waiting" /\ reply[Controller] # Pending => RoutesServed

FreshLookups ==
  \A cpu \in Cpus :
    fresh[cpu] =>
      /\ settled
      /\ hop[cpu] # Nothing =>
           /\ frame[cpu] # Nothing
           /\ frame[cpu].kind = "ipv4"
           /\ hop[cpu] = TrieLookup(tables["ForwardingTable"], KeyOf(frame[cpu].dst))

VerdictsFollowLookups ==
  \A cpu \in Cpus :
    verdict[cpu] # Nothing /\ frame[cpu].kind = "ipv4" =>
      hop[cpu] # Nothing /\ verdict[cpu] = Decide(hop[cpu])

(***************************************************************************)
(* A query of the controller separates the routes it knows to be in the    *)
(* kernel from those that may still be queued: once it is answered no      *)
(* command of any client in the channel changes a route, and what a frame  *)
(* was looked up as since then is what a lookup would find now.            *)
(***************************************************************************)
SettledInv ==
  /\ DataTypeOK
  /\ settled => RoutesServed
  /\ OnlyControllerWrites
  /\ QueryIsBarrier
  /\ AnsweredMeansServed
  /\ FreshLookups
  /\ VerdictsFollowLookups
=============================================================================
