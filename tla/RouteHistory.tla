---------------------------- MODULE RouteHistory ----------------------------
(***************************************************************************)
(* The data plane with two history variables: the routes as the controller *)
(* wrote them, and which of them the kernel refuses.  ForwardingTable::add *)
(* throws the result of the map's insert away, so a refused route is not   *)
(* told from one in force by anything the program returns or logs.         *)
(***************************************************************************)
EXTENDS DataPlane

VARIABLES
  written,    \* the routes as the controller wrote them
  refused     \* the prefixes whose last add the kernel refuses

writeVars == <<written, refused>>
routeVars == <<dataVars, writeVars>>

(* What the controller means by a write: the prefix has this hop, or none, *)
(* from now on, in whatever words its node was written before.             *)
Written(command) ==
  [p \in ForwardingPrefixes |->
     IF command.op = "Add" /\ p = command.key THEN command.value
     ELSE IF SameNode(p, command.key) THEN None ELSE written[p]]

(* An add is refused by a map that will be full, even if it would replace  *)
(* an entry, or for a prefix that is too long; the next write of the same  *)
(* node makes up for it or fails too.                                      *)
Refused(command) ==
  {p \in refused : ~SameNode(p, command.key)}
    \cup {p \in {command.key} : command.op = "Add" /\ ~TrieAccepts(InForce, p)}

-----------------------------------------------------------------------------
RouteInit ==
  /\ DataInit
  /\ written = [p \in ForwardingPrefixes |-> None]
  /\ refused = {}

CommandSent(c) ==
  /\ ClientSends(c)
  /\ IF RouteWrite(cmd[c])
     THEN written' = Written(cmd[c]) /\ refused' = Refused(cmd[c])
     ELSE UNCHANGED writeVars

RouteNext ==
  \/ \E c \in Clients : CommandSent(c)
  \/ /\ \/ \E c \in Clients :
             \/ \E command \in Command : ClientCalls(c, command)
             \/ ClientReturns(c) \/ ClientCancels(c)
        \/ TaskServes
        \/ \E cpu \in Cpus : ProgramRuns(cpu)
     /\ UNCHANGED writeVars

RouteSpec == RouteInit /\ [][RouteNext]_routeVars

-----------------------------------------------------------------------------
(* The last add of p's node was refused.                                   *)
Spoiled(p) == \E q \in refused : SameNode(p, q)

(***************************************************************************)
(* Once the controller has been answered, the kernel map holds the routes  *)
(* it wrote with the hops it wrote them with, and none that it deleted or  *)
(* wrote anew under other host bits; only where the kernel refused the     *)
(* last add, of which ForwardingTable::add tells nobody, may the two       *)
(* differ.  Nothing else is still in the channel, was lost there or was    *)
(* overwritten by another command.                                         *)
(***************************************************************************)
MapIsAsWritten ==
  settled =>
    \A p \in ForwardingPrefixes :
      ~Spoiled(p) => tables["ForwardingTable"][p] = written[p]
=============================================================================
