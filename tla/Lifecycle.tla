----------------------------- MODULE Lifecycle -----------------------------
(***************************************************************************)
(* The life of the process: fabric-rs/src/main.rs, Interface::new in       *)
(* interface/interface.rs, and the start and the join_all of               *)
(* UserSpace::run, while links are removed and created again under the     *)
(* same name.                                                              *)
(*                                                                         *)
(* main asks for everything about an interface by name or by index, one    *)
(* query after the other, and attaches the XDP program by name much later. *)
(* A link is known by its index here, and so are the addresses read from   *)
(* it.  The kernel does not use an index twice; links are not renamed.     *)
(*                                                                         *)
(* What tasks do is the subject of the other modules.  Here a task is      *)
(* alive or not.                                                           *)
(***************************************************************************)
EXTENDS Integers, Sequences

CONSTANTS
  Names,        \* names of links
  Configured,   \* Config.interfaces: a sequence of names
  MaxIndex      \* bound: links ever created

ASSUME LifecycleAssumption ==
  /\ Configured \in Seq(Names)
  /\ Configured # <<>>
  /\ MaxIndex \in Nat

VARIABLES
  links,      \* name -> index of its link, or NoLink
  created,    \* links created so far
  main,       \* what main is about to do
  todo,       \* the interfaces its present loop has still to deal with
  probe,      \* the Interface that is being made
  probed,     \* interface_list
  attached,   \* the links that run the XDP program
  user,       \* the task of UserSpace::run: "none", "starting", "up", "panicked"
  readers,    \* the links whose reader is alive
  alive,      \* the other tasks that are alive
  end         \* "no", or how the process ended

lifeVars == <<links, created, main, todo, probe, probed, attached, user, readers,
              alive, end>>
hereVars == <<main, todo, probe, probed, user, readers, alive, end>>

NoLink == 0
Index == 1 .. MaxIndex
Exists(i) == \E n \in Names : links[n] = i

(* Tasks whose loop has an unwrap or a panic, and tasks whose loop has not. *)
Mortal == {"sender", "state", "prompt"}
Immortal == {"forwarder", "receiver", "hellos", "cli"}

Init ==
  /\ links = [n \in Names |-> NoLink]
  /\ created = 0
  /\ main = "config"
  /\ todo = Configured
  /\ probe = [ifidx |-> NoLink, ip |-> NoLink]
  /\ probed = {}
  /\ attached = {}
  /\ user = "none"
  /\ readers = {}
  /\ alive = {}
  /\ end = "no"

(* The environment: a link is removed, created, or replaced by a new one.  *)
ChangeLink(n) ==
  /\ end = "no"
  /\ \/ links' = [links EXCEPT ![n] = NoLink] /\ UNCHANGED created
     \/ /\ created < MaxIndex
        /\ created' = created + 1
        /\ links' = [links EXCEPT ![n] = created + 1]
  /\ attached' = attached \ {links[n]}
  /\ UNCHANGED hereVars

-----------------------------------------------------------------------------
(* get_interface_index, in interface.rs and again in main.rs.              *)
IndexOf(name) == links[name]

At(step) == main = step /\ end = "no"

(* An error or a panic of main: bpf is dropped, which detaches the program. *)
Abort(how) ==
  /\ end' = how
  /\ attached' = {}
  /\ UNCHANGED <<links, created, main, todo, probe, probed, user, readers, alive>>

(* Mutant of GoOn: one iterator for both loops of main.                     *)
GoOnWithoutRestart(again, after) ==
  /\ main' = IF Len(todo) > 1 THEN again ELSE after
  /\ todo' = Tail(todo)
  /\ UNCHANGED <<links, created, user, readers, alive, end>>

(* main goes on, with the next interface or with what comes after the loop. *)
GoOn(again, after) ==
  /\ main' = IF Len(todo) > 1 THEN again ELSE after
  /\ todo' = IF Len(todo) > 1 THEN Tail(todo) ELSE Configured
  /\ UNCHANGED <<links, created, user, readers, alive, end>>

Goto(step) ==
  /\ main' = step
  /\ UNCHANGED <<links, created, todo, user, readers, alive, end>>

(* The configuration cannot be read or parsed, or the log file be created. *)
Configure ==
  /\ At("config")
  /\ \/ Abort("error")
     \/ Goto("index") /\ UNCHANGED <<probe, probed, attached>>

(* Interface::new: if_nametoindex, ...                                     *)
ProbeIndex ==
  /\ At("index")
  /\ LET i == IndexOf(Head(todo))
     IN  IF i = NoLink THEN Abort("error")
         ELSE /\ probe' = [probe EXCEPT !.ifidx = i]
              /\ Goto("ip")
              /\ UNCHANGED <<probed, attached>>

(* ... the link of that name in the list of all interfaces, which may have *)
(* no address, ...                                                         *)
ProbeIp ==
  /\ At("ip")
  /\ LET i == links[Head(todo)]
     IN  IF i = NoLink THEN Abort("panic")
         ELSE \/ Abort("error")
              \/ /\ probe' = [probe EXCEPT !.ip = i]
                 /\ Goto("mac")
                 /\ UNCHANGED <<probed, attached>>

(* The Interface is made, with mac as its hardware address, and inserted   *)
(* into interface_list under its index.                                    *)
Insert(mac) ==
  /\ probed' = {p \in probed : p.ifidx # probe.ifidx} \cup
       {[name |-> Head(todo), ifidx |-> probe.ifidx, ip |-> probe.ip, mac |-> mac]}
  /\ GoOn("index", "load")
  /\ UNCHANGED <<probe, attached>>

(* Mutant of ProbeMac: the hardware address is asked for by name, too.      *)
ProbeMacByName ==
  /\ At("mac")
  /\ LET i == links[Head(todo)]
     IN  IF i = NoLink THEN Abort("error") ELSE Insert(i)

(* ... and the hardware address of the link with that index, if there is   *)
(* one.                                                                    *)
ProbeMac ==
  /\ At("mac")
  /\ Abort("error") \/ (Exists(probe.ifidx) /\ Insert(probe.ifidx))

(* The program is loaded.  The memory limit and the logger may fail.       *)
Load ==
  /\ At("load")
  /\ \/ Abort("error")
     \/ Goto("attach") /\ UNCHANGED <<probe, probed, attached>>

(* The program is attached by name, and the index asked for once more.  A  *)
(* link that has the program already, or is gone, is an error.             *)
Attach ==
  /\ At("attach")
  /\ \/ Abort("error")
     \/ LET i == links[Head(todo)]
        IN  /\ i \notin attached \cup {NoLink}
            /\ attached' = attached \cup {i}
            /\ Goto("recheck")
            /\ UNCHANGED <<probe, probed>>

Recheck ==
  /\ At("recheck")
  /\ IF IndexOf(Head(todo)) = NoLink THEN Abort("error")
     ELSE GoOn("attach", "spawn") /\ UNCHANGED <<probe, probed, attached>>

(* The routing table is taken and UserSpace::run spawned.                  *)
SpawnUser ==
  /\ At("spawn")
  /\ main' = "joining"
  /\ user' = "starting"
  /\ UNCHANGED <<links, created, todo, probe, probed, attached, readers, alive, end>>

-----------------------------------------------------------------------------
(* UserSpace::run.                                                         *)
Wanted == {p.ifidx : p \in probed}

UserSteps == UNCHANGED <<links, created, todo, probe, probed, attached>>

(* Mutant of UserStarts: the readers are opened although links are missing. *)
StartsWithoutLinks ==
  /\ user = "starting" /\ end = "no"
  /\ user' = "up"
  /\ readers' = {links[n] : n \in {Configured[k] : k \in DOMAIN Configured}} \ {NoLink}
  /\ alive' = Mortal \cup Immortal
  /\ UserSteps /\ UNCHANGED <<main, end>>

(* Every interface is opened by the index it had when it was probed.       *)
UserStarts ==
  /\ user = "starting" /\ end = "no"
  /\ \A i \in Wanted : Exists(i)
  /\ user' = "up"
  /\ readers' = Wanted
  /\ alive' = Mortal \cup Immortal
  /\ UserSteps /\ UNCHANGED <<main, end>>

(* One of them is not there or cannot be opened: the task panics, with the *)
(* readers of those before it spawned.                                     *)
UserPanics(opened) ==
  /\ user = "starting" /\ end = "no"
  /\ opened # Wanted
  /\ \A i \in opened : Exists(i)
  /\ user' = "panicked"
  /\ readers' = opened
  /\ UserSteps /\ UNCHANGED <<main, alive, end>>

(* Mutant of ReaderFails: the reader logs the error and reads on.           *)
ReaderReadsOn(i) == i \in readers /\ end = "no" /\ UNCHANGED lifeVars

(* A reader's next() fails, as it does once its link is gone; or next()    *)
(* gives it a frame and the unwrap of its send panics, because the start   *)
(* that left the reader over has closed the channel.                       *)
ReaderFails(i) ==
  /\ i \in readers /\ end = "no"
  /\ readers' = readers \ {i}
  /\ UserSteps /\ UNCHANGED <<main, user, alive, end>>

(* Another task panics.                                                    *)
TaskDies(t) ==
  /\ t \in alive \cap Mortal /\ end = "no"
  /\ alive' = alive \ {t}
  /\ UserSteps /\ UNCHANGED <<main, user, readers, end>>

-----------------------------------------------------------------------------
(* Mutant of Joined: the first task to end is enough.                       *)
FirstJoined == user = "panicked" \/ (user = "up" /\ (Mortal \cup Immortal) \ alive # {})

(* The two join_all, the one of UserSpace::run inside the one of main: the *)
(* task of run has ended, or all tasks that it spawned have.               *)
Joined == user = "panicked" \/ (user = "up" /\ alive = {} /\ readers = {})

Join ==
  /\ At("joining")
  /\ Joined
  /\ Goto("waiting")
  /\ UNCHANGED <<probe, probed, attached>>

(* main returns.  bpf is dropped, then the runtime, which waits for its    *)
(* worker threads.                                                         *)
AwaitedCtrlC ==
  /\ At("waiting")
  /\ attached' = {}
  /\ Goto("returning")
  /\ UNCHANGED <<probe, probed>>

(* No task blocks a worker thread any more: the process is gone.           *)
RuntimeDropped ==
  /\ At("returning")
  /\ readers = {}
  /\ end' = "returned"
  /\ UserSteps /\ UNCHANGED <<main, user, readers, alive>>

(* "Exit" at the prompt, or Ctrl-C where nobody has asked for the signal:  *)
(* no destructor runs, and it is up to the kernel to detach the program.   *)
(* (Ctrl-C inside prompt() only kills the prompt.)                         *)
AbruptEnd ==
  /\ end = "no" /\ main \notin {"waiting", "returning"}
  /\ end' = "abrupt"
  /\ UserSteps /\ UNCHANGED <<main, user, readers, alive>>

-----------------------------------------------------------------------------
MainNext ==
  \/ Configure \/ ProbeIndex \/ ProbeIp \/ ProbeMac \/ Load \/ Attach \/ Recheck
  \/ SpawnUser \/ Join \/ AwaitedCtrlC \/ RuntimeDropped \/ AbruptEnd

Next ==
  \/ \E n \in Names : ChangeLink(n)
  \/ MainNext
  \/ UserStarts \/ \E opened \in SUBSET Wanted : UserPanics(opened)
  \/ \E i \in readers : ReaderFails(i)
  \/ \E t \in Mortal : TaskDies(t)

(* Of the process only its end matters for liveness: the reader of a link  *)
(* that is gone is told so.  That frames come on a link nobody promises.   *)
Fairness ==
  /\ \A i \in Index : WF_lifeVars(~Exists(i) /\ ReaderFails(i))
  /\ WF_lifeVars(RuntimeDropped)

Spec == Init /\ [][Next]_lifeVars
FairSpec == Spec /\ Fairness

-----------------------------------------------------------------------------
TypeOK ==
  /\ links \in [Names -> {NoLink} \cup Index]
  /\ created \in 0 .. MaxIndex
  /\ main \in {"config", "index", "ip", "mac", "load", "attach", "recheck", "spawn",
               "joining", "waiting", "returning"}
  /\ todo \in Seq(Names) /\ todo # <<>>
  /\ probe \in [ifidx : {NoLink} \cup Index, ip : {NoLink} \cup Index]
  /\ probed \subseteq [name : Names, ifidx : Index, ip : Index, mac : Index]
  /\ attached \subseteq Index
  /\ user \in {"none", "starting", "up", "panicked"}
  /\ readers \subseteq Index
  /\ alive \subseteq Mortal \cup Immortal
  /\ end \in {"no", "error", "panic", "returned", "abrupt"}

(***************************************************************************)
(* Index, address and hardware address of an Interface are those of one    *)
(* link, although links are replaced between the queries: the last query   *)
(* goes by the index that the first returned, so it fails when the link of *)
(* the name is another one by now.                                         *)
(***************************************************************************)
ProbeIsOfOneLink == \A p \in probed : p.ip = p.ifidx /\ p.mac = p.ifidx

(***************************************************************************)
(* Whatever link the user space takes frames from also runs the XDP        *)
(* program, although the program was attached by name and the link opened  *)
(* by an index that was asked for before: no node discovers neighbours on  *)
(* a link on which it does not forward.                                    *)
(***************************************************************************)
ReadersAreAttached ==
  end = "no" /\ user = "up" => {i \in readers : Exists(i)} \subseteq attached

(***************************************************************************)
(* "Waiting for Ctrl-C" is only ever reached after a failed start: whatever *)
(* tasks of a running program die, one of those that cannot end keeps both *)
(* join_all waiting, so nobody is told and the program forwards on.        *)
(***************************************************************************)
OnlyFailedStartIsNoticed ==
  main \in {"waiting", "returning"} => user = "panicked"

(***************************************************************************)
(* After a Ctrl-C that main waited for the process ends, or it hangs on a  *)
(* reader left over from the failed start whose link outlives everything:  *)
(* that one sits in next() until a frame comes, which nobody promises, and *)
(* the runtime waits for its worker thread.  Nothing else holds the        *)
(* process, and no link that is removed does.                              *)
(***************************************************************************)
OnlyAReaderHoldsTheProcess ==
  main = "returning" ~>
    (end = "returned" \/ \E i \in Index : [](i \in readers /\ Exists(i)))
=============================================================================
