-------------------------------- MODULE Cli --------------------------------
(***************************************************************************)
(* cli/cli.rs: the prompt task, the server task that lists tables for it,  *)
(* and the channel between them, on top of Discovery, whose Console is the *)
(* StateClient of the server task.                                         *)
(*                                                                         *)
(* A listing passes two channels and two oneshots: prompt -> server task   *)
(* -> State task and back.  The prompt unwraps everything: an input error  *)
(* (Ctrl-C, Esc, end of input) and a list that failed both kill it, and    *)
(* nothing else stops.                                                     *)
(***************************************************************************)
EXTENDS Discovery

CONSTANTS
  PromptCapacity,   \* capacity of the channel of CliCommands: 32
  NoTable

ASSUME CliAssumption == PromptCapacity \in Nat \ {0} /\ NoTable \notin Actor!TableType

VARIABLES
  prompt,     \* "reading", "sending", "waiting", "dead", or "exited" with the process
  asked,      \* the table of the prompt's latest command
  answer,     \* what the oneshot of that command delivered
  requests,   \* the channel of CliCommands
  serving,    \* the table the server task is listing
  heard       \* history: the neighbours at the time of the latest command

cliVars == <<prompt, asked, answer, requests, serving, heard>>
allVars == <<vars, cliVars>>

CliInit ==
  /\ Init
  /\ prompt = "reading"
  /\ asked = NoTable
  /\ answer = Pending
  /\ requests = <<>>
  /\ serving = NoTable
  /\ heard = Known

-----------------------------------------------------------------------------
(* The prompt task.                                                        *)

(* A table's name is typed.  (Any other text prints "Command not found"    *)
(* and changes nothing.)                                                   *)
TypeTable(table) ==
  /\ prompt = "reading"
  /\ prompt' = "sending"
  /\ asked' = table
  /\ answer' = Pending
  /\ heard' = Known
  /\ UNCHANGED <<vars, requests, serving>>

(* "Exit": the process is gone.  An input error: the prompt is.            *)
Leave ==
  /\ prompt = "reading"
  /\ prompt' \in {"exited", "dead"}
  /\ UNCHANGED <<vars, asked, answer, requests, serving, heard>>

(* CliClient::list puts the command into the channel.                      *)
SendRequest ==
  /\ prompt = "sending"
  /\ Len(requests) < PromptCapacity
  /\ requests' = Append(requests, asked)
  /\ prompt' = "waiting"
  /\ UNCHANGED <<vars, asked, answer, serving, heard>>

(* The oneshot has something: the table is printed and the prompt is back, *)
(* or the error is unwrapped.                                              *)
TakeAnswer ==
  /\ prompt = "waiting"
  /\ answer # Pending
  /\ prompt' = IF answer = Err THEN "dead" ELSE "reading"
  /\ UNCHANGED <<vars, asked, answer, requests, serving, heard>>

-----------------------------------------------------------------------------
(* The server task: it takes a command and asks the State task ...         *)
Serve ==
  /\ serving = NoTable
  /\ requests # <<>>
  /\ serving' = Head(requests)
  /\ requests' = Tail(requests)
  /\ ListTable(Head(requests))
  /\ UNCHANGED <<prompt, asked, answer, heard>>

(* Mutant of AnswerPrompt: a failed list is an empty list to the prompt.   *)
AnswerEmptyOnError ==
  /\ serving # NoTable
  /\ pc[Console] = "idle"
  /\ answer' = IF reply[Console] = Err THEN Actor!EmptyTables[serving] ELSE reply[Console]
  /\ serving' = NoTable
  /\ UNCHANGED <<vars, prompt, asked, requests, heard>>

(* Mutant of AnswerPrompt: the oneshot of a failed list is kept.           *)
KeepOneshotOnError ==
  /\ serving # NoTable
  /\ pc[Console] = "idle"
  /\ answer' = IF reply[Console] = Err THEN Pending ELSE reply[Console]
  /\ serving' = NoTable
  /\ UNCHANGED <<vars, prompt, asked, requests, heard>>

(* ... and passes the table on, or logs the error and drops the oneshot.   *)
AnswerPrompt ==
  /\ serving # NoTable
  /\ pc[Console] = "idle"
  /\ answer' = reply[Console]
  /\ serving' = NoTable
  /\ UNCHANGED <<vars, prompt, asked, requests, heard>>

-----------------------------------------------------------------------------
(* A step of the other tasks, as long as there is a process.               *)
Beside(A) == prompt # "exited" /\ A /\ UNCHANGED cliVars

CliNext ==
  \/ \E table \in Actor!TableType : TypeTable(table)
  \/ Leave \/ SendRequest \/ TakeAnswer
  \/ Serve \/ AnswerPrompt
  \/ Beside(Work)

CliSpec == CliInit /\ [][CliNext]_allVars

(* Every task that can make progress is polled, as in Discovery.  What is  *)
(* typed is up to the user.                                                *)
CliFairness ==
  /\ WF_allVars(SendRequest) /\ WF_allVars(TakeAnswer)
  /\ WF_allVars(Serve) /\ WF_allVars(AnswerPrompt)
  /\ SF_allVars(Beside(SendCommand(Console)))
  /\ WF_allVars(Beside(ReturnCall(Console)))
  /\ WF_allVars(Beside(ServeCommand))

CliFairSpec == CliSpec /\ CliFairness

-----------------------------------------------------------------------------
CliTypeOK ==
  /\ TypeOK
  /\ prompt \in {"reading", "sending", "waiting", "dead", "exited"}
  /\ {asked, serving} \subseteq Actor!TableType \cup {NoTable}
  /\ answer \in Actor!AnswerType \cup {Pending, Err}
  /\ requests \in Seq(Actor!TableType) /\ Len(requests) <= PromptCapacity
  /\ heard \in Actor!Contents("NeighborTable")

(***************************************************************************)
(* What is printed is current: a listing of the neighbours shows every     *)
(* interface of which a hello had been handled when the command was typed, *)
(* although that hello's add may still have been queued at the State task  *)
(* and the listing came to it through another task and another channel.    *)
(***************************************************************************)
ListingIsCurrent ==
  asked = "NeighborTable" /\ answer \notin {Pending, Err} =>
    \A id \in NodeIds, mac \in Macs :
      heard[id] # None /\ heard[id][mac] # None
        => answer[id] # None /\ answer[id][mac] # None

(***************************************************************************)
(* The death of the State task takes the prompt along: nobody can type a   *)
(* command into a program whose State task is gone, and a list fails for   *)
(* no other reason.  This hangs on two facts of the code: only a list can  *)
(* kill the State task, and only the prompt has tables listed.             *)
(***************************************************************************)
StateTakesPromptAlong ==
  /\ server = "dead" => prompt \in {"waiting", "dead"}
  /\ answer = Err => server = "dead"

(***************************************************************************)
(* The prompt never waits for nobody: its command is in exactly one place, *)
(* and whoever has it there is alive and will move it.  It is in the       *)
(* channel of commands, or the server task lists the table asked for; that *)
(* list is on its way to a State task that lives, or its answer is there.  *)
(* No oneshot on the way is dropped without an answer, or kept for ever.   *)
(***************************************************************************)
PromptWaitsForSomebody ==
  prompt = "waiting" /\ answer = Pending =>
    \/ requests = <<asked>> /\ serving = NoTable /\ server = "up"
    \/ /\ requests = <<>> /\ serving = asked
       /\ \/ pc[Console] = "sending" /\ server = "up"
          \/ /\ pc[Console] = "waiting" /\ server = "up"
             /\ \E k \in DOMAIN queue : queue[k].from = Console /\ queue[k].open
          \/ reply[Console] # Pending

(***************************************************************************)
(* Whoever typed a command sees its table or loses the prompt: no command  *)
(* hangs, not even when the State task dies of it or the channel to the    *)
(* State task is full of hellos.                                           *)
(***************************************************************************)
EveryCommandEnds ==
  prompt \in {"sending", "waiting"} ~> prompt \in {"reading", "dead"}
=============================================================================
