----------------------------- MODULE UserSpace -----------------------------
(***************************************************************************)
(* UserSpace::run and its disco_sender around the tasks of SendReceive:    *)
(* in which order the parts are made, started and given their handles, and *)
(* the hello that goes out on every interface at every tick.               *)
(*                                                                         *)
(* The receiver task takes frames from the moment it is spawned; until     *)
(* then they wait in the channel that run made for it.                     *)
(***************************************************************************)
EXTENDS SendReceive

CONSTANTS
  Hellos,      \* the one holder of a client: UserSpace and its disco_sender
  MaxRounds    \* bound: ticks of the hello interval

ASSUME UserSpaceAssumption == Holders = {Hellos} /\ MaxRounds \in Nat

VARIABLES
  step,     \* how far UserSpace::run has come
  rounds,   \* ticks of the interval so far
  todo,     \* the interfaces disco_sender has not reached in this round
  sentOk,   \* per interface: hellos for which send returned Ok
  errors    \* per interface: hellos for which "Error sending disco" was printed

hereVars == <<step, rounds, todo, sentOk, errors>>
userVars == <<vars, hereVars>>

Steps == {"made", "cloned", "starting", "receiving", "stated", "received", "greeting",
          "failed"}

-----------------------------------------------------------------------------
(* UserSpace::new, then SendReceive::new at the top of run.                *)
UserInit ==
  /\ Init
  /\ step = "made"
  /\ rounds = 0
  /\ todo = {}
  /\ sentOk = [i \in Interfaces |-> 0]
  /\ errors = [i \in Interfaces |-> 0]

Advance(from, to) ==
  /\ step = from
  /\ step' = to
  /\ UNCHANGED <<rounds, todo, sentOk, errors>>

(* let sr_client = sr.client(): the copy disco_sender will be given.       *)
TakeClient == Advance("made", "cloned") /\ Client(Hellos)

(* sr.run() is called, goes from interface to interface, and returns.      *)
StartSendReceive == Advance("cloned", "starting") /\ Run
StartInterface(i) == OpenInterface(i) /\ UNCHANGED hereVars
SendReceiveStarted == Advance("starting", "receiving") /\ SpawnRest

(* sr.run() panics: so does the task that runs UserSpace::run.             *)
StartFails == Advance("starting", "failed") /\ RunPanics

(* Mutant of StartReceiver: the receiver's channel is made only now.        *)
StartReceiverAfresh ==
  /\ Advance("stated", "received")
  /\ frames' = <<>>
  /\ UNCHANGED <<stage, own, handle, outVars, readerVars, inbound, carried, received,
                 stuck, slot>>

(* state.run(), receiver(), disco_sender(): tasks are spawned, nothing can *)
(* fail.  Both handles that receiver() asks for were set before.           *)
StartState == Advance("receiving", "stated") /\ UNCHANGED vars
StartReceiver == Advance("stated", "received") /\ UNCHANGED vars
StartHellos == Advance("received", "greeting") /\ UNCHANGED vars

-----------------------------------------------------------------------------
(* disco_sender: interval.tick(), then one send per interface in whatever  *)
(* order the HashMap yields them.                                          *)
Tick ==
  /\ step = "greeting"
  /\ todo = {}
  /\ rounds < MaxRounds
  /\ rounds' = rounds + 1
  /\ todo' = Interfaces
  /\ UNCHANGED <<vars, step, sentOk, errors>>

SayHello(i) ==
  /\ i \in todo
  /\ todo' = todo \ {i}
  /\ Send(Hellos, i)
  /\ IF SendReturnsOk(Hellos)
     THEN sentOk' = [sentOk EXCEPT ![i] = @ + 1] /\ UNCHANGED errors
     ELSE errors' = [errors EXCEPT ![i] = @ + 1] /\ UNCHANGED sentOk
  /\ UNCHANGED <<step, rounds>>

-----------------------------------------------------------------------------
(* The tasks of SendReceive.  The receiver exists from StartReceiver on.   *)
ReceiverRuns == step \in {"received", "greeting"} /\ ReceiverTakes

(* Only a command of the prompt, which is started last, kills the State    *)
(* task.                                                                   *)
ReceiverIsStuck == step = "greeting" /\ ReceiverStops

Traffic ==
  /\ \/ \E i \in Interfaces :
          FrameArrives(i) \/ Read(i) \/ ReadFails(i) \/ PassOn(i) \/ PassOnFails(i)
     \/ ForwarderTakes \/ ForwarderSends
     \/ ReceiverRuns \/ ReceiverIsStuck
     \/ SenderTakes \/ Transmit \/ TransmitFails
  /\ UNCHANGED hereVars

UserNext ==
  \/ TakeClient \/ StartSendReceive \/ SendReceiveStarted \/ StartFails
  \/ \E i \in Interfaces : StartInterface(i)
  \/ StartState \/ StartReceiver \/ StartHellos
  \/ Tick \/ \E i \in Interfaces : SayHello(i)
  \/ Traffic

UserSpec == UserInit /\ [][UserNext]_userVars

(* Startup goes on to its end, and the tasks as in SendReceive; whether    *)
(* frames come, what fails, and the ticks are up to the environment.       *)
UserFairness ==
  /\ WF_userVars(TakeClient) /\ WF_userVars(StartSendReceive)
  /\ WF_userVars(\/ SendReceiveStarted \/ StartFails
                 \/ \E i \in Interfaces : StartInterface(i))
  /\ WF_userVars(StartState) /\ WF_userVars(StartReceiver)
  /\ WF_userVars(StartHellos)
  /\ \A i \in Interfaces :
       /\ WF_userVars(Read(i) /\ UNCHANGED hereVars)
       /\ SF_userVars(PassOn(i) /\ UNCHANGED hereVars)
       /\ WF_userVars(PassOnFails(i) /\ UNCHANGED hereVars)
  /\ WF_userVars(ForwarderTakes /\ UNCHANGED hereVars)
  /\ WF_userVars(ForwarderSends /\ UNCHANGED hereVars)
  /\ WF_userVars(ReceiverRuns /\ UNCHANGED hereVars)

UserFairSpec == UserSpec /\ UserFairness

-----------------------------------------------------------------------------
UserTypeOK ==
  /\ TypeOK
  /\ step \in Steps
  /\ rounds \in 0 .. MaxRounds
  /\ todo \subseteq Interfaces
  /\ sentOk \in [Interfaces -> 0 .. MaxRounds]
  /\ errors \in [Interfaces -> 0 .. MaxRounds]

(***************************************************************************)
(* What disco_sender's error message claims: a hello for which it does not *)
(* print "Error sending disco" is on its way.  (It is not: the client it   *)
(* was given was copied before run set its channel.)                       *)
(***************************************************************************)
HelloSentOrReported == \A i \in Interfaces : sentOk[i] = accepted[i]

(***************************************************************************)
(* What the program does instead: however long it runs, and whatever       *)
(* fails, no hello enters the channel or leaves an interface, and none is  *)
(* reported.                                                               *)
(***************************************************************************)
NoHelloEverLeaves ==
  \A i \in Interfaces : accepted[i] = 0 /\ wire[i] = <<>> /\ errors[i] = 0

(* A frame is one of those of seq.                                         *)
In(frame, seq) == \E p \in DOMAIN seq : seq[p] = frame

(***************************************************************************)
(* A frame that comes in while the program is still starting, before there *)
(* is a receiver or a State task, is received all the same once they run,  *)
(* with the exceptions a later frame has: a dead reader, a receiver stuck  *)
(* on a dead State task, a forwarder left in the slot of a reader to which *)
(* no frame comes any more.  When SendReceive cannot start, the frame is   *)
(* lost with the channel if its reader had passed it on already, and kills *)
(* its reader if not, instead of piling up.                                *)
(***************************************************************************)
EarlyFrameIsReceived ==
  \A i \in Interfaces, k \in 1 .. MaxArrivals :
    arrived[i] >= k ~>
      \/ reader[i] = "dead"
      \/ In(<<i, k>>, IF step = "failed" THEN Lost ELSE received)
      \/ stuck
      \/ []Stranded
=============================================================================
