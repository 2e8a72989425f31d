-------------------------- MODULE UserSpaceProofs --------------------------
(***************************************************************************)
(* Proofs about UserSpace::run and disco_sender, for any interfaces and    *)
(* any number of ticks.                                                    *)
(***************************************************************************)
EXTENDS UserSpace, SendReceiveProofs

(* SendReceive has its channel once run or a failed run has set it.        *)
SetByRun == own = "none" <=> stage = "new"

(* The client of disco_sender was copied before that.                      *)
CopiedTooEarly ==
  /\ step = "made" => handle[Hellos] = "absent"
  /\ step \in {"made", "cloned"} => stage = "new"
  /\ step # "made" => handle[Hellos] = "none"

(* Nobody else has one, so the outward channel stays as it was made.       *)
NothingGoesOut ==
  /\ out = <<>> /\ outgoing = NoFrame
  /\ \A i \in Interfaces : accepted[i] = 0 /\ wire[i] = <<>>

(* Every interface is greeted, or so it seems, once in every round.        *)
RoundsAreCounted ==
  /\ rounds \in 0 .. MaxRounds
  /\ todo \subseteq Interfaces
  /\ todo # {} => step = "greeting" /\ rounds > 0
  /\ sentOk = [i \in Interfaces |-> IF i \in todo THEN rounds - 1 ELSE rounds]
  /\ errors = [i \in Interfaces |-> 0]

UserInv ==
  /\ SendReceiveInv
  /\ step \in Steps
  /\ SetByRun
  /\ CopiedTooEarly
  /\ NothingGoesOut
  /\ RoundsAreCounted

-----------------------------------------------------------------------------
(* A step of the user space is one of SendReceive or leaves it be.         *)
LEMMA UserStepIsSendReceiveStep == [UserNext]_userVars => [Next]_vars
<1>1. Hellos \in Holders
  BY UserSpaceAssumption
<1> QED
  BY <1>1 DEF UserNext, userVars, Next, Inwards, TakeClient, StartSendReceive,
              StartInterface, SendReceiveStarted, StartFails, StartState, StartReceiver,
              StartHellos, Tick, SayHello, Traffic, ReceiverRuns, ReceiverIsStuck

LEMMA InitUserInv == UserInit => UserInv
<1> SUFFICES ASSUME UserInit PROVE UserInv
  OBVIOUS
<1>1. SendReceiveInv
  BY InitSendReceiveInv DEF UserInit
<1>2. SetByRun /\ CopiedTooEarly /\ NothingGoesOut /\ step \in Steps
  BY UserSpaceAssumption
     DEF UserInit, Init, SetByRun, CopiedTooEarly, NothingGoesOut, Steps
<1>3. RoundsAreCounted
  BY UserSpaceAssumption DEF UserInit, RoundsAreCounted
<1> QED  BY <1>1, <1>2, <1>3 DEF UserInv

(* The steps of run.                                                       *)
RunNext ==
  \/ TakeClient \/ StartSendReceive \/ SendReceiveStarted \/ StartFails
  \/ StartState \/ StartReceiver \/ StartHellos

LEMMA RunUserInv ==
  ASSUME UserInv, RunNext, SendReceiveInv'
  PROVE  UserInv'
<1>1. UNCHANGED <<out, outgoing, wire, accepted, rounds, todo, sentOk, errors>>
  BY DEF RunNext, TakeClient, StartSendReceive, SendReceiveStarted, StartFails, StartState,
         StartReceiver, StartHellos, Advance, Client, Run, SpawnRest, RunPanics, vars, outVars
<1>2. step # "greeting" /\ todo = {}
  BY DEF RunNext, TakeClient, StartSendReceive, SendReceiveStarted, StartFails, StartState,
         StartReceiver, StartHellos, Advance, UserInv, RoundsAreCounted
<1>3. NothingGoesOut' /\ RoundsAreCounted'
  BY <1>1, <1>2 DEF UserInv, NothingGoesOut, RoundsAreCounted
<1>4. step' \in Steps /\ SetByRun' /\ CopiedTooEarly'
  <2>1. CASE TakeClient
    <3>1. handle'[Hellos] = own /\ own = "none"
      BY <2>1, UserSpaceAssumption
         DEF TakeClient, Advance, Client, UserInv, SendReceiveInv, StageOK, SetByRun,
             CopiedTooEarly
    <3> QED
      BY <2>1, <3>1 DEF TakeClient, Advance, Client, UserInv, SetByRun, CopiedTooEarly, Steps
  <2>2. CASE StartSendReceive
    BY <2>2 DEF StartSendReceive, Advance, Run, UserInv, SetByRun, CopiedTooEarly, Steps
  <2>3. CASE SendReceiveStarted \/ StartFails
    BY <2>3 DEF SendReceiveStarted, StartFails, Advance, SpawnRest, RunPanics, UserInv,
                SetByRun, CopiedTooEarly, Steps
  <2>4. CASE StartState \/ StartReceiver \/ StartHellos
    BY <2>4 DEF StartState, StartReceiver, StartHellos, Advance, vars, UserInv, SetByRun,
                CopiedTooEarly, Steps
  <2> QED  BY <2>1, <2>2, <2>3, <2>4 DEF RunNext
<1> QED  BY <1>3, <1>4 DEF UserInv

LEMMA TickUserInv ==
  ASSUME UserInv, Tick, SendReceiveInv'
  PROVE  UserInv'
<1>1. /\ UNCHANGED <<step, own, stage, handle, out, outgoing, wire, accepted, sentOk, errors>>
      /\ step = "greeting" /\ todo = {} /\ todo' = Interfaces
      /\ rounds < MaxRounds /\ rounds' = rounds + 1
  BY DEF Tick, vars, outVars
<1>2. step' \in Steps /\ SetByRun' /\ CopiedTooEarly' /\ NothingGoesOut'
  BY <1>1 DEF UserInv, SetByRun, CopiedTooEarly, NothingGoesOut
<1>3. RoundsAreCounted'
  BY <1>1, UserSpaceAssumption DEF UserInv, RoundsAreCounted
<1> QED  BY <1>2, <1>3 DEF UserInv

(* A hello is claimed to be sent and is not.                               *)
LEMMA SayHelloUserInv ==
  ASSUME UserInv, NEW i \in Interfaces, SayHello(i), SendReceiveInv'
  PROVE  UserInv'
<1>1. step = "greeting" /\ handle[Hellos] = "none"
  BY DEF UserInv, RoundsAreCounted, CopiedTooEarly, SayHello
<1>2. /\ UNCHANGED <<vars, step, rounds, errors>>
      /\ i \in todo /\ todo' = todo \ {i}
      /\ sentOk' = [sentOk EXCEPT ![i] = @ + 1]
  BY <1>1 DEF SayHello, Send, SendReturnsOk
<1>3. step' \in Steps /\ SetByRun' /\ CopiedTooEarly' /\ NothingGoesOut'
  BY <1>2 DEF UserInv, SetByRun, CopiedTooEarly, NothingGoesOut, vars, outVars
<1>4. RoundsAreCounted'
  <2>1. sentOk' = [j \in Interfaces |-> IF j \in todo' THEN rounds - 1 ELSE rounds]
    BY <1>2 DEF UserInv, RoundsAreCounted
  <2> QED  BY <1>2, <2>1 DEF UserInv, RoundsAreCounted
<1> QED  BY <1>3, <1>4 DEF UserInv

(* The tasks find nothing in the outward channel.                          *)
LEMMA TrafficUserInv ==
  ASSUME UserInv, Traffic \/ \E i \in Interfaces : StartInterface(i), SendReceiveInv'
  PROVE  UserInv'
<1>1. ~SenderTakes /\ ~Transmit /\ ~TransmitFails
  BY DEF UserInv, NothingGoesOut, SenderTakes, Transmit, TransmitFails
<1>2. UNCHANGED <<own, stage, handle, out, outgoing, wire, accepted>>
  BY <1>1 DEF Traffic, ReceiverRuns, ReceiverIsStuck, StartInterface, OpenInterface,
              FrameArrives, Read, ReadFails, PassOn, PassOnFails, ForwarderTakes,
              ForwarderSends, ReceiverTakes, ReceiverStops, outVars
<1>3. UNCHANGED hereVars
  BY DEF Traffic, StartInterface
<1> QED
  BY <1>2, <1>3 DEF UserInv, SetByRun, CopiedTooEarly, NothingGoesOut, RoundsAreCounted,
                    hereVars

LEMMA StepUserInv == UserInv /\ [UserNext]_userVars => UserInv'
<1> SUFFICES ASSUME UserInv, [UserNext]_userVars PROVE UserInv'
  OBVIOUS
<1>1. SendReceiveInv'
  BY UserStepIsSendReceiveStep, StepSendReceiveInv DEF UserInv
<1>2. CASE RunNext
  BY <1>1, <1>2, RunUserInv
<1>3. CASE Tick
  BY <1>1, <1>3, TickUserInv
<1>4. CASE \E i \in Interfaces : SayHello(i)
  BY <1>1, <1>4, SayHelloUserInv
<1>5. CASE Traffic \/ \E i \in Interfaces : StartInterface(i)
  BY <1>1, <1>5, TrafficUserInv
<1>6. CASE UNCHANGED userVars
  BY <1>1, <1>6 DEF userVars, hereVars, vars, outVars, UserInv, SetByRun, CopiedTooEarly,
                    NothingGoesOut, RoundsAreCounted
<1> QED  BY <1>2, <1>3, <1>4, <1>5, <1>6 DEF UserNext, RunNext

LEMMA UserCorrect == UserSpec => []UserInv
BY InitUserInv, StepUserInv, PTL DEF UserSpec

-----------------------------------------------------------------------------
(* The tasks, their channels and the counters of hellos stay what they are *)
(* declared to be.                                                         *)
THEOREM UserTypeCorrect == UserSpec => []UserTypeOK
<1>1. UserInv => UserTypeOK
  <2> SUFFICES ASSUME UserInv PROVE UserTypeOK
    OBVIOUS
  <2>1. \A i \in Interfaces : sentOk[i] \in 0 .. MaxRounds
    BY UserSpaceAssumption DEF UserInv, RoundsAreCounted
  <2>2. sentOk \in [Interfaces -> 0 .. MaxRounds]
    BY <2>1 DEF UserInv, RoundsAreCounted
  <2>3. errors \in [Interfaces -> 0 .. MaxRounds]
    BY UserSpaceAssumption DEF UserInv, RoundsAreCounted
  <2> QED  BY <2>2, <2>3, TypeParts DEF UserInv, UserTypeOK, RoundsAreCounted
<1> QED  BY <1>1, UserCorrect, PTL

(* No hello leaves the node on any interface, in any number of rounds,     *)
(* whatever fails, and disco_sender never reports one.                     *)
THEOREM HelloNeverLeaves == UserSpec => []NoHelloEverLeaves
<1>1. UserInv => NoHelloEverLeaves
  BY DEF UserInv, NothingGoesOut, RoundsAreCounted, NoHelloEverLeaves
<1> QED  BY <1>1, UserCorrect, PTL
-----------------------------------------------------------------------------
(* Startup and the hellos are one way of using SendReceive: whatever is    *)
(* true of it with any holders, in any order of its calls, is true here.   *)
THEOREM UserUsesSendReceive == UserSpec => Spec
<1>1. UserInit => Init
  BY DEF UserInit
<1> QED  BY <1>1, UserStepIsSendReceiveStep, PTL DEF UserSpec, Spec

(* So frames reach the receiver in their order, those included that arrive *)
(* before UserSpace has got to start it, and none is lost on the way while *)
(* its reader lives, unless the start fails: then at most a channel full.  *)
THEOREM UserInboundCorrect == UserSpec => []InboundInOrder
BY UserUsesSendReceive, InboundCorrect

(* And every interface is a link through all of startup and every round of *)
(* hellos, whatever tasks die in between.                                  *)
THEOREM UserKeepsLinks == UserSpec => EveryInterfaceIsALink
BY UserUsesSendReceive, SendReceiveImplements
=============================================================================
