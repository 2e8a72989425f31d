------------------------- MODULE SendReceiveProofs -------------------------
(***************************************************************************)
(* Proofs about the tasks of SendReceive, for any interfaces, any capacity *)
(* of the channels and any number of frames.                               *)
(***************************************************************************)
EXTENDS SendReceive, SequenceTheorems, FiniteSetTheorems, TLAPS

(* TypeOK by direction: the tasks inwards and the tasks outwards share only *)
(* the stage of SendReceive.                                               *)
StageOK ==
  /\ stage \in {"new", "starting", "running", "failed"}
  /\ own \in {"none", "open"}
  /\ handle \in [Holders -> {"absent", "none", "open"}]

OutOK ==
  /\ out \in Seq(Frame) /\ Len(out) <= Capacity
  /\ sender \in {"off", "up", "dead"}
  /\ outgoing \in Frame \cup {NoFrame}
  /\ wire \in [Interfaces -> Seq(Frame)]
  /\ accepted \in [Interfaces \cup {Foreign} -> 0 .. MaxSends]

ReadersOK ==
  /\ arrived \in [Interfaces -> 0 .. MaxArrivals]
  /\ unread \in [Interfaces -> Seq(Frame)]
  /\ reader \in [Interfaces -> {"off", "reading", "sending", "dead"}]
  /\ held \in [Interfaces -> Frame \cup {NoFrame}]
  /\ \A i \in Interfaces : held[i] # NoFrame <=> reader[i] = "sending"

InOK ==
  /\ inbound \in Seq(Frame) /\ Len(inbound) <= Capacity
  /\ carried \in Frame \cup {NoFrame}
  /\ frames \in Seq(Frame) /\ Len(frames) <= Capacity
  /\ received \in Seq(Frame)
  /\ stuck \in BOOLEAN
  /\ slot \subseteq Interfaces

(* There is no forwarder until every interface is open.                    *)
NothingForwarded ==
  stage # "running" => received = <<>> /\ frames = <<>> /\ carried = NoFrame

SendReceiveInv == StageOK /\ OutOK /\ ReadersOK /\ InOK /\ NothingForwarded

LEMMA TypeParts == SendReceiveInv => TypeOK
  BY DEF SendReceiveInv, StageOK, OutOK, ReadersOK, InOK, TypeOK

-----------------------------------------------------------------------------
(* Channels.                                                               *)
LEMMA PutType ==
  ASSUME NEW S, NEW channel \in Seq(S), NEW e \in S,
         Len(channel) < Capacity
  PROVE  /\ Append(channel, e) \in Seq(S)
         /\ Len(Append(channel, e)) <= Capacity
<1>1. Len(channel) \in Nat /\ Len(Append(channel, e)) = Len(channel) + 1
  OBVIOUS
<1> QED  BY <1>1, SendReceiveAssumption

LEMMA TakeType ==
  ASSUME NEW S, NEW channel \in Seq(S), channel # <<>>
  PROVE  /\ Head(channel) \in S
         /\ Tail(channel) \in Seq(S)
         /\ Len(channel) <= Capacity => Len(Tail(channel)) <= Capacity
<1>1. Len(channel) \in Nat /\ Len(channel) >= 1 /\ Len(Tail(channel)) = Len(channel) - 1
  OBVIOUS
<1>2. Head(channel) \in S /\ Tail(channel) \in Seq(S)
  BY <1>1
<1> QED  BY <1>1, <1>2, SendReceiveAssumption

-----------------------------------------------------------------------------
(* Every step preserves SendReceiveInv.                                    *)

LEMMA InitSendReceiveInv == Init => SendReceiveInv
<1> SUFFICES ASSUME Init PROVE SendReceiveInv
  OBVIOUS
<1>1. StageOK /\ ReadersOK
  BY SendReceiveAssumption DEF Init, StageOK, ReadersOK
<1>2. OutOK
  BY SendReceiveAssumption DEF Init, OutOK
<1>3. InOK
  <2>1. stuck \in BOOLEAN /\ slot \subseteq Interfaces
    BY Zenon DEF Init
  <2> QED  BY <2>1, SendReceiveAssumption DEF Init, InOK
<1>4. NothingForwarded
  BY DEF Init, NothingForwarded
<1> QED  BY <1>1, <1>2, <1>3, <1>4 DEF SendReceiveInv

(* client and the steps of run.                                            *)
StartNext ==
  \/ \E h \in Holders : Client(h)
  \/ Run \/ SpawnRest \/ RunPanics
  \/ \E i \in Interfaces : OpenInterface(i)

LEMMA StartSendReceiveInv ==
  ASSUME SendReceiveInv, StartNext
  PROVE  SendReceiveInv'
<1>1. ASSUME NEW h \in Holders, Client(h)
      PROVE  SendReceiveInv'
  BY <1>1 DEF Client, SendReceiveInv, StageOK, OutOK, ReadersOK, InOK,
              NothingForwarded, outVars, readerVars, inVars
<1>2. CASE Run \/ SpawnRest \/ RunPanics
  BY <1>2 DEF Run, SpawnRest, RunPanics, SendReceiveInv, StageOK, OutOK, ReadersOK, InOK,
              NothingForwarded, outVars, readerVars, inVars
<1>3. ASSUME NEW i \in Interfaces, OpenInterface(i)
      PROVE  SendReceiveInv'
  <2>1. ReadersOK'
    BY <1>3 DEF OpenInterface, SendReceiveInv, ReadersOK
  <2> QED
    BY <1>3, <2>1 DEF OpenInterface, SendReceiveInv, StageOK, OutOK, InOK,
                      NothingForwarded, outVars
<1> QED  BY <1>1, <1>2, <1>3 DEF StartNext

(* The reader of one interface.                                            *)
ReaderNext(i) == FrameArrives(i) \/ Read(i) \/ ReadFails(i) \/ PassOn(i) \/ PassOnFails(i)

LEMMA ReaderSendReceiveInv ==
  ASSUME SendReceiveInv, NEW i \in Interfaces, ReaderNext(i)
  PROVE  SendReceiveInv'
<1> USE DEF SendReceiveInv
<1>1. /\ UNCHANGED <<stage, own, handle, out, sender, outgoing, wire, accepted,
                     carried, frames, received>>
      /\ reader[i] \in {"reading", "sending"}
      /\ \A j \in Interfaces \ {i} : reader'[j] = reader[j]
  BY DEF ReaderNext, FrameArrives, Read, ReadFails, PassOn, PassOnFails, outVars, ReadersOK
<1>2. StageOK' /\ OutOK' /\ NothingForwarded'
  BY <1>1 DEF StageOK, OutOK, NothingForwarded
<1>3. ReadersOK' /\ InOK'
  <2>1. CASE FrameArrives(i)
    <3>1. arrived[i] + 1 \in 0 .. MaxArrivals /\ <<i, arrived[i] + 1>> \in Frame
      BY <2>1, SendReceiveAssumption DEF FrameArrives, ReadersOK, Frame
    <3>2. Append(unread[i], <<i, arrived[i] + 1>>) \in Seq(Frame)
      BY <3>1 DEF ReadersOK
    <3>3. arrived' \in [Interfaces -> 0 .. MaxArrivals] /\ unread' \in [Interfaces -> Seq(Frame)]
      BY <2>1, <3>1, <3>2 DEF FrameArrives, ReadersOK
    <3> QED  BY <2>1, <3>3 DEF FrameArrives, ReadersOK, InOK
  <2>2. CASE Read(i)
    <3>1. Head(unread[i]) \in Frame /\ Tail(unread[i]) \in Seq(Frame)
      BY <2>2, TakeType DEF Read, ReadersOK
    <3>2. held' \in [Interfaces -> Frame \cup {NoFrame}] /\ unread' \in [Interfaces -> Seq(Frame)]
      BY <2>2, <3>1 DEF Read, ReadersOK
    <3>3. \A j \in Interfaces : held'[j] # NoFrame <=> reader'[j] = "sending"
      BY <2>2, <3>1, NoFrameAssumption DEF Read, ReadersOK
    <3> QED  BY <2>2, <3>2, <3>3 DEF Read, ReadersOK, InOK
  <2>3. CASE ReadFails(i)
    BY <2>3 DEF ReadFails, ReadersOK, InOK
  <2>4. CASE PassOn(i)
    <3>1. held[i] \in Frame
      BY <2>4 DEF PassOn, ReadersOK
    <3>2. inbound' \in Seq(Frame) /\ Len(inbound') <= Capacity
      BY <2>4, <3>1, PutType DEF PassOn, InOK
    <3>3. slot' \subseteq Interfaces
      BY <2>4 DEF PassOn, WakeForwarder, InOK
    <3> QED  BY <2>4, <3>2, <3>3 DEF PassOn, ReadersOK, InOK
  <2>5. CASE PassOnFails(i)
    BY <2>5 DEF PassOnFails, ReadersOK, InOK
  <2> QED  BY <2>1, <2>2, <2>3, <2>4, <2>5 DEF ReaderNext
<1> QED  BY <1>2, <1>3

(* The forwarder and the receiver.                                         *)
LEMMA ForwarderSendReceiveInv ==
  ASSUME SendReceiveInv, ForwarderTakes \/ ForwarderSends \/ ReceiverTakes \/ ReceiverStops
  PROVE  SendReceiveInv'
<1> USE DEF SendReceiveInv
<1>1. UNCHANGED <<stage, own, handle, out, sender, outgoing, wire, accepted,
                  arrived, unread, reader, held>>
  BY DEF ForwarderTakes, ForwarderSends, ReceiverTakes, ReceiverStops, outVars, readerVars
<1>2. StageOK' /\ OutOK' /\ ReadersOK'
  BY <1>1 DEF StageOK, OutOK, ReadersOK
<1>3. NothingForwarded'
  BY DEF ForwarderTakes, ForwarderSends, ReceiverTakes, ReceiverStops, NothingForwarded
<1>4. InOK'
  <2>1. CASE ForwarderTakes
    <3>1. /\ Head(inbound) \in Frame /\ Tail(inbound) \in Seq(Frame)
          /\ Len(Tail(inbound)) <= Capacity
      BY <2>1, TakeType DEF ForwarderTakes, InOK
    <3> QED  BY <2>1, <3>1 DEF ForwarderTakes, InOK
  <2>2. CASE ForwarderSends
    <3>1. frames' \in Seq(Frame) /\ Len(frames') <= Capacity
      BY <2>2, PutType DEF ForwarderSends, InOK
    <3> QED  BY <2>2, <3>1 DEF ForwarderSends, InOK
  <2>3. CASE ReceiverTakes
    <3>1. /\ Head(frames) \in Frame /\ Tail(frames) \in Seq(Frame)
          /\ Len(Tail(frames)) <= Capacity
      BY <2>3, TakeType DEF ReceiverTakes, InOK
    <3>2. Append(received, Head(frames)) \in Seq(Frame)
      BY <3>1 DEF InOK
    <3> QED  BY <2>3, <3>1, <3>2 DEF ReceiverTakes, InOK
  <2>4. CASE ReceiverStops
    BY <2>4 DEF ReceiverStops, InOK
  <2> QED  BY <2>1, <2>2, <2>3, <2>4
<1> QED  BY <1>2, <1>3, <1>4

(* The clients and the sender.                                             *)
OutNext ==
  \/ \E h \in Holders, i \in Interfaces \cup {Foreign} : Send(h, i)
  \/ SenderTakes \/ Transmit \/ TransmitFails

LEMMA OutSendReceiveInv ==
  ASSUME SendReceiveInv, OutNext
  PROVE  SendReceiveInv'
<1> USE DEF SendReceiveInv
<1>1. UNCHANGED <<stage, own, handle, arrived, unread, reader, held, inbound,
                  carried, frames, received, stuck, slot>>
  BY DEF OutNext, Send, Accept, SenderTakes, Transmit, TransmitFails, vars, readerVars,
         inVars
<1>2. StageOK' /\ NothingForwarded' /\ ReadersOK' /\ InOK'
  BY <1>1 DEF StageOK, NothingForwarded, ReadersOK, InOK
<1>3. OutOK'
  <2>1. CASE \E h \in Holders, i \in Interfaces \cup {Foreign} : Send(h, i)
    <3> PICK h \in Holders, i \in Interfaces \cup {Foreign} : Send(h, i)
      BY <2>1
    <3>1. CASE Accept(h, i)
      <4>1. accepted[i] + 1 \in 0 .. MaxSends /\ <<i, accepted[i] + 1>> \in Frame
        BY <3>1, SendReceiveAssumption DEF Accept, OutOK, Frame
      <4>2. out' \in Seq(Frame) /\ Len(out') <= Capacity
        BY <3>1, <4>1, PutType DEF Accept, OutOK
      <4> QED  BY <3>1, <4>1, <4>2 DEF Accept, OutOK
    <3>2. CASE UNCHANGED vars
      BY <3>2 DEF OutOK, vars, outVars
    <3> QED  BY <3>1, <3>2 DEF Send
  <2>2. CASE SenderTakes
    <3>1. Head(out) \in Frame /\ Tail(out) \in Seq(Frame) /\ Len(Tail(out)) <= Capacity
      BY <2>2, TakeType DEF SenderTakes, OutOK
    <3> QED  BY <2>2, <3>1 DEF SenderTakes, OutOK
  <2>3. CASE Transmit
    <3>1. outgoing \in Frame
      BY <2>3 DEF Transmit, OutOK
    <3>2. \A i \in Interfaces : Append(wire[i], outgoing) \in Seq(Frame)
      BY <3>1 DEF OutOK
    <3>3. wire' \in [Interfaces -> Seq(Frame)]
      BY <2>3, <3>2 DEF Transmit, OutOK
    <3> QED  BY <2>3, <3>3 DEF Transmit, OutOK
  <2>4. CASE TransmitFails
    BY <2>4, SendReceiveAssumption DEF TransmitFails, OutOK
  <2> QED  BY <2>1, <2>2, <2>3, <2>4 DEF OutNext
<1> QED  BY <1>2, <1>3

LEMMA StutterSendReceiveInv ==
  ASSUME SendReceiveInv, UNCHANGED vars
  PROVE  SendReceiveInv'
  BY DEF SendReceiveInv, StageOK, OutOK, ReadersOK, InOK, NothingForwarded, vars, outVars,
         readerVars, inVars

LEMMA StepSendReceiveInv == SendReceiveInv /\ [Next]_vars => SendReceiveInv'
<1> SUFFICES ASSUME SendReceiveInv, [Next]_vars PROVE SendReceiveInv'
  OBVIOUS
<1>1. \/ StartNext \/ OutNext \/ UNCHANGED vars
      \/ \E i \in Interfaces : ReaderNext(i)
      \/ ForwarderTakes \/ ForwarderSends \/ ReceiverTakes \/ ReceiverStops
  BY DEF Next, Inwards, StartNext, OutNext, ReaderNext
<1> QED
  BY <1>1, StartSendReceiveInv, ReaderSendReceiveInv, ForwarderSendReceiveInv,
     OutSendReceiveInv, StutterSendReceiveInv

-----------------------------------------------------------------------------
(* No channel of SendReceive ever holds more than its capacity, a reader   *)
(* holds a frame exactly while it is sending it, and every other variable  *)
(* stays what it is declared to be.                                        *)
THEOREM SendReceiveTypeCorrect == Spec => []TypeOK
BY InitSendReceiveInv, StepSendReceiveInv, TypeParts, PTL DEF Spec

-----------------------------------------------------------------------------
(* Sequences and what is appended to them.                                 *)

LEMMA AppendFacts ==
  ASSUME NEW S, NEW s \in Seq(S), NEW e \in S
  PROVE  /\ Append(s, e) \in Seq(S) /\ Len(Append(s, e)) = Len(s) + 1
         /\ Len(s) \in Nat /\ DOMAIN s = 1 .. Len(s)
         /\ DOMAIN Append(s, e) = 1 .. (Len(s) + 1)
         /\ Append(s, e)[Len(s) + 1] = e
         /\ \A k \in 1 .. Len(s) : Append(s, e)[k] = s[k]
         /\ <<e>> \in Seq(S) /\ s \o <<e>> = Append(s, e)
<1>1. /\ Append(s, e) \in Seq(S) /\ Len(Append(s, e)) = Len(s) + 1
      /\ Len(s) \in Nat /\ DOMAIN s = 1 .. Len(s)
      /\ Append(s, e)[Len(s) + 1] = e
      /\ \A k \in 1 .. Len(s) : Append(s, e)[k] = s[k]
  OBVIOUS
<1>2. DOMAIN Append(s, e) = 1 .. (Len(s) + 1)
  BY <1>1, LenProperties
<1>3. <<e>> \in Seq(S) /\ Len(<<e>>) = 1 /\ <<e>>[1] = e
  OBVIOUS
<1>4. /\ s \o <<e>> \in Seq(S) /\ Len(s \o <<e>>) = Len(s) + 1
      /\ \A k \in 1 .. (Len(s) + 1) :
           (s \o <<e>>)[k] = IF k <= Len(s) THEN s[k] ELSE <<e>>[k - Len(s)]
  BY <1>3, ConcatProperties
<1>5. \A k \in 1 .. (Len(s) + 1) : (s \o <<e>>)[k] = Append(s, e)[k]
  BY <1>1, <1>3, <1>4
<1>6. s \o <<e>> = Append(s, e)
  BY <1>1, <1>4, <1>5, SeqEqual
<1> QED  BY <1>1, <1>2, <1>3, <1>6

LEMMA AppendConcat ==
  ASSUME NEW S, NEW s \in Seq(S), NEW t \in Seq(S), NEW e \in S
  PROVE  s \o Append(t, e) = Append(s \o t, e)
<1>1. t \o <<e>> = Append(t, e) /\ <<e>> \in Seq(S)
  BY AppendFacts
<1>2. s \o (t \o <<e>>) = (s \o t) \o <<e>>
  BY <1>1, ConcatAssociative
<1>3. s \o t \in Seq(S)
  BY ConcatProperties
<1>4. (s \o t) \o <<e>> = Append(s \o t, e)
  BY <1>3, AppendFacts
<1> QED  BY <1>1, <1>2, <1>4

(* The head of t goes over to the end of s.                                *)
LEMMA HeadGoesOver ==
  ASSUME NEW S, NEW s \in Seq(S), NEW t \in Seq(S), t # <<>>
  PROVE  /\ Append(s, Head(t)) \o Tail(t) = s \o t
         /\ <<Head(t)>> \o Tail(t) = t
<1>1. Head(t) \in S /\ Tail(t) \in Seq(S) /\ <<Head(t)>> \in Seq(S)
  BY HeadTailProperties
<1>2. <<Head(t)>> \o Tail(t) = t
  <2>1. /\ Len(t) \in Nat /\ Len(t) >= 1 /\ Len(Tail(t)) = Len(t) - 1 /\ Head(t) = t[1]
        /\ \A k \in 1 .. Len(Tail(t)) : Tail(t)[k] = t[k + 1]
    BY HeadTailProperties
  <2>2. Len(<<Head(t)>>) = 1 /\ <<Head(t)>>[1] = Head(t)
    OBVIOUS
  <2>3. /\ <<Head(t)>> \o Tail(t) \in Seq(S)
        /\ Len(<<Head(t)>> \o Tail(t)) = Len(<<Head(t)>>) + Len(Tail(t))
        /\ \A k \in 1 .. (Len(<<Head(t)>>) + Len(Tail(t))) :
             (<<Head(t)>> \o Tail(t))[k] =
               IF k <= Len(<<Head(t)>>) THEN <<Head(t)>>[k]
               ELSE Tail(t)[k - Len(<<Head(t)>>)]
    BY <1>1, ConcatProperties
  <2>4. Len(<<Head(t)>> \o Tail(t)) = Len(t)
    BY <2>1, <2>2, <2>3
  <2>5. \A k \in 1 .. Len(t) : (<<Head(t)>> \o Tail(t))[k] = t[k]
    BY <2>1, <2>2, <2>3
  <2> QED  BY <2>3, <2>4, <2>5, SeqEqual
<1>3. s \o <<Head(t)>> = Append(s, Head(t))
  BY <1>1, AppendFacts
<1>4. (s \o <<Head(t)>>) \o Tail(t) = s \o (<<Head(t)>> \o Tail(t))
  BY <1>1, ConcatAssociative
<1> QED  BY <1>2, <1>3, <1>4

LEMMA HandType ==
  ASSUME NEW frame \in Frame \cup {NoFrame}
  PROVE  Hand(frame) \in Seq(Frame)
  BY DEF Hand

LEMMA CarriesNext ==
  ASSUME NEW seq \in Seq(Frame), NEW i, NEW n \in Nat, Carries(seq, i, n),
         NEW e \in Frame
  PROVE  /\ e = <<i, n + 1>> => Carries(Append(seq, e), i, n + 1)
         /\ e[1] # i => Carries(Append(seq, e), i, n)
<1> DEFINE new == Append(seq, e)
           l == Len(seq)
<1>1. /\ l \in Nat /\ DOMAIN seq = 1 .. l /\ DOMAIN new = 1 .. (l + 1)
      /\ new[l + 1] = e /\ \A p \in 1 .. l : new[p] = seq[p]
  BY AppendFacts
<1>2. /\ \A k \in 1 .. n : \E p \in 1 .. l : seq[p] = <<i, k>>
      /\ \A p \in 1 .. l : seq[p][1] = i => seq[p][2] \in 1 .. n
      /\ \A p, q \in 1 .. l : p < q /\ seq[p][1] = i /\ seq[q][1] = i => seq[p][2] < seq[q][2]
  BY <1>1 DEF Carries
<1> HIDE DEF new, l
<1>3. ASSUME e = <<i, n + 1>>
      PROVE  Carries(new, i, n + 1)
  <2>1. \A k \in 1 .. (n + 1) : \E p \in 1 .. (l + 1) : new[p] = <<i, k>>
    <3> TAKE k \in 1 .. (n + 1)
    <3>1. CASE k = n + 1
      BY <1>1, <1>3, <3>1
    <3>2. CASE k # n + 1
      <4>1. k \in 1 .. n
        BY <3>2
      <4>2. PICK p \in 1 .. l : seq[p] = <<i, k>>
        BY <1>2, <4>1
      <4> QED  BY <1>1, <4>2
    <3> QED  BY <3>1, <3>2
  <2>2. \A p \in 1 .. (l + 1) : new[p][1] = i => new[p][2] \in 1 .. (n + 1)
    BY <1>1, <1>2, <1>3
  <2>3. ASSUME NEW p \in 1 .. (l + 1), NEW q \in 1 .. (l + 1),
               p < q, new[p][1] = i, new[q][1] = i
        PROVE  new[p][2] < new[q][2]
    <3>1. p \in 1 .. l /\ new[p] = seq[p]
      BY <1>1, <2>3
    <3>2. CASE q = l + 1
      <4>1. seq[p][2] \in 1 .. n
        BY <1>2, <2>3, <3>1
      <4>2. new[q][2] = n + 1
        BY <1>1, <1>3, <3>2
      <4> QED  BY <3>1, <4>1, <4>2
    <3>3. CASE q # l + 1
      <4>1. q \in 1 .. l /\ new[q] = seq[q]
        BY <1>1, <3>3
      <4> QED  BY <1>2, <2>3, <3>1, <4>1
    <3> QED  BY <3>2, <3>3
  <2> QED  BY <1>1, <2>1, <2>2, <2>3 DEF Carries
<1>4. ASSUME e[1] # i
      PROVE  Carries(new, i, n)
  <2>1. \A k \in 1 .. n : \E p \in 1 .. (l + 1) : new[p] = <<i, k>>
    <3> TAKE k \in 1 .. n
    <3>1. PICK p \in 1 .. l : seq[p] = <<i, k>>
      BY <1>2
    <3> QED  BY <1>1, <3>1
  <2>2. \A p \in 1 .. (l + 1) : new[p][1] = i => new[p][2] \in 1 .. n
    BY <1>1, <1>2, <1>4
  <2>3. ASSUME NEW p \in 1 .. (l + 1), NEW q \in 1 .. (l + 1),
               p < q, new[p][1] = i, new[q][1] = i
        PROVE  new[p][2] < new[q][2]
    <3>1. q # l + 1
      BY <1>1, <1>4, <2>3
    <3>2. q \in 1 .. l /\ p \in 1 .. l
      BY <1>1, <2>3, <3>1
    <3>3. new[p] = seq[p] /\ new[q] = seq[q]
      BY <1>1, <3>2
    <3> QED  BY <1>2, <2>3, <3>2, <3>3
  <2> QED  BY <1>1, <2>1, <2>2, <2>3 DEF Carries
<1> QED  BY <1>3, <1>4 DEF new

-----------------------------------------------------------------------------
(* Inwards: only a reader that passes a frame on changes what has been     *)
(* passed on.                                                              *)

LEMMA PassedType ==
  ASSUME SendReceiveInv
  PROVE  /\ received \in Seq(Frame) /\ frames \in Seq(Frame) /\ inbound \in Seq(Frame)
         /\ Hand(carried) \in Seq(Frame)
         /\ received \o frames \in Seq(Frame)
         /\ (received \o frames) \o Hand(carried) \in Seq(Frame)
         /\ Passed \in Seq(Frame)
<1>1. /\ received \in Seq(Frame) /\ frames \in Seq(Frame) /\ inbound \in Seq(Frame)
      /\ Hand(carried) \in Seq(Frame)
  BY HandType DEF SendReceiveInv, InOK
<1>2. received \o frames \in Seq(Frame)
  BY <1>1, ConcatProperties
<1>3. (received \o frames) \o Hand(carried) \in Seq(Frame)
  BY <1>1, <1>2, ConcatProperties
<1>4. Passed \in Seq(Frame)
  BY <1>1, <1>3, ConcatProperties DEF Passed
<1> QED  BY <1>1, <1>2, <1>3, <1>4

LEMMA PassOnAppends ==
  ASSUME SendReceiveInv, NEW i \in Interfaces, PassOn(i)
  PROVE  held[i] \in Frame /\ Passed' = Append(Passed, held[i])
<1>1. /\ inbound' = Append(inbound, held[i]) /\ held[i] \in Frame
      /\ UNCHANGED <<received, frames, carried>>
  BY DEF PassOn, SendReceiveInv, ReadersOK
<1> DEFINE s == (received \o frames) \o Hand(carried)
<1>2. s \in Seq(Frame) /\ inbound \in Seq(Frame)
  BY PassedType
<1>3. Passed = s \o inbound /\ Passed' = s \o inbound'
  BY <1>1 DEF Passed, Hand
<1> HIDE DEF s
<1>4. s \o Append(inbound, held[i]) = Append(s \o inbound, held[i])
  BY <1>1, <1>2, AppendConcat
<1> QED  BY <1>1, <1>3, <1>4

LEMMA ForwarderKeepsOrder ==
  ASSUME SendReceiveInv, ForwarderTakes \/ ForwarderSends \/ ReceiverTakes \/ ReceiverStops
  PROVE  Passed' = Passed
<1> DEFINE rf == received \o frames
<1>1. /\ received \in Seq(Frame) /\ frames \in Seq(Frame) /\ inbound \in Seq(Frame)
      /\ rf \in Seq(Frame) /\ Hand(carried) \in Seq(Frame)
  BY PassedType
<1>2. rf \o <<>> = rf
  BY <1>1, ConcatEmptySeq
<1>3. CASE ReceiverTakes
  <2>1. /\ received' = Append(received, Head(frames)) /\ frames' = Tail(frames)
        /\ frames # <<>> /\ UNCHANGED <<carried, inbound>>
    BY <1>3 DEF ReceiverTakes
  <2>2. received' \o frames' = received \o frames
    BY <1>1, <2>1, HeadGoesOver
  <2> QED  BY <2>1, <2>2 DEF Passed, Hand
<1>4. CASE ForwarderSends
  <2>1. /\ carried # NoFrame /\ frames' = Append(frames, carried) /\ carried' = NoFrame
        /\ UNCHANGED <<received, inbound>> /\ carried \in Frame
    BY <1>4 DEF ForwarderSends, SendReceiveInv, InOK
  <2>2. received' \o frames' = Append(rf, carried)
    BY <1>1, <2>1, AppendConcat
  <2>3. Append(rf, carried) \in Seq(Frame) /\ rf \o <<carried>> = Append(rf, carried)
    BY <1>1, <2>1, AppendFacts
  <2>4. (received' \o frames') \o <<>> = rf \o <<carried>>
    BY <2>2, <2>3, ConcatEmptySeq
  <2>5. Hand(carried') = <<>> /\ Hand(carried) = <<carried>>
    BY <2>1 DEF Hand
  <2>6. (received' \o frames') \o Hand(carried') = rf \o Hand(carried)
    BY <2>4, <2>5
  <2>7. Passed' = ((received' \o frames') \o Hand(carried')) \o inbound'
    BY DEF Passed, Hand
  <2> QED  BY <2>1, <2>6, <2>7 DEF Passed
<1>5. CASE ForwarderTakes
  <2>1. /\ carried = NoFrame /\ carried' = Head(inbound) /\ inbound' = Tail(inbound)
        /\ inbound # <<>> /\ UNCHANGED <<received, frames>>
    BY <1>5 DEF ForwarderTakes
  <2>2. Head(inbound) \in Frame /\ Head(inbound) # NoFrame
    BY <1>1, <2>1, HeadTailProperties, NoFrameAssumption
  <2>3. Hand(carried') = <<Head(inbound)>> /\ Hand(carried) = <<>>
    BY <2>1, <2>2 DEF Hand
  <2>4. rf \o <<Head(inbound)>> = Append(rf, Head(inbound))
    BY <1>1, <2>2, AppendFacts
  <2>5. Append(rf, Head(inbound)) \o Tail(inbound) = rf \o inbound
    BY <1>1, <2>1, HeadGoesOver
  <2>6. Passed' = (rf \o Hand(carried')) \o inbound'
    BY <2>1 DEF Passed, Hand
  <2>7. Passed' = rf \o inbound
    BY <2>1, <2>3, <2>4, <2>5, <2>6
  <2>8. Passed = rf \o inbound
    BY <1>2, <2>3 DEF Passed
  <2> QED  BY <2>7, <2>8
<1>6. CASE ReceiverStops
  BY <1>6 DEF ReceiverStops, Passed, Hand
<1> QED  BY <1>3, <1>4, <1>5, <1>6

(* What waits on interface i, from its n-th frame on.                      *)
Waiting(i) == Hand(held[i]) \o unread[i]
InOrderAt(i, n) ==
  /\ Carries(Passed, i, n)
  /\ reader[i] # "dead" => Waiting(i) = [k \in 1 .. (arrived[i] - n) |-> <<i, n + k>>]

LEMMA InOrderSame ==
  ASSUME NEW i \in Interfaces, NEW n, InOrderAt(i, n), Passed' = Passed,
         reader[i] = "dead" => reader'[i] = "dead",
         held'[i] = held[i], unread'[i] = unread[i], arrived'[i] = arrived[i]
  PROVE  InOrderAt(i, n)'
<1>1. Carries(Passed, i, n)'
  BY DEF InOrderAt, Carries
<1>2. Waiting(i)' = Waiting(i)
  BY DEF Waiting, Hand
<1> QED  BY <1>1, <1>2 DEF InOrderAt

(* The number of frames passed on is at most that of those that arrived.   *)
LEMMA WaitingFrames ==
  ASSUME SendReceiveInv, NEW i \in Interfaces, NEW n \in 0 .. arrived[i],
         InOrderAt(i, n), reader[i] # "dead"
  PROVE  /\ arrived[i] \in Nat /\ unread[i] \in Seq(Frame) /\ Len(unread[i]) \in Nat
         /\ reader[i] # "sending" => /\ Len(unread[i]) = arrived[i] - n
                                     /\ \A k \in 1 .. Len(unread[i]) : unread[i][k] = <<i, n + k>>
         /\ reader[i] = "sending" => /\ Len(unread[i]) = arrived[i] - n - 1
                                     /\ held[i] = <<i, n + 1>>
                                     /\ \A k \in 1 .. Len(unread[i]) : unread[i][k] = <<i, n + 1 + k>>
<1>1. /\ arrived[i] \in Nat /\ unread[i] \in Seq(Frame) /\ Len(unread[i]) \in Nat
      /\ held[i] \in Frame \cup {NoFrame} /\ (held[i] # NoFrame <=> reader[i] = "sending")
  BY DEF SendReceiveInv, ReadersOK
<1> DEFINE m == arrived[i] - n
<1>2. m \in Nat
  BY <1>1
<1>3. /\ Waiting(i) = [k \in 1 .. m |-> <<i, n + k>>]
      /\ Len([k \in 1 .. m |-> <<i, n + k>>]) = m
  BY <1>2 DEF InOrderAt
<1> HIDE DEF m
<1>4. Len(Waiting(i)) = m /\ \A k \in 1 .. m : Waiting(i)[k] = <<i, n + k>>
  BY <1>3
<1>5. CASE reader[i] # "sending"
  <2>1. Waiting(i) = unread[i]
    BY <1>1, <1>5, ConcatEmptySeq DEF Waiting, Hand
  <2> QED  BY <1>1, <1>4, <1>5, <2>1 DEF m
<1>6. CASE reader[i] = "sending"
  <2>1. Waiting(i) = <<held[i]>> \o unread[i] /\ <<held[i]>> \in Seq(Frame)
        /\ Len(<<held[i]>>) = 1 /\ <<held[i]>>[1] = held[i]
    BY <1>1, <1>6 DEF Waiting, Hand
  <2>2. /\ Len(Waiting(i)) = Len(<<held[i]>>) + Len(unread[i])
        /\ \A k \in 1 .. (Len(<<held[i]>>) + Len(unread[i])) :
             Waiting(i)[k] = IF k <= Len(<<held[i]>>) THEN <<held[i]>>[k]
                             ELSE unread[i][k - Len(<<held[i]>>)]
    BY <1>1, <2>1, ConcatProperties
  <2>3. m = 1 + Len(unread[i])
    BY <1>4, <2>1, <2>2
  <2>4. held[i] = <<i, n + 1>>
    BY <1>1, <1>4, <2>1, <2>2, <2>3
  <2>5. \A k \in 1 .. Len(unread[i]) : unread[i][k] = <<i, n + 1 + k>>
    <3> TAKE k \in 1 .. Len(unread[i])
    <3>1. k + 1 \in 1 .. m /\ ~(k + 1 <= 1) /\ (k + 1) - 1 = k /\ n + (k + 1) = n + 1 + k
      BY <1>1, <2>3
    <3>2. Waiting(i)[k + 1] = unread[i][k]
      BY <2>1, <2>2, <2>3, <3>1
    <3> QED  BY <1>4, <3>1, <3>2
  <2> QED  BY <1>1, <1>2, <1>6, <2>3, <2>4, <2>5 DEF m
<1> QED  BY <1>1, <1>5, <1>6

LEMMA ReaderKeepsOrder ==
  ASSUME SendReceiveInv, SendReceiveInv', NEW i \in Interfaces, ReaderNext(i),
         NEW n \in 0 .. arrived[i], InOrderAt(i, n)
  PROVE  \E m \in 0 .. arrived'[i] : InOrderAt(i, m)'
<1>1. arrived[i] \in Nat /\ n \in Nat /\ reader[i] \in {"reading", "sending"}
  BY DEF SendReceiveInv, ReadersOK, ReaderNext, FrameArrives, Read, ReadFails, PassOn, PassOnFails
<1>2. /\ unread[i] \in Seq(Frame) /\ Len(unread[i]) \in Nat
      /\ reader[i] # "sending" => /\ Len(unread[i]) = arrived[i] - n
                                  /\ \A k \in 1 .. Len(unread[i]) : unread[i][k] = <<i, n + k>>
      /\ reader[i] = "sending" => /\ Len(unread[i]) = arrived[i] - n - 1
                                  /\ held[i] = <<i, n + 1>>
                                  /\ \A k \in 1 .. Len(unread[i]) : unread[i][k] = <<i, n + 1 + k>>
  BY <1>1, WaitingFrames
<1>3. CASE FrameArrives(i)
  <2> DEFINE e == <<i, arrived[i] + 1>>
  <2>1. /\ arrived'[i] = arrived[i] + 1 /\ unread'[i] = Append(unread[i], e)
        /\ UNCHANGED <<reader, held, received, frames, carried, inbound>>
        /\ e \in Frame
    BY <1>1, <1>3, SendReceiveAssumption
       DEF FrameArrives, SendReceiveInv, ReadersOK, Frame
  <2> HIDE DEF e
  <2>2. Carries(Passed, i, n)'
    <3>1. Passed' = Passed
      BY <2>1 DEF Passed, Hand
    <3> QED  BY <3>1 DEF InOrderAt, Carries
  <2>3. Waiting(i)' = Append(Waiting(i), e)
    <3>1. Hand(held[i]) \in Seq(Frame) /\ unread[i] \in Seq(Frame) /\ e \in Frame
      BY <2>1, HandType DEF SendReceiveInv, ReadersOK
    <3>2. \A s, t \in Seq(Frame) : s \o Append(t, e) = Append(s \o t, e)
      BY <3>1, AppendConcat
    <3>3. Hand(held[i]) \o Append(unread[i], e) = Append(Hand(held[i]) \o unread[i], e)
      BY ONLY <3>1, <3>2, Zenon
    <3> QED  BY <2>1, <3>3 DEF Waiting, Hand
  <2> DEFINE m == arrived[i] - n
             new == [k \in 1 .. (m + 1) |-> <<i, n + k>>]
  <2>4. m \in Nat /\ m + 1 = arrived'[i] - n /\ e = <<i, n + (m + 1)>>
    BY <1>1, <2>1 DEF e
  <2>5. Waiting(i) = [k \in 1 .. m |-> <<i, n + k>>]
    BY <1>1 DEF InOrderAt
  <2> HIDE DEF m
  <2>6. Append(Waiting(i), e) = new
    <3>1. Len(Waiting(i)) = m /\ \A k \in 1 .. m : Waiting(i)[k] = <<i, n + k>>
      BY <2>4, <2>5
    <3>2. Waiting(i) \in Seq(Frame)
      <4>1. Hand(held[i]) \in Seq(Frame)
        BY HandType DEF SendReceiveInv, ReadersOK
      <4> QED  BY <1>2, <4>1, ConcatProperties DEF Waiting
    <3>3. /\ DOMAIN Append(Waiting(i), e) = 1 .. (m + 1)
          /\ Append(Waiting(i), e) \in Seq(Frame) /\ Len(Append(Waiting(i), e)) = m + 1
          /\ Append(Waiting(i), e)[m + 1] = e
          /\ \A k \in 1 .. m : Append(Waiting(i), e)[k] = Waiting(i)[k]
      BY <2>1, <3>1, <3>2, AppendFacts
    <3>4. Append(Waiting(i), e) = [k \in 1 .. (m + 1) |-> Append(Waiting(i), e)[k]]
      BY <3>3, LenProperties
    <3>5. \A k \in 1 .. (m + 1) : Append(Waiting(i), e)[k] = <<i, n + k>>
      <4> TAKE k \in 1 .. (m + 1)
      <4>1. CASE k = m + 1
        BY <2>4, <3>3, <4>1
      <4>2. CASE k # m + 1
        <5>1. k \in 1 .. m
          BY <2>4, <4>2
        <5> QED  BY <3>1, <3>3, <5>1
      <4> QED  BY <4>1, <4>2
    <3> QED  BY <3>4, <3>5
  <2>7. InOrderAt(i, n)'
    BY <2>2, <2>3, <2>4, <2>6 DEF InOrderAt
  <2>8. n \in 0 .. arrived'[i]
    BY <1>1, <2>1
  <2> QED  BY <2>7, <2>8
<1>4. CASE Read(i)
  <2>1. /\ reader[i] = "reading" /\ unread[i] # <<>> /\ held'[i] = Head(unread[i])
        /\ unread'[i] = Tail(unread[i]) /\ UNCHANGED <<arrived, received, frames, carried, inbound>>
    BY <1>4 DEF Read, SendReceiveInv, ReadersOK
  <2>2. held[i] = NoFrame /\ Head(unread[i]) # NoFrame
    BY <1>2, <2>1, HeadTailProperties, NoFrameAssumption DEF SendReceiveInv, ReadersOK
  <2>3. Waiting(i) = unread[i]
    BY <1>2, <2>2, ConcatEmptySeq DEF Waiting, Hand
  <2>4. Waiting(i)' = <<Head(unread[i])>> \o Tail(unread[i])
    BY <2>1, <2>2 DEF Waiting, Hand
  <2>5. Waiting(i)' = Waiting(i)
    BY <1>2, <2>1, <2>3, <2>4, HeadGoesOver
  <2>6. Passed' = Passed
    BY <2>1 DEF Passed, Hand
  <2>7. InOrderAt(i, n)'
    BY <2>1, <2>5, <2>6 DEF InOrderAt, Carries
  <2> QED  BY <2>1, <2>7
<1>5. CASE ReadFails(i)
  <2>1. /\ reader'[i] = "dead" /\ UNCHANGED <<arrived, held, unread, received, frames, carried, inbound>>
    BY <1>5 DEF ReadFails, SendReceiveInv, ReadersOK
  <2>2. Passed' = Passed
    BY <2>1 DEF Passed, Hand
  <2>3. InOrderAt(i, n)'
    BY <2>1, <2>2, InOrderSame
  <2> QED  BY <2>1, <2>3
<1>6. CASE PassOnFails(i)
  <2>1. reader'[i] = "dead" /\ UNCHANGED <<arrived, received, frames, carried, inbound>>
    BY <1>6 DEF PassOnFails, SendReceiveInv, ReadersOK
  <2>2. Passed' = Passed
    BY <2>1 DEF Passed, Hand
  <2>3. InOrderAt(i, n)'
    BY <2>1, <2>2 DEF InOrderAt, Carries
  <2> QED  BY <2>1, <2>3
<1>7. CASE PassOn(i)
  <2>1. /\ reader[i] = "sending" /\ inbound' = Append(inbound, held[i]) /\ held'[i] = NoFrame
        /\ UNCHANGED <<arrived, unread, received, frames, carried>>
    BY <1>7 DEF PassOn, SendReceiveInv, ReadersOK
  <2>2. held[i] \in Frame /\ held[i] = <<i, n + 1>>
    BY <1>2, <2>1 DEF SendReceiveInv, ReadersOK
  <2>3. Passed' = Append(Passed, held[i])
    BY <1>7, PassOnAppends
  <2>4. Carries(Passed, i, n + 1)'
    <3>1. Carries(Append(Passed, held[i]), i, n + 1)
      BY <1>1, <2>2, PassedType, CarriesNext DEF InOrderAt
    <3> QED  BY <2>3, <3>1 DEF Carries
  <2> DEFINE m == arrived[i] - n - 1
  <2>5. m \in Nat /\ Len(unread[i]) = m /\ n + 1 \in Nat
    BY <1>1, <1>2, <2>1
  <2>6. \A k \in 1 .. m : unread[i][k] = <<i, (n + 1) + k>>
    BY <1>1, <1>2, <2>1, <2>5
  <2> HIDE DEF m
  <2>7. Waiting(i)' = [k \in 1 .. m |-> <<i, (n + 1) + k>>]
    <3>1. Waiting(i)' = unread[i]
      BY <1>2, <2>1, ConcatEmptySeq DEF Waiting, Hand
    <3>2. unread[i] = [k \in 1 .. m |-> unread[i][k]]
      BY <1>2, <2>5, LenProperties
    <3> QED  BY <2>6, <3>1, <3>2
  <2>8. m = arrived'[i] - (n + 1) /\ n + 1 \in 0 .. arrived'[i]
    BY <1>1, <2>1, <2>5 DEF m
  <2>9. InOrderAt(i, n + 1)'
    BY <2>4, <2>7, <2>8 DEF InOrderAt
  <2> QED  BY <2>8, <2>9
<1> QED  BY <1>3, <1>4, <1>5, <1>6, <1>7 DEF ReaderNext

(* A reader that passes a frame on leaves the frames of others in order.   *)
LEMMA OtherReaderKeepsOrder ==
  ASSUME SendReceiveInv, NEW i \in Interfaces, ReaderNext(i),
         NEW j \in Interfaces, j # i, NEW n \in 0 .. arrived[j], InOrderAt(j, n),
         held[i] \in Frame => held[i][1] = i
  PROVE  n \in 0 .. arrived'[j] /\ InOrderAt(j, n)'
<1>1. /\ arrived'[j] = arrived[j] /\ unread'[j] = unread[j] /\ held'[j] = held[j]
      /\ reader'[j] = reader[j]
  BY DEF SendReceiveInv, ReadersOK, ReaderNext, FrameArrives, Read, ReadFails, PassOn,
         PassOnFails
<1>2. CASE ~PassOn(i)
  <2>1. Passed' = Passed
    BY <1>2 DEF ReaderNext, FrameArrives, Read, ReadFails, PassOnFails, Passed, Hand
  <2> QED  BY <1>1, <2>1, InOrderSame
<1>3. CASE PassOn(i)
  <2>1. /\ inbound' = Append(inbound, held[i]) /\ held[i] \in Frame
        /\ UNCHANGED <<received, frames, carried>>
    BY <1>3 DEF PassOn, SendReceiveInv, ReadersOK
  <2>2. Passed' = Append(Passed, held[i])
    BY <1>3, PassOnAppends
  <2>3. Carries(Append(Passed, held[i]), j, n)
    <3>1. held[i][1] # j /\ n \in Nat /\ Carries(Passed, j, n) /\ Passed \in Seq(Frame)
      BY <2>1, PassedType DEF InOrderAt, SendReceiveInv, ReadersOK
    <3> QED  BY <2>1, <3>1, CarriesNext
  <2>4. Carries(Passed, j, n)'
    BY <2>2, <2>3 DEF Carries
  <2>5. Waiting(j)' = Waiting(j)
    BY <1>1 DEF Waiting, Hand
  <2> QED  BY <1>1, <2>4, <2>5 DEF InOrderAt
<1> QED  BY <1>2, <1>3

LEMMA InboundParts == EachInOrder <=> \A i \in Interfaces : \E n \in 0 .. arrived[i] : InOrderAt(i, n)
  BY DEF EachInOrder, InOrderAt, Waiting

LEMMA InitInbound == Init => EachInOrder
<1> SUFFICES ASSUME Init, NEW i \in Interfaces PROVE InOrderAt(i, 0) /\ 0 \in 0 .. arrived[i]
  BY InboundParts
<1>1. Passed = <<>> /\ Waiting(i) = <<>>
  BY ConcatEmptySeq, EmptySeq DEF Init, Passed, Waiting, Hand
<1>2. Carries(<<>>, i, 0)
  BY DEF Carries
<1>3. arrived[i] = 0 /\ [k \in 1 .. (0 - 0) |-> <<i, 0 + k>>] = <<>>
  BY DEF Init
<1> QED  BY <1>1, <1>2, <1>3 DEF InOrderAt

LEMMA StepInbound ==
  ASSUME SendReceiveInv, SendReceiveInv', EachInOrder, [Next]_vars
  PROVE  EachInOrder'
<1> USE InboundParts
<1>1. CASE \E i \in Interfaces : ReaderNext(i)
  <2> PICK i \in Interfaces : ReaderNext(i)
    BY <1>1
  <2>1. PICK n \in 0 .. arrived[i] : InOrderAt(i, n)
    OBVIOUS
  <2>2. held[i] \in Frame => held[i][1] = i
    <3> SUFFICES ASSUME held[i] \in Frame PROVE held[i][1] = i
      OBVIOUS
    <3>1. reader[i] = "sending"
      BY NoFrameAssumption DEF SendReceiveInv, ReadersOK
    <3>2. held[i] = <<i, n + 1>>
      BY <2>1, <3>1, WaitingFrames
    <3> QED  BY <3>2
  <2>3. \E m \in 0 .. arrived'[i] : InOrderAt(i, m)'
    BY <2>1, ReaderKeepsOrder
  <2>4. ASSUME NEW j \in Interfaces, j # i
        PROVE  \E m \in 0 .. arrived'[j] : InOrderAt(j, m)'
    <3>1. PICK m \in 0 .. arrived[j] : InOrderAt(j, m)
      OBVIOUS
    <3>2. m \in 0 .. arrived'[j] /\ InOrderAt(j, m)'
      BY <2>2, <2>4, <3>1, OtherReaderKeepsOrder
    <3> QED  BY <3>2
  <2>5. \A j \in Interfaces : \E m \in 0 .. arrived'[j] : InOrderAt(j, m)'
    BY <2>3, <2>4
  <2> QED  BY <2>5 DEF EachInOrder, InOrderAt, Waiting
<1>2. CASE ~ \E i \in Interfaces : ReaderNext(i)
  <2>1. /\ UNCHANGED <<arrived, unread, held>>
        /\ \A i \in Interfaces : reader[i] = "dead" => reader'[i] = "dead"
        /\ Passed' = Passed
    <3>1. CASE ForwarderTakes \/ ForwarderSends \/ ReceiverTakes \/ ReceiverStops
      BY <3>1, ForwarderKeepsOrder
         DEF ForwarderTakes, ForwarderSends, ReceiverTakes, ReceiverStops, readerVars
    <3>2. CASE StartNext
      BY <3>2 DEF StartNext, Client, Run, SpawnRest, RunPanics, OpenInterface, readerVars,
                  inVars, Passed, Hand, SendReceiveInv, ReadersOK
    <3>3. CASE OutNext \/ UNCHANGED vars
      BY <3>3 DEF OutNext, Send, Accept, SenderTakes, Transmit, TransmitFails, vars,
                  readerVars, inVars, Passed, Hand
    <3> QED
      BY <1>2, <3>1, <3>2, <3>3 DEF Next, Inwards, StartNext, OutNext, ReaderNext
  <2>2. ASSUME NEW i \in Interfaces
        PROVE  \E m \in 0 .. arrived'[i] : InOrderAt(i, m)'
    <3>1. PICK n \in 0 .. arrived[i] : InOrderAt(i, n)
      OBVIOUS
    <3>2. InOrderAt(i, n)'
      BY <2>1, <3>1, InOrderSame
    <3> QED  BY <2>1, <3>1, <3>2
  <2> QED  BY <2>2 DEF EachInOrder, InOrderAt, Waiting
<1> QED  BY <1>1, <1>2

(* A start that fails has passed nothing on but what inbound still held.   *)
LEMMA FailedStartLoses ==
  ASSUME SendReceiveInv, stage = "failed"
  PROVE  Passed = Lost /\ Len(Lost) <= Capacity
<1>1. /\ received = <<>> /\ frames = <<>> /\ Hand(carried) = <<>>
      /\ inbound \in Seq(Frame) /\ Len(inbound) <= Capacity
  BY DEF SendReceiveInv, NothingForwarded, InOK, Hand
<1>2. <<>> \o inbound = inbound /\ (<<>> \o <<>>) \o <<>> = <<>>
  BY <1>1, ConcatEmptySeq, EmptySeq
<1> QED  BY <1>1, <1>2 DEF Passed, Lost

(* The frames of an interface reach the receiver in the order they came,   *)
(* none doubled, and none lost on the way for as long as its reader lives, *)
(* but for the channel full at most that goes with a start that fails.     *)
THEOREM InboundCorrect == Spec => []InboundInOrder
<1> DEFINE Inv == SendReceiveInv /\ EachInOrder
<1>1. Init => Inv
  BY InitSendReceiveInv, InitInbound
<1>2. Inv /\ [Next]_vars => Inv'
  BY StepSendReceiveInv, StepInbound
<1>3. Inv => InboundInOrder
  BY FailedStartLoses DEF InboundInOrder
<1> QED  BY <1>1, <1>2, <1>3, PTL DEF Spec

-----------------------------------------------------------------------------
(* Outwards: a frame goes from the channel to the sender and on the wire,  *)
(* or out of the way of the frames of other interfaces.                    *)

LEMMA CarriesWithout ==
  ASSUME NEW s \in Seq(Frame), NEW e \in Frame, NEW t \in Seq(Frame),
         NEW i, NEW n \in Nat, e[1] # i, Carries(Append(s, e) \o t, i, n)
  PROVE  Carries(s \o t, i, n)
<1> DEFINE long == Append(s, e) \o t
           short == s \o t
           l == Len(s)
           m == Len(t)
<1>1. /\ l \in Nat /\ m \in Nat /\ Append(s, e) \in Seq(Frame) /\ Len(Append(s, e)) = l + 1
      /\ Append(s, e)[l + 1] = e /\ \A p \in 1 .. l : Append(s, e)[p] = s[p]
  BY AppendFacts, LenProperties
<1>2. /\ DOMAIN short = 1 .. (l + m)
      /\ \A p \in 1 .. (l + m) : short[p] = IF p <= l THEN s[p] ELSE t[p - l]
  <2>1. short \in Seq(Frame) /\ Len(short) = l + m
    BY ConcatProperties
  <2> QED  BY <2>1, ConcatProperties, LenProperties
<1>3. /\ DOMAIN long = 1 .. (l + 1 + m)
      /\ \A p \in 1 .. (l + 1 + m) : long[p] =
           IF p <= l + 1 THEN Append(s, e)[p] ELSE t[p - (l + 1)]
  <2>1. long \in Seq(Frame) /\ Len(long) = (l + 1) + m
    BY <1>1, ConcatProperties
  <2> QED  BY <1>1, <2>1, ConcatProperties, LenProperties
<1>4. Carries(long, i, n)
  OBVIOUS
<1> HIDE DEF long, short, l, m
<1> DEFINE At(p) == IF p <= l THEN p ELSE p + 1
<1>5. /\ \A p \in 1 .. (l + m) : At(p) \in 1 .. (l + 1 + m) /\ short[p] = long[At(p)]
      /\ long[l + 1] = e
  <2>1. ASSUME NEW p \in 1 .. (l + m)
        PROVE  At(p) \in 1 .. (l + 1 + m) /\ short[p] = long[At(p)]
    <3>1. CASE p <= l
      <4>1. p \in 1 .. l /\ p \in 1 .. (l + 1 + m) /\ p <= l + 1
        BY <1>1, <3>1
      <4> QED  BY <1>1, <1>2, <1>3, <3>1, <4>1
    <3>2. CASE ~(p <= l)
      <4>1. p + 1 \in 1 .. (l + 1 + m) /\ ~(p + 1 <= l + 1) /\ (p + 1) - (l + 1) = p - l
        BY <1>1, <3>2
      <4> QED  BY <1>2, <1>3, <3>2, <4>1
    <3> QED  BY <3>1, <3>2
  <2>2. long[l + 1] = e
    BY <1>1, <1>3
  <2> QED  BY <2>1, <2>2
<1>6. \A k \in 1 .. n : \E p \in 1 .. (l + m) : short[p] = <<i, k>>
  <2> TAKE k \in 1 .. n
  <2>1. PICK q \in 1 .. (l + 1 + m) : long[q] = <<i, k>>
    BY <1>3, <1>4 DEF Carries
  <2>2. q # l + 1
    BY <1>5, <2>1
  <2>3. CASE q <= l
    <3>1. q \in 1 .. (l + m) /\ At(q) = q
      BY <1>1, <2>3
    <3> QED  BY <1>5, <2>1, <3>1
  <2>4. CASE ~(q <= l)
    <3>1. q - 1 \in 1 .. (l + m) /\ At(q - 1) = q
      BY <1>1, <2>2, <2>4
    <3> QED  BY <1>5, <2>1, <3>1
  <2> QED  BY <2>3, <2>4
<1>7. \A p \in 1 .. (l + m) : short[p][1] = i => short[p][2] \in 1 .. n
  BY <1>3, <1>4, <1>5 DEF Carries
<1>8. \A p, q \in 1 .. (l + m) :
        p < q /\ short[p][1] = i /\ short[q][1] = i => short[p][2] < short[q][2]
  <2> SUFFICES ASSUME NEW p \in 1 .. (l + m), NEW q \in 1 .. (l + m), p < q,
                      short[p][1] = i, short[q][1] = i
               PROVE  short[p][2] < short[q][2]
    OBVIOUS
  <2>1. At(p) < At(q)
    BY <1>1
  <2>2. At(p) \in DOMAIN long /\ At(q) \in DOMAIN long
        /\ long[At(p)] = short[p] /\ long[At(q)] = short[q]
    BY <1>3, <1>5
  <2> HIDE DEF At
  <2> QED  BY <1>4, <2>1, <2>2 DEF Carries
<1>9. Carries(short, i, n)
  BY <1>2, <1>6, <1>7, <1>8 DEF Carries
<1> QED  BY <1>9 DEF short

(* The frames that left are the first of their interface, and none of what *)
(* was accepted has been lost unless the sender has died.                  *)
OutOrder ==
  /\ \A i \in Interfaces : \A k \in 1 .. Len(wire[i]) : wire[i][k] = <<i, k>>
  /\ sender # "dead" => \A i \in Interfaces : Carries(Leaving(i), i, accepted[i])
  /\ outgoing # NoFrame => outgoing[1] \in Interfaces
  /\ sender = "dead" => outgoing = NoFrame
  /\ stage # "running" => sender = "off" /\ outgoing = NoFrame

LEMMA LeavingType ==
  ASSUME SendReceiveInv, NEW i \in Interfaces
  PROVE  /\ wire[i] \in Seq(Frame) /\ Hand(outgoing) \in Seq(Frame) /\ out \in Seq(Frame)
         /\ wire[i] \o Hand(outgoing) \in Seq(Frame) /\ Leaving(i) \in Seq(Frame)
         /\ Len(wire[i]) \in Nat /\ accepted[i] \in Nat
<1>1. /\ wire[i] \in Seq(Frame) /\ Hand(outgoing) \in Seq(Frame) /\ out \in Seq(Frame)
      /\ Len(wire[i]) \in Nat /\ accepted[i] \in Nat
  BY HandType DEF SendReceiveInv, OutOK
<1>2. wire[i] \o Hand(outgoing) \in Seq(Frame)
  BY <1>1, ConcatProperties
<1> QED  BY <1>1, <1>2, ConcatProperties DEF Leaving

(* The frame in the sender's hand is the next of its interface.            *)
LEMMA OutgoingIsNext ==
  ASSUME SendReceiveInv, OutOrder, outgoing # NoFrame
  PROVE  LET i == outgoing[1]
         IN  /\ i \in Interfaces /\ outgoing = <<i, Len(wire[i]) + 1>>
             /\ Len(wire[i]) < accepted[i]
<1> DEFINE i == outgoing[1]
           l == Len(wire[i])
           seq == Leaving(i)
<1>1. i \in Interfaces /\ sender # "dead" /\ outgoing \in Frame
  BY DEF OutOrder, SendReceiveInv, OutOK
<1>2. /\ wire[i] \in Seq(Frame) /\ out \in Seq(Frame) /\ l \in Nat /\ accepted[i] \in Nat
      /\ Hand(outgoing) = <<outgoing>>
  BY <1>1, LeavingType DEF Hand
<1>3. /\ Append(wire[i], outgoing) \in Seq(Frame) /\ Len(Append(wire[i], outgoing)) = l + 1
      /\ Append(wire[i], outgoing)[l + 1] = outgoing
      /\ \A p \in 1 .. l : Append(wire[i], outgoing)[p] = wire[i][p]
      /\ wire[i] \o <<outgoing>> = Append(wire[i], outgoing)
  BY <1>1, <1>2, AppendFacts
<1>4. seq = Append(wire[i], outgoing) \o out
  BY <1>2, <1>3 DEF Leaving
<1>5. /\ Len(out) \in Nat /\ DOMAIN seq = 1 .. (l + 1 + Len(out))
      /\ \A p \in 1 .. (l + 1) : seq[p] = Append(wire[i], outgoing)[p]
  <2>1. seq \in Seq(Frame) /\ Len(seq) = (l + 1) + Len(out) /\ Len(out) \in Nat
    BY <1>2, <1>3, <1>4, ConcatProperties, LenProperties
  <2>2. \A p \in 1 .. (l + 1) : seq[p] = Append(wire[i], outgoing)[p]
    <3> TAKE p \in 1 .. (l + 1)
    <3>1. p \in 1 .. (Len(Append(wire[i], outgoing)) + Len(out)) /\ p <= Len(Append(wire[i], outgoing))
      BY <1>2, <1>3, <2>1
    <3> QED  BY <1>2, <1>3, <1>4, <3>1, ConcatProperties
  <2> QED  BY <2>1, <2>2, LenProperties
<1>6. \A p \in 1 .. l : seq[p] = <<i, p>>
  <2> TAKE p \in 1 .. l
  <2>1. p \in 1 .. (l + 1) /\ wire[i][p] = <<i, p>>
    BY <1>1, <1>2 DEF OutOrder
  <2> QED  BY <1>3, <1>5, <2>1
<1>7. seq[l + 1] = outgoing /\ l + 1 \in DOMAIN seq
  BY <1>2, <1>3, <1>5
<1>8. Carries(seq, i, accepted[i])
  BY <1>1 DEF OutOrder
<1> HIDE DEF seq, l
<1>9. outgoing[2] \in 1 .. accepted[i] /\ outgoing[2] > l
  <2>1. outgoing[2] \in 1 .. accepted[i]
    BY <1>7, <1>8 DEF Carries
  <2>2. CASE l = 0
    BY <2>1, <2>2
  <2>3. CASE l # 0
    <3>1. l \in 1 .. l /\ l \in DOMAIN seq /\ l < l + 1
      BY <1>2, <1>5, <2>3
    <3>2. seq[l] = <<i, l>>
      BY <1>6, <3>1
    <3> QED  BY <1>7, <1>8, <3>1, <3>2 DEF Carries
  <2> QED  BY <2>1, <2>2, <2>3
<1>10. PICK p \in DOMAIN seq : seq[p] = <<i, l + 1>>
  <2>1. l + 1 \in 1 .. accepted[i]
    BY <1>2, <1>9
  <2> QED  BY <1>8, <2>1 DEF Carries
<1>11. p = l + 1
  <2>1. ~(p <= l)
    <3> SUFFICES ASSUME p <= l PROVE FALSE
      OBVIOUS
    <3>1. p \in 1 .. l
      BY <1>5
    <3>2. <<i, p>> = <<i, l + 1>>
      BY <1>6, <1>10, <3>1
    <3> QED  BY <1>2, <3>1, <3>2
  <2>2. ~(p > l + 1)
    <3> SUFFICES ASSUME p > l + 1 PROVE FALSE
      OBVIOUS
    <3>1. outgoing[2] < l + 1
      BY <1>7, <1>8, <1>10 DEF Carries
    <3> QED  BY <1>2, <1>9, <3>1
  <2> QED  BY <1>2, <1>5, <2>1, <2>2
<1>12. l < accepted[i]
  BY <1>2, <1>9
<1> QED  BY <1>1, <1>7, <1>10, <1>11, <1>12 DEF l

LEMMA InitOutbound == Init => OutOrder
<1> SUFFICES ASSUME Init PROVE OutOrder
  OBVIOUS
<1>1. \A i \in Interfaces : Leaving(i) = <<>> /\ wire[i] = <<>> /\ accepted[i] = 0
  BY ConcatEmptySeq, EmptySeq DEF Init, Leaving, Hand
<1>2. \A i \in Interfaces : Carries(<<>>, i, 0)
  BY DEF Carries
<1>3. outgoing = NoFrame
  BY DEF Init
<1>4. sender = "off"
  BY DEF Init
<1> QED  BY <1>1, <1>2, <1>3, <1>4 DEF OutOrder

LEMMA SameOutbound ==
  ASSUME OutOrder, UNCHANGED <<out, outgoing, wire, accepted>>,
         sender' = sender \/ (sender = "off" /\ sender' = "up"),
         stage' # "running" => stage # "running" /\ sender' = sender
  PROVE  OutOrder'
<1>1. \A i \in Interfaces : Leaving(i)' = Leaving(i)
  BY DEF Leaving, Hand
<1>2. sender' = "dead" <=> sender = "dead"
  OBVIOUS
<1>3. sender # "dead" => \A i \in Interfaces : Carries(Leaving(i)', i, accepted'[i])
  BY <1>1 DEF OutOrder
<1> QED  BY <1>1, <1>2, <1>3 DEF OutOrder, Carries

LEMMA AcceptKeepsOrder ==
  ASSUME SendReceiveInv, OutOrder, NEW h \in Holders,
         NEW i \in Interfaces \cup {Foreign}, Accept(h, i)
  PROVE  OutOrder'
<1> DEFINE e == <<i, accepted[i] + 1>>
<1>1. /\ out' = Append(out, e) /\ UNCHANGED <<stage, sender, outgoing, wire>>
      /\ accepted' = [accepted EXCEPT ![i] = @ + 1] /\ accepted[i] < MaxSends
  BY DEF Accept
<1>2. accepted[i] \in Nat /\ e \in Frame
  BY <1>1, SendReceiveAssumption DEF SendReceiveInv, OutOK, Frame
<1>3. ASSUME NEW j \in Interfaces, sender # "dead"
      PROVE  Carries(Leaving(j)', j, accepted'[j])
  <2>1. /\ wire[j] \o Hand(outgoing) \in Seq(Frame) /\ out \in Seq(Frame)
        /\ Leaving(j) \in Seq(Frame) /\ accepted[j] \in Nat
    BY LeavingType
  <2> DEFINE s == wire[j] \o Hand(outgoing)
  <2>2. Leaving(j)' = s \o out' /\ Leaving(j) = s \o out
    BY <1>1 DEF Leaving, Hand
  <2> HIDE DEF s, e
  <2>3. s \o Append(out, e) = Append(s \o out, e)
    <3>1. s \in Seq(Frame) /\ out \in Seq(Frame)
      BY <2>1 DEF s
    <3>2. \A x, y \in Seq(Frame) : x \o Append(y, e) = Append(x \o y, e)
      BY <1>2, AppendConcat
    <3> QED  BY ONLY <3>1, <3>2, Zenon
  <2>4. Leaving(j)' = Append(Leaving(j), e)
    BY <1>1, <2>2, <2>3
  <2>5. Carries(Leaving(j), j, accepted[j])
    BY <1>3 DEF OutOrder
  <2>6. /\ e = <<j, accepted[j] + 1>> => Carries(Append(Leaving(j), e), j, accepted[j] + 1)
        /\ e[1] # j => Carries(Append(Leaving(j), e), j, accepted[j])
    BY <1>2, <2>1, <2>5, CarriesNext
  <2>7. CASE j = i
    <3>1. accepted'[j] = accepted[j] + 1 /\ e = <<j, accepted[j] + 1>>
      BY <1>1, <2>7 DEF e, SendReceiveInv, OutOK
    <3> QED  BY <2>4, <2>6, <3>1
  <2>8. CASE j # i
    <3>1. accepted'[j] = accepted[j] /\ e[1] # j
      BY <1>1, <2>8 DEF e, SendReceiveInv, OutOK
    <3> QED  BY <2>4, <2>6, <3>1
  <2> QED  BY <2>7, <2>8
<1> QED  BY <1>1, <1>3 DEF OutOrder, Carries

LEMMA SenderTakesKeepsOrder ==
  ASSUME SendReceiveInv, OutOrder, SenderTakes
  PROVE  OutOrder'
<1> DEFINE e == Head(out)
<1>1. /\ sender = "up" /\ outgoing = NoFrame /\ out # <<>> /\ out' = Tail(out)
      /\ outgoing' = IF e[1] \in Interfaces THEN e ELSE NoFrame
      /\ UNCHANGED <<stage, sender, wire, accepted>>
  BY DEF SenderTakes
<1>2. out \in Seq(Frame) /\ e \in Frame /\ Tail(out) \in Seq(Frame) /\ e # NoFrame
  BY <1>1, HeadTailProperties, NoFrameAssumption DEF SendReceiveInv, OutOK
<1>3. ASSUME NEW j \in Interfaces
      PROVE  Carries(Leaving(j)', j, accepted'[j])
  <2>1. wire[j] \in Seq(Frame) /\ accepted[j] \in Nat /\ Carries(Leaving(j), j, accepted[j])
    BY <1>1, LeavingType DEF OutOrder
  <2>2. wire[j] \o <<>> = wire[j] /\ wire[j] \o <<e>> = Append(wire[j], e)
    BY <1>2, <2>1, ConcatEmptySeq, AppendFacts
  <2>3. Leaving(j) = wire[j] \o out
    BY <1>1, <2>2 DEF Leaving, Hand
  <2>4. Append(wire[j], e) \o Tail(out) = wire[j] \o out
    BY <1>1, <1>2, <2>1, HeadGoesOver
  <2>5. Leaving(j)' = (wire[j] \o Hand(outgoing')) \o Tail(out)
    BY <1>1 DEF Leaving, Hand
  <2> HIDE DEF e
  <2>6. CASE e[1] \in Interfaces
    <3>1. Hand(outgoing') = <<e>>
      BY <1>1, <1>2, <2>6 DEF Hand
    <3>2. Leaving(j)' = Leaving(j)
      BY <2>2, <2>3, <2>4, <2>5, <3>1
    <3> QED  BY <1>1, <2>1, <3>2
  <2>7. CASE e[1] \notin Interfaces
    <3>1. Hand(outgoing') = <<>>
      BY <1>1, <2>7 DEF Hand
    <3>2. Leaving(j)' = wire[j] \o Tail(out)
      BY <2>2, <2>5, <3>1
    <3>3. Carries(Append(wire[j], e) \o Tail(out), j, accepted[j]) /\ e[1] # j
      BY <2>1, <2>3, <2>4, <2>7
    <3>4. Carries(wire[j] \o Tail(out), j, accepted[j])
      BY <1>2, <2>1, <3>3, CarriesWithout
    <3> QED  BY <1>1, <3>2, <3>4
  <2> QED  BY <2>6, <2>7
<1> QED  BY <1>1, <1>3 DEF OutOrder, Carries

LEMMA TransmitKeepsOrder ==
  ASSUME SendReceiveInv, OutOrder, Transmit
  PROVE  OutOrder'
<1> DEFINE i == outgoing[1]
<1>1. /\ outgoing # NoFrame /\ outgoing' = NoFrame
      /\ wire' = [wire EXCEPT ![i] = Append(@, outgoing)]
      /\ UNCHANGED <<stage, sender, out, accepted>>
  BY DEF Transmit
<1>2. i \in Interfaces /\ outgoing = <<i, Len(wire[i]) + 1>> /\ outgoing \in Frame
      /\ sender # "dead" /\ Hand(outgoing) = <<outgoing>> /\ Hand(outgoing') = <<>>
  BY <1>1, OutgoingIsNext DEF SendReceiveInv, OutOK, OutOrder, Hand
<1> HIDE DEF i
<1>3. \A j \in Interfaces :
        /\ wire[j] \in Seq(Frame) /\ out \in Seq(Frame) /\ accepted[j] \in Nat
        /\ wire'[j] = IF j = i THEN Append(wire[j], outgoing) ELSE wire[j]
        /\ wire[j] \o <<outgoing>> = Append(wire[j], outgoing)
        /\ Append(wire[j], outgoing) \in Seq(Frame) /\ Len(wire[j]) \in Nat
        /\ Len(Append(wire[j], outgoing)) = Len(wire[j]) + 1
        /\ Append(wire[j], outgoing)[Len(wire[j]) + 1] = outgoing
        /\ \A k \in 1 .. Len(wire[j]) : Append(wire[j], outgoing)[k] = wire[j][k]
  BY <1>1, <1>2, AppendFacts DEF SendReceiveInv, OutOK
<1>4. ASSUME NEW j \in Interfaces, NEW k \in 1 .. Len(wire'[j])
      PROVE  wire'[j][k] = <<j, k>>
  <2>1. k \in 1 .. Len(wire[j]) => wire[j][k] = <<j, k>>
    BY DEF OutOrder
  <2>2. CASE j = i /\ k = Len(wire[j]) + 1
    BY <1>2, <1>3, <2>2
  <2>3. CASE ~(j = i /\ k = Len(wire[j]) + 1)
    <3>1. k \in 1 .. Len(wire[j])
      <4>1. CASE j = i
        <5>1. k \in 1 .. (Len(wire[j]) + 1) /\ k # Len(wire[j]) + 1 /\ Len(wire[j]) \in Nat
          BY <1>3, <2>3, <4>1
        <5> QED  BY ONLY <5>1
      <4>2. CASE j # i
        <5>1. wire'[j] = wire[j]
          BY <1>3, <4>2
        <5> QED  BY <5>1
      <4> QED  BY <4>1, <4>2
    <3> QED  BY <1>3, <2>1, <3>1
  <2> QED  BY <2>2, <2>3
<1>5. ASSUME NEW j \in Interfaces
      PROVE  Carries(Leaving(j)', j, accepted'[j])
  <2>1. Leaving(j) = Append(wire[j], outgoing) \o out
    BY <1>2, <1>3 DEF Leaving
  <2>2. Leaving(j)' = wire'[j] \o out
    <3>1. wire'[j] \o <<>> = wire'[j]
      BY <1>3, ConcatEmptySeq
    <3>2. Leaving(j)' = (wire'[j] \o Hand(outgoing')) \o out
      BY <1>1 DEF Leaving, Hand
    <3> QED  BY <1>2, <3>1, <3>2
  <2>3. Carries(Leaving(j), j, accepted[j])
    BY <1>2 DEF OutOrder
  <2>4. CASE j = i
    BY <1>1, <1>3, <2>1, <2>2, <2>3, <2>4
  <2>5. CASE j # i
    <3>1. outgoing[1] # j /\ Carries(Append(wire[j], outgoing) \o out, j, accepted[j])
      BY <2>1, <2>3, <2>5 DEF i
    <3>2. Carries(wire[j] \o out, j, accepted[j])
      BY <1>2, <1>3, <3>1, CarriesWithout
    <3> QED  BY <1>1, <1>3, <2>2, <2>5, <3>2
  <2> QED  BY <2>4, <2>5
<1> QED  BY <1>1, <1>4, <1>5 DEF OutOrder, Carries

LEMMA TransmitFailsKeepsOrder ==
  ASSUME OutOrder, TransmitFails
  PROVE  OutOrder'
<1>1. /\ sender' = "dead" /\ outgoing' = NoFrame /\ stage = "running"
      /\ UNCHANGED <<stage, wire>>
  BY DEF TransmitFails, OutOrder
<1> QED  BY <1>1 DEF OutOrder

LEMMA StepOutbound ==
  ASSUME SendReceiveInv, OutOrder, [Next]_vars
  PROVE  OutOrder'
<1>1. CASE OutNext
  <2>1. ASSUME NEW h \in Holders, NEW i \in Interfaces \cup {Foreign}, Send(h, i)
        PROVE  OutOrder'
    <3>1. CASE Accept(h, i)
      BY <3>1, AcceptKeepsOrder
    <3>2. CASE UNCHANGED vars
      BY <3>2, SameOutbound DEF vars, outVars
    <3> QED  BY <2>1, <3>1, <3>2 DEF Send
  <2> QED
    BY <1>1, <2>1, SenderTakesKeepsOrder, TransmitKeepsOrder, TransmitFailsKeepsOrder
       DEF OutNext
<1>2. CASE StartNext
  <2>1. /\ UNCHANGED <<out, outgoing, wire, accepted>>
        /\ sender' = sender \/ (sender = "off" /\ sender' = "up")
        /\ stage' # "running" => stage # "running" /\ sender' = sender
    BY <1>2 DEF StartNext, Client, Run, SpawnRest, RunPanics, OpenInterface, outVars, OutOrder
  <2> QED  BY <2>1, SameOutbound
<1>3. CASE ~OutNext /\ ~StartNext
  <2>1. UNCHANGED <<stage, outVars>>
    <3>1. Inwards \/ UNCHANGED vars
      BY <1>3 DEF Next, OutNext, StartNext
    <3> QED
      BY <3>1 DEF Inwards, FrameArrives, Read, ReadFails, PassOn, PassOnFails,
                  ForwarderTakes, ForwarderSends, ReceiverTakes, ReceiverStops, vars
  <2> QED  BY <2>1, SameOutbound DEF outVars
<1> QED  BY <1>1, <1>2, <1>3

-----------------------------------------------------------------------------
(* Until the sender dies, what is missing is in its hand or in the channel. *)
MissingIsBounded == sender # "dead" => Cardinality(Missing) <= Capacity + 1

LEMMA MissingIsQueued ==
  ASSUME SendReceiveInv, OutOrder
  PROVE  MissingIsBounded
<1> SUFFICES ASSUME sender # "dead" PROVE Cardinality(Missing) <= Capacity + 1
  BY DEF MissingIsBounded
<1> DEFINE R == Hand(outgoing) \o out
           n == Len(R)
           T == {R[q] : q \in 1 .. n}
<1>1. /\ R \in Seq(Frame) /\ n \in Nat /\ n <= Capacity + 1
  <2>1. Hand(outgoing) \in Seq(Frame) /\ out \in Seq(Frame) /\ Len(out) <= Capacity
    BY HandType DEF SendReceiveInv, OutOK
  <2>2. Len(Hand(outgoing)) \in 0 .. 1
    BY DEF Hand
  <2>3. R \in Seq(Frame) /\ n = Len(Hand(outgoing)) + Len(out)
    BY <2>1, ConcatProperties
  <2>4. Len(out) \in Nat /\ Capacity \in Nat
    BY <2>1, SendReceiveAssumption
  <2> HIDE DEF R, n
  <2>5. n \in Nat /\ n <= Capacity + 1
    <3>1. \A a \in 0 .. 1 : \A b, c \in Nat : b <= c => a + b \in Nat /\ a + b <= c + 1
      OBVIOUS
    <3>2. Len(out) <= Capacity /\ n = Len(Hand(outgoing)) + Len(out)
      BY <2>1, <2>3
    <3> QED  BY ONLY <2>2, <2>4, <3>1, <3>2, Zenon
  <2> QED  BY <2>3, <2>5
<1>2. ASSUME NEW f \in Missing
      PROVE  f \in T
  <2> DEFINE i == f[1]
             l == Len(wire[i])
  <2>1. /\ i \in Interfaces /\ f[2] \in 1 .. accepted[i] /\ l < f[2] /\ f = <<i, f[2]>>
        /\ accepted[i] \in Nat /\ l \in Nat
    <3>1. f \in Interfaces \X (1 .. MaxSends) /\ l < f[2] /\ f[2] <= accepted[i]
      BY DEF Missing
    <3>2. i \in Interfaces /\ f = <<i, f[2]>> /\ f[2] \in 1 .. MaxSends
      BY <3>1
    <3> HIDE DEF i
    <3>3. accepted[i] \in Nat /\ l \in Nat
      BY <3>2, LeavingType
    <3> QED  BY <3>1, <3>2, <3>3, SendReceiveAssumption
  <2> HIDE DEF i
  <2>2. PICK p \in DOMAIN Leaving(i) : Leaving(i)[p] = <<i, f[2]>>
    BY <2>1 DEF OutOrder, Carries
  <2>3. /\ Leaving(i) = wire[i] \o R /\ wire[i] \in Seq(Frame)
    <3>1. wire[i] \in Seq(Frame) /\ Hand(outgoing) \in Seq(Frame) /\ out \in Seq(Frame)
      BY <2>1, LeavingType
    <3>2. \A x, y, z \in Seq(Frame) : (x \o y) \o z = x \o (y \o z)
      BY ConcatAssociative
    <3>3. (wire[i] \o Hand(outgoing)) \o out = wire[i] \o R
      BY <3>1, <3>2, Zenon
    <3> QED  BY <3>1, <3>3 DEF Leaving
  <2> HIDE DEF R
  <2>4. /\ p \in 1 .. (l + n)
        /\ Leaving(i)[p] = IF p <= l THEN wire[i][p] ELSE R[p - l]
    <3>1. wire[i] \o R \in Seq(Frame) /\ Len(wire[i] \o R) = l + n
      BY <1>1, <2>3, ConcatProperties
    <3>2. p \in 1 .. (l + n)
      BY <2>2, <2>3, <3>1, LenProperties
    <3> QED  BY <1>1, <2>3, <3>2, ConcatProperties
  <2>5. ~(p <= l)
    <3> SUFFICES ASSUME p <= l PROVE FALSE
      OBVIOUS
    <3>1. p \in 1 .. l
      BY <2>1, <2>4
    <3>2. wire[i][p] = <<i, p>>
      BY <2>1, <3>1 DEF OutOrder
    <3>3. p = f[2]
      BY <2>2, <2>4, <3>2
    <3> QED  BY <2>1, <3>1, <3>3
  <2>6. p - l \in 1 .. n /\ R[p - l] = f
    <3>1. p - l \in 1 .. n
      BY <1>1, <2>1, <2>4, <2>5
    <3> QED  BY <2>1, <2>2, <2>4, <2>5, <3>1
  <2> QED  BY <2>6
<1> HIDE DEF R, n
<1>3. ExistsSurjection(1 .. n, T)
  <2> DEFINE g == [q \in 1 .. n |-> R[q]]
  <2>1. g \in [1 .. n -> T] /\ \A f \in T : \E q \in 1 .. n : g[q] = f
    OBVIOUS
  <2>2. g \in Surjection(1 .. n, T)
    BY <2>1 DEF Surjection
  <2> QED  BY <2>2 DEF ExistsSurjection
<1>4. Missing \subseteq T
  BY <1>2
<1> HIDE DEF T
<1>5. IsFiniteSet(T) /\ Cardinality(T) <= n
  BY <1>1, <1>3, FS_NatSurjection, FS_SurjCardinalityBound
<1>6. /\ IsFiniteSet(Missing) /\ Cardinality(Missing) <= Cardinality(T)
      /\ Cardinality(Missing) \in Nat /\ Cardinality(T) \in Nat
  BY <1>4, <1>5, FS_Subset, FS_CardinalityType
<1> QED  BY <1>1, <1>5, <1>6, SendReceiveAssumption

(* When the sender is dead nothing more is accepted and nothing is sent.   *)
LEMMA MissingStays ==
  ASSUME OutOrder, [Next]_vars, sender' = "dead"
  PROVE  /\ Missing' = Missing
         /\ sender = "dead" \/ TransmitFails
<1>1. UNCHANGED <<wire, accepted>> /\ (sender = "dead" \/ TransmitFails)
  <2>1. CASE Inwards \/ StartNext \/ UNCHANGED vars
    BY <2>1 DEF Inwards, FrameArrives, Read, ReadFails, PassOn, PassOnFails,
                ForwarderTakes, ForwarderSends, ReceiverTakes, vars, outVars,
                ReceiverStops, StartNext, Client, Run, SpawnRest, RunPanics, OpenInterface,
                OutOrder
  <2>2. CASE OutNext
    BY <2>2 DEF OutNext, Send, Accept, OutClosed, SenderTakes, Transmit, TransmitFails,
                OutOrder, vars, outVars
  <2> QED  BY <2>1, <2>2 DEF Next, StartNext, OutNext
<1> QED  BY <1>1 DEF Missing

(* The frames accepted for an interface are sent in order, and no more of  *)
(* them are lost with the sender than one channel and one hand hold.       *)
THEOREM OutboundCorrect == Spec => []OutboundInOrder
<1> DEFINE Inv == SendReceiveInv /\ OutOrder
           Bound == Cardinality(Missing) <= Capacity + 1
<1>1. Init => Inv
  BY InitSendReceiveInv, InitOutbound
<1>2. Inv /\ [Next]_vars => Inv'
  BY StepSendReceiveInv, StepOutbound
<1>3. Inv => MissingIsBounded
  BY MissingIsQueued
<1>4. Init /\ MissingIsBounded => Bound
  BY DEF Init, MissingIsBounded
<1>5. Inv /\ Bound /\ [Next]_vars /\ MissingIsBounded' => Bound'
  <2> SUFFICES ASSUME Inv, Bound, [Next]_vars, MissingIsBounded'
               PROVE  Bound'
    OBVIOUS
  <2>1. CASE sender' # "dead"
    BY <2>1 DEF MissingIsBounded
  <2>2. CASE sender' = "dead"
    BY <2>2, MissingStays
  <2> QED  BY <2>1, <2>2
<1>6. Inv /\ Bound => OutboundInOrder
  BY DEF OutOrder, OutboundInOrder
<1> QED  BY <1>1, <1>2, <1>3, <1>4, <1>5, <1>6, PTL DEF Spec
-----------------------------------------------------------------------------
(* The tasks implement the links.                                          *)

(* Only frames that came in on a configured interface are passed on.       *)
NoForeign == \A p \in DOMAIN Passed : Passed[p][1] \in Interfaces

LEMMA StepNoForeign ==
  ASSUME SendReceiveInv, EachInOrder, NoForeign, [Next]_vars
  PROVE  NoForeign'
<1>1. CASE \E i \in Interfaces : PassOn(i)
  <2> PICK i \in Interfaces : PassOn(i)
    BY <1>1
  <2>1. held[i] \in Frame /\ Passed' = Append(Passed, held[i]) /\ Passed \in Seq(Frame)
    BY PassOnAppends, PassedType
  <2>2. held[i][1] = i
    <3>1. PICK n \in 0 .. arrived[i] : InOrderAt(i, n)
      BY InboundParts
    <3>2. reader[i] = "sending"
      BY <2>1, NoFrameAssumption DEF SendReceiveInv, ReadersOK
    <3>3. held[i] = <<i, n + 1>>
      BY <3>1, <3>2, WaitingFrames
    <3> QED  BY <3>3
  <2>3. /\ DOMAIN Passed = 1 .. Len(Passed) /\ Len(Passed) \in Nat
        /\ DOMAIN Append(Passed, held[i]) = 1 .. (Len(Passed) + 1)
        /\ Append(Passed, held[i])[Len(Passed) + 1] = held[i]
        /\ \A p \in 1 .. Len(Passed) : Append(Passed, held[i])[p] = Passed[p]
    BY <2>1, AppendFacts
  <2>4. \A p \in DOMAIN Append(Passed, held[i]) : Append(Passed, held[i])[p][1] \in Interfaces
    BY <2>2, <2>3 DEF NoForeign
  <2> QED  BY <2>1, <2>4 DEF NoForeign
<1>2. CASE ~ \E i \in Interfaces : PassOn(i)
  <2>1. Passed' = Passed
    <3>1. CASE ForwarderTakes \/ ForwarderSends \/ ReceiverTakes \/ ReceiverStops
      BY <3>1, ForwarderKeepsOrder
    <3>2. CASE StartNext \/ OutNext \/ UNCHANGED vars
      BY <3>2 DEF StartNext, Client, Run, SpawnRest, RunPanics, OpenInterface, OutNext, Send,
                  Accept, SenderTakes, Transmit, TransmitFails, vars, readerVars, inVars,
                  Passed, Hand
    <3>3. CASE \E i \in Interfaces : ReaderNext(i)
      BY <1>2, <3>3 DEF ReaderNext, FrameArrives, Read, ReadFails, PassOnFails, Passed, Hand
    <3> QED  BY <3>1, <3>2, <3>3 DEF Next, Inwards, StartNext, OutNext, ReaderNext
  <2> QED  BY <2>1 DEF NoForeign
<1> QED  BY <1>1, <1>2

LEMMA PrefixFacts ==
  ASSUME NEW S, NEW s \in Seq(S), NEW t \in Seq(S)
  PROVE  \A p \in 1 .. Len(s) : p \in 1 .. Len(s \o t) /\ (s \o t)[p] = s[p]
<1>1. Len(s) \in Nat /\ Len(t) \in Nat /\ Len(s \o t) = Len(s) + Len(t)
  BY ConcatProperties, LenProperties
<1>2. \A p \in 1 .. (Len(s) + Len(t)) : p <= Len(s) => (s \o t)[p] = s[p]
  BY ConcatProperties
<1> QED  BY <1>1, <1>2

(* What the receiver has and what it will take next, among all passed on.  *)
LEMMA ReceivedFirst ==
  ASSUME SendReceiveInv
  PROVE  /\ DOMAIN received = 1 .. Len(received) /\ Len(received) \in Nat
         /\ DOMAIN Passed = 1 .. Len(Passed) /\ Len(Passed) \in Nat
         /\ \A p \in 1 .. Len(received) : p \in DOMAIN Passed /\ Passed[p] = received[p]
         /\ frames # <<>> => /\ Len(received) + 1 \in DOMAIN Passed
                             /\ Passed[Len(received) + 1] = Head(frames)
<1> DEFINE l == Len(received)
           rf == received \o frames
           rfc == rf \o Hand(carried)
<1>1. /\ received \in Seq(Frame) /\ frames \in Seq(Frame) /\ inbound \in Seq(Frame)
      /\ Hand(carried) \in Seq(Frame) /\ rf \in Seq(Frame) /\ rfc \in Seq(Frame)
      /\ Passed \in Seq(Frame) /\ Passed = rfc \o inbound
  BY PassedType DEF Passed
<1>2. \A p \in 1 .. l : p \in 1 .. Len(rf) /\ rf[p] = received[p]
  BY <1>1, PrefixFacts
<1>3. frames # <<>> => l + 1 \in 1 .. Len(rf) /\ rf[l + 1] = Head(frames)
  <2> SUFFICES ASSUME frames # <<>>
               PROVE  l + 1 \in 1 .. Len(rf) /\ rf[l + 1] = Head(frames)
    OBVIOUS
  <2>1. /\ l \in Nat /\ Len(frames) \in Nat /\ Len(frames) >= 1 /\ Head(frames) = frames[1]
        /\ Len(rf) = l + Len(frames)
    BY <1>1, HeadTailProperties, ConcatProperties, LenProperties
  <2>2. rf[l + 1] = IF l + 1 <= l THEN received[l + 1] ELSE frames[(l + 1) - l]
    <3>1. l + 1 \in 1 .. (Len(received) + Len(frames))
      BY <2>1
    <3> QED  BY <1>1, <3>1, ConcatProperties
  <2>3. ~(l + 1 <= l) /\ (l + 1) - l = 1 /\ l + 1 \in 1 .. Len(rf)
    BY <2>1
  <2> QED  BY <2>1, <2>2, <2>3
<1> HIDE DEF rf
<1>4. \A p \in 1 .. Len(rf) : p \in 1 .. Len(rfc) /\ rfc[p] = rf[p]
  BY <1>1, PrefixFacts
<1> HIDE DEF rfc
<1>5. \A p \in 1 .. Len(rfc) : p \in 1 .. Len(Passed) /\ Passed[p] = rfc[p]
  BY <1>1, PrefixFacts
<1>6. /\ DOMAIN received = 1 .. l /\ l \in Nat
      /\ DOMAIN Passed = 1 .. Len(Passed) /\ Len(Passed) \in Nat
  BY <1>1, LenProperties
<1> QED  BY <1>2, <1>3, <1>4, <1>5, <1>6

LEMMA ReceiverIsGivenTheNext ==
  ASSUME SendReceiveInv, EachInOrder, NoForeign, ReceiverTakes
  PROVE  \E i \in Interfaces : Link!Give(i)
<1> DEFINE l == Len(received)
           f == Head(frames)
           i == f[1]
           k == f[2]
<1>1. frames # <<>> /\ received' = Append(received, f)
      /\ UNCHANGED <<arrived, accepted, wire, sender>>
  BY DEF ReceiverTakes, outVars, readerVars
<1>2. /\ DOMAIN received = 1 .. l /\ l \in Nat
      /\ DOMAIN Passed = 1 .. Len(Passed) /\ Len(Passed) \in Nat
      /\ \A p \in 1 .. l : p \in DOMAIN Passed /\ Passed[p] = received[p]
      /\ l + 1 \in DOMAIN Passed /\ Passed[l + 1] = f
  BY <1>1, ReceivedFirst
<1>3. i \in Interfaces /\ f = <<i, k>>
  <2>1. f \in Frame
    BY <1>1, HeadTailProperties DEF SendReceiveInv, InOK
  <2>2. f = <<f[1], f[2]>>
    BY <2>1 DEF Frame
  <2> QED  BY <1>2, <2>2 DEF NoForeign
<1>4. PICK n \in 0 .. arrived[i] : Carries(Passed, i, n)
  BY <1>3 DEF EachInOrder
<1>5. arrived[i] \in Nat
  BY <1>3 DEF SendReceiveInv, ReadersOK
<1> HIDE DEF l, f, i, k
<1>6. /\ \A e \in 1 .. n : \E p \in DOMAIN Passed : Passed[p] = <<i, e>>
      /\ k \in 1 .. n
      /\ \A p, q \in DOMAIN Passed :
           p < q /\ Passed[p][1] = i /\ Passed[q][1] = i => Passed[p][2] < Passed[q][2]
  BY <1>2, <1>3, <1>4 DEF Carries, i, k
<1>7. k \in 1 .. arrived[i] /\ k \in Nat
  BY <1>5, <1>6
<1>8. ASSUME NEW p \in DOMAIN received PROVE received[p] # <<i, k>>
  <2> SUFFICES ASSUME received[p] = <<i, k>> PROVE FALSE
    OBVIOUS
  <2>1. p < l + 1 /\ p \in DOMAIN Passed /\ Passed[p] = <<i, k>>
    BY <1>2
  <2>2. k < k
    BY <1>2, <1>3, <1>6, <2>1
  <2> QED  BY <1>7, <2>2
<1>9. ASSUME NEW e \in 1 .. (k - 1) PROVE \E p \in DOMAIN received : received[p] = <<i, e>>
  <2>1. e \in 1 .. n /\ e < k /\ e \in Nat
    BY <1>4, <1>5, <1>6, <1>7
  <2>2. PICK p \in DOMAIN Passed : Passed[p] = <<i, e>>
    BY <1>6, <2>1
  <2>3. p # l + 1
    BY <1>2, <1>3, <1>7, <2>1, <2>2
  <2>4. ~(l + 1 < p)
    <3> SUFFICES ASSUME l + 1 < p PROVE FALSE
      OBVIOUS
    <3>1. /\ Passed[l + 1][1] = i /\ Passed[l + 1][2] = k
          /\ Passed[p][1] = i /\ Passed[p][2] = e
      BY <1>2, <1>3, <2>2
    <3>2. Passed[l + 1][2] < Passed[p][2]
      BY <1>2, <1>6, <3>1
    <3>3. k < e
      BY <3>1, <3>2
    <3> QED  BY <1>7, <2>1, <3>3
  <2>5. p \in 1 .. l
    BY <1>2, <2>3, <2>4
  <2> QED  BY <1>2, <2>2, <2>5
<1>10. Link!Give(i)
  BY <1>1, <1>3, <1>7, <1>8, <1>9 DEF Link!Give, Link!Was
<1> QED  BY <1>3, <1>10

LEMMA InitLinks == Init => Link!LinkInit
  BY DEF Init, Link!LinkInit

LEMMA SendIsOfALink ==
  ASSUME SendReceiveInv, OutOrder, NEW h \in Holders, NEW i \in Interfaces \cup {Foreign},
         Accept(h, i)
  PROVE  (i \in Interfaces /\ Link!TakeOne(i)) \/ UNCHANGED Link!linkVars
<1>1. /\ sender # "dead" /\ accepted' = [accepted EXCEPT ![i] = @ + 1]
      /\ UNCHANGED <<arrived, received, wire, sender>>
      /\ accepted \in [Interfaces \cup {Foreign} -> 0 .. MaxSends]
  BY DEF Accept, OutClosed, readerVars, inVars, SendReceiveInv, OutOK
<1>2. CASE i \in Interfaces
  <2>1. [j \in Interfaces |-> accepted'[j]]
          = [[j \in Interfaces |-> accepted[j]] EXCEPT ![i] = @ + 1]
    BY <1>1, <1>2
  <2> QED  BY <1>1, <1>2, <2>1 DEF Link!TakeOne
<1>3. CASE i \notin Interfaces
  <2>1. [j \in Interfaces |-> accepted'[j]] = [j \in Interfaces |-> accepted[j]]
    BY <1>1, <1>3
  <2> QED  BY <1>1, <2>1 DEF Link!linkVars
<1> QED  BY <1>2, <1>3

LEMMA TransmitIsOfALink ==
  ASSUME SendReceiveInv, OutOrder, Transmit
  PROVE  \E i \in Interfaces : Link!SendOne(i)
<1> DEFINE i == outgoing[1]
<1>1. /\ outgoing # NoFrame /\ sender # "dead"
      /\ wire' = [wire EXCEPT ![i] = Append(@, outgoing)]
      /\ UNCHANGED <<arrived, received, accepted, sender>>
  BY DEF Transmit, readerVars, inVars, OutOrder
<1>2. /\ i \in Interfaces /\ outgoing = <<i, Len(wire[i]) + 1>>
      /\ Len(wire[i]) < accepted[i]
  BY <1>1, OutgoingIsNext
<1> HIDE DEF i
<1>3. wire' = [wire EXCEPT ![i] = Append(@, <<i, Len(wire[i]) + 1>>)]
  BY <1>1, <1>2
<1>4. Link!SendOne(i)
  BY <1>1, <1>2, <1>3 DEF Link!SendOne
<1> QED  BY <1>2, <1>4

LEMMA SenderDeathIsACut ==
  ASSUME SendReceiveInv, OutOrder, TransmitFails
  PROVE  Link!Cut
<1>1. /\ sender # "dead" /\ sender' = "dead"
      /\ UNCHANGED <<arrived, received, accepted, wire>>
  BY DEF TransmitFails, readerVars, inVars, OutOrder
<1>2. Link!Lost = Missing
  BY DEF Link!Lost, Missing
<1>3. Link!Cardinality(Link!Lost) <= Capacity + 1
  <2>1. Link!Cardinality(Missing) = Cardinality(Missing)
    BY DEF Link!Cardinality, Cardinality
  <2> QED  BY <1>1, <1>2, <2>1, MissingIsQueued DEF MissingIsBounded
<1> QED  BY <1>1, <1>3 DEF Link!Cut

LEMMA StepIsOfALink ==
  ASSUME SendReceiveInv, EachInOrder, NoForeign, OutOrder, [Next]_vars
  PROVE  [Link!LinkNext]_(Link!linkVars)
<1>1. CASE \E i \in Interfaces : FrameArrives(i)
  BY <1>1 DEF FrameArrives, outVars, Link!LinkNext, Link!Come
<1>2. CASE ReceiverTakes
  BY <1>2, ReceiverIsGivenTheNext DEF Link!LinkNext
<1>3. CASE \E h \in Holders, i \in Interfaces \cup {Foreign} : Accept(h, i)
  BY <1>3, SendIsOfALink DEF Link!LinkNext
<1>4. CASE Transmit
  BY <1>4, TransmitIsOfALink DEF Link!LinkNext
<1>5. CASE TransmitFails
  BY <1>5, SenderDeathIsACut DEF Link!LinkNext
<1>6. CASE StartNext
  BY <1>6 DEF StartNext, Client, Run, SpawnRest, RunPanics, OpenInterface, outVars,
              readerVars, inVars, OutOrder, Link!linkVars
<1>7. CASE \/ \E i \in Interfaces : Read(i) \/ ReadFails(i) \/ PassOn(i) \/ PassOnFails(i)
           \/ ForwarderTakes \/ ForwarderSends \/ ReceiverStops \/ SenderTakes
           \/ UNCHANGED vars
  BY <1>7 DEF Read, ReadFails, PassOn, PassOnFails, ForwarderTakes, ForwarderSends,
              ReceiverStops, SenderTakes, outVars, readerVars, inVars, vars, Link!linkVars
<1> QED
  BY <1>1, <1>2, <1>3, <1>4, <1>5, <1>6, <1>7 DEF Next, Inwards, StartNext, Send

(* Whatever the tasks between do, all that is seen of them is a link in    *)
(* and a link out per interface: for any interfaces, holders of a client   *)
(* and capacity of the channels.                                           *)
THEOREM SendReceiveImplements == Spec => EveryInterfaceIsALink
<1> DEFINE Inv == SendReceiveInv /\ EachInOrder /\ NoForeign /\ OutOrder
<1>1. Init => Inv
  <2>1. Init => NoForeign
    <3>1. Init => Passed = <<>>
      BY ConcatEmptySeq, EmptySeq DEF Init, Passed, Hand
    <3> QED  BY <3>1 DEF NoForeign
  <2> QED  BY <2>1, InitSendReceiveInv, InitInbound, InitOutbound
<1>2. Inv /\ [Next]_vars => Inv'
  BY StepSendReceiveInv, StepInbound, StepNoForeign, StepOutbound
<1>3. Inv /\ [Next]_vars => [Link!LinkNext]_(Link!linkVars)
  BY StepIsOfALink
<1> QED
  BY <1>1, <1>2, <1>3, InitLinks, PTL DEF Spec, EveryInterfaceIsALink, Link!LinkSpec
=============================================================================
