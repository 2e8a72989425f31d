-------------------------- MODULE LifecycleProofs --------------------------
(***************************************************************************)
(* Proofs about the life of the process, for any links, any configuration  *)
(* (names may occur twice in it) and any number of replaced links.         *)
(***************************************************************************)
EXTENDS Lifecycle, TLAPS

(* No index belongs to two links, and none that was ever seen comes back.  *)
LinksAreFresh ==
  /\ \A m, n \in Names : links[m] = links[n] /\ links[m] # NoLink => m = n
  /\ \A n \in Names : links[n] <= created
  /\ probe.ifidx <= created
  /\ \A p \in probed : p.ifidx <= created

(* todo is what is left of Configured, all of it when a loop begins.       *)
TodoIsLeft ==
  /\ main = "load" => Len(todo) = Len(Configured)
  /\ Len(todo) <= Len(Configured)
  /\ \A k \in 1 .. Len(todo) : todo[k] = Configured[Len(Configured) - Len(todo) + k]

(* As long as the link that was probed first exists it is the link of its  *)
(* name, so what was asked for by name is about it.                        *)
ProbeIsConsistent ==
  /\ main \in {"ip", "mac"} =>
       /\ probe.ifidx # NoLink
       /\ Exists(probe.ifidx) => links[Head(todo)] = probe.ifidx
  /\ main = "mac" =>
       /\ probe.ip # NoLink
       /\ Exists(probe.ifidx) => probe.ip = probe.ifidx

ConfiguredNames == {Configured[k] : k \in DOMAIN Configured}

ProbedKeepsItsName ==
  \A p \in probed :
    /\ p.name \in ConfiguredNames
    /\ Exists(p.ifidx) => links[p.name] = p.ifidx

(* The names whose links have been given the program.                      *)
Behind == {Configured[k] : k \in 1 .. (Len(Configured) - Len(todo))}
AttachedNames ==
  CASE main = "attach" -> Behind
    [] main = "recheck" -> Behind \cup {Head(todo)}
    [] main \in {"spawn", "joining"} -> ConfiguredNames
    [] OTHER -> {}

ProbedIsAttached ==
  end = "no" =>
    \A p \in probed :
      p.name \in AttachedNames /\ Exists(p.ifidx) => p.ifidx \in attached

UserFollowsMain ==
  /\ main \notin {"joining", "waiting", "returning"} => user = "none"
  /\ main \in {"waiting", "returning"} => user = "panicked"
  /\ user = "up" => Immortal \subseteq alive /\ readers \subseteq Wanted

LifeInv ==
  /\ TypeOK
  /\ LinksAreFresh
  /\ TodoIsLeft
  /\ ProbeIsConsistent
  /\ ProbeIsOfOneLink
  /\ ProbedKeepsItsName
  /\ ProbedIsAttached
  /\ UserFollowsMain

-----------------------------------------------------------------------------
LEMMA TodoTail ==
  ASSUME todo \in Seq(Names), todo # <<>>
  PROVE  /\ Head(todo) \in Names /\ Head(todo) = todo[1]
         /\ Len(todo) \in Nat /\ Len(todo) >= 1
         /\ Len(todo) > 1 => /\ Tail(todo) \in Seq(Names) /\ Tail(todo) # <<>>
                            /\ Len(Tail(todo)) = Len(todo) - 1
                            /\ \A k \in 1 .. Len(Tail(todo)) : Tail(todo)[k] = todo[k + 1]
<1>1. Len(todo) \in Nat /\ Len(todo) >= 1
  OBVIOUS
<1>2. Head(todo) = todo[1] /\ todo[1] \in Names
  BY <1>1
<1>3. /\ Tail(todo) \in Seq(Names)
      /\ Len(Tail(todo)) = Len(todo) - 1
      /\ \A k \in 1 .. Len(Tail(todo)) : Tail(todo)[k] = todo[k + 1]
  BY <1>1
<1>4. Len(todo) > 1 => Tail(todo) # <<>>
  BY <1>1, <1>3
<1> QED  BY <1>1, <1>2, <1>3, <1>4

LEMMA ConfiguredFacts ==
  /\ Configured \in Seq(Names) /\ Configured # <<>>
  /\ Len(Configured) \in Nat /\ Len(Configured) >= 1
  /\ DOMAIN Configured = 1 .. Len(Configured)
  /\ ConfiguredNames \subseteq Names
<1>1. Configured \in Seq(Names) /\ Configured # <<>>
  BY LifecycleAssumption
<1>2. Len(Configured) \in Nat /\ Len(Configured) >= 1 /\ DOMAIN Configured = 1 .. Len(Configured)
  BY <1>1
<1>3. \A k \in 1 .. Len(Configured) : Configured[k] \in Names
  BY <1>1
<1> QED  BY <1>1, <1>2, <1>3 DEF ConfiguredNames

(* What main's present interface is, in terms of the configuration.        *)
LEMMA HeadIsConfigured ==
  ASSUME TypeOK, TodoIsLeft
  PROVE  /\ Head(todo) \in ConfiguredNames
         /\ Len(todo) > 1 =>
              Behind \cup {Head(todo)} =
                {Configured[k] : k \in 1 .. (Len(Configured) - (Len(todo) - 1))}
         /\ Len(todo) = 1 => Behind \cup {Head(todo)} = ConfiguredNames
<1>1. /\ Len(todo) \in Nat /\ Len(todo) >= 1 /\ Head(todo) = todo[1]
  BY TodoTail DEF TypeOK
<1> DEFINE here == Len(Configured) - Len(todo) + 1
<1>2. here \in 1 .. Len(Configured) /\ Head(todo) = Configured[here]
  BY <1>1, ConfiguredFacts DEF TodoIsLeft
<1>3. 1 .. here = (1 .. (here - 1)) \cup {here}
  BY <1>2
<1>4. Behind \cup {Head(todo)} = {Configured[k] : k \in 1 .. here}
  <2>1. Behind = {Configured[k] : k \in 1 .. (here - 1)}
    BY <1>1, ConfiguredFacts DEF Behind
  <2> QED  BY <1>2, <1>3, <2>1
<1>5. Len(todo) = 1 => here = Len(Configured)
  BY <1>1, ConfiguredFacts
<1>6. here = Len(Configured) - (Len(todo) - 1)
  BY <1>1, ConfiguredFacts
<1> QED  BY <1>2, <1>4, <1>5, <1>6, ConfiguredFacts DEF ConfiguredNames

-----------------------------------------------------------------------------
(* The steps of tasks other than main.                                     *)
TaskNext ==
  \/ UserStarts \/ \E opened \in SUBSET Wanted : UserPanics(opened)
  \/ \E i \in readers : ReaderFails(i)
  \/ \E t \in Mortal : TaskDies(t)

LEMMA TaskStep ==
  ASSUME TypeOK, TaskNext
  PROVE  /\ UserSteps /\ UNCHANGED <<main, end>>
         /\ user' \in {"none", "starting", "up", "panicked"}
         /\ alive' \subseteq Mortal \cup Immortal
         /\ readers' \subseteq readers \cup Wanted
         /\ \/ user = "starting" /\ (user' = "up" => Immortal \subseteq alive' /\ readers' \subseteq Wanted)
            \/ user' = user /\ readers' \subseteq readers /\ alive \cap Immortal \subseteq alive'
<1>1. CASE UserStarts
  BY <1>1 DEF UserStarts
<1>2. CASE \E opened \in SUBSET Wanted : UserPanics(opened)
  BY <1>2 DEF UserPanics, TypeOK
<1>3. CASE \E i \in readers : ReaderFails(i)
  BY <1>3 DEF ReaderFails, TypeOK
<1>4. CASE \E t \in Mortal : TaskDies(t)
  <2> PICK t \in Mortal : TaskDies(t)
    BY <1>4
  <2>1. t \notin Immortal
    BY DEF Mortal, Immortal
  <2> QED  BY <2>1 DEF TaskDies, TypeOK
<1> QED  BY <1>1, <1>2, <1>3, <1>4 DEF TaskNext

-----------------------------------------------------------------------------
(* Every step preserves LifeInv.                                           *)

LEMMA InitLifeInv == Init => LifeInv
<1> SUFFICES ASSUME Init PROVE LifeInv
  OBVIOUS
<1>1. TypeOK
  BY ConfiguredFacts, LifecycleAssumption DEF Init, TypeOK, NoLink, Index
<1>2. LinksAreFresh
  BY DEF Init, LinksAreFresh, NoLink
<1>3. TodoIsLeft
  BY ConfiguredFacts DEF Init, TodoIsLeft
<1>4. ProbeIsConsistent /\ ProbeIsOfOneLink /\ ProbedKeepsItsName /\ ProbedIsAttached
  BY DEF Init, ProbeIsConsistent, ProbeIsOfOneLink, ProbedKeepsItsName, ProbedIsAttached
<1>5. UserFollowsMain
  BY DEF Init, UserFollowsMain
<1> QED  BY <1>1, <1>2, <1>3, <1>4, <1>5 DEF LifeInv

(* A link that exists after the environment's step and was known before it *)
(* was there before it too, under the same name: the new one's index is    *)
(* larger than any so far.                                                 *)
LEMMA ChangedLinks ==
  ASSUME LifeInv, NEW n \in Names, ChangeLink(n)
  PROVE  /\ links' \in [Names -> {NoLink} \cup Index]
         /\ created' \in 0 .. MaxIndex /\ created <= created'
         /\ \A m \in Names \ {n} : links'[m] = links[m]
         /\ links'[n] = NoLink \/ (links'[n] = created + 1 /\ created' = created + 1)
  BY LifecycleAssumption DEF LifeInv, TypeOK, ChangeLink, Index

LEMMA ChangeLinkLifeInv ==
  ASSUME LifeInv, NEW n \in Names, ChangeLink(n)
  PROVE  LifeInv'
<1>1. /\ links' \in [Names -> {NoLink} \cup Index]
      /\ created' \in 0 .. MaxIndex /\ created <= created'
      /\ \A m \in Names \ {n} : links'[m] = links[m]
      /\ links'[n] = NoLink \/ (links'[n] = created + 1 /\ created' = created + 1)
  BY ChangedLinks
<1>2. /\ UNCHANGED <<main, todo, probe, probed, user, readers, alive, end>>
      /\ attached' = attached \ {links[n]}
  BY DEF ChangeLink, hereVars
<1>3. created \in Int /\ TypeOK /\ \A m \in Names : links[m] \in Int /\ links[m] <= created
  BY DEF LifeInv, TypeOK, LinksAreFresh, Index, NoLink
<1>4. \A i \in Int : i <= created /\ i # NoLink =>
        \A m \in Names : links'[m] = i => m # n /\ links[m] = i
  BY <1>1, <1>3
<1>5. TypeOK'
  BY <1>1, <1>2, <1>3 DEF TypeOK
<1>6. LinksAreFresh'
  <2>1. \A m \in Names : links'[m] <= created'
    BY <1>1, <1>3 DEF NoLink, Index
  <2>2. \A k, m \in Names : links'[k] = links'[m] /\ links'[k] # NoLink => k = m
    BY <1>1, <1>3 DEF LifeInv, LinksAreFresh
  <2>3. probe'.ifidx <= created' /\ \A p \in probed' : p.ifidx <= created'
    <3>1. probe.ifidx \in Int /\ \A p \in probed : p.ifidx \in Int
      BY <1>3 DEF TypeOK, Index, NoLink
    <3>2. probe.ifidx <= created /\ \A p \in probed : p.ifidx <= created
      BY DEF LifeInv, LinksAreFresh
    <3> QED  BY <1>1, <1>2, <1>3, <3>1, <3>2
  <2> QED  BY <2>1, <2>2, <2>3 DEF LinksAreFresh
<1>7. TodoIsLeft'
  BY <1>2 DEF LifeInv, TodoIsLeft
<1>8. ProbeIsConsistent'
  <2>1. Head(todo) \in Names
    BY <1>3, TodoTail DEF TypeOK
  <2>2. probe.ifidx \in Int /\ probe.ifidx <= created
    BY <1>3 DEF TypeOK, Index, NoLink, LifeInv, LinksAreFresh
  <2>3. ASSUME probe.ifidx # NoLink, Exists(probe.ifidx)'
        PROVE  Exists(probe.ifidx) /\
               (links[Head(todo)] = probe.ifidx => links'[Head(todo)] = probe.ifidx)
    <3>1. PICK m \in Names : links'[m] = probe.ifidx
      BY <1>2, <2>3 DEF Exists
    <3>2. m # n /\ links[m] = probe.ifidx
      BY <1>4, <2>2, <2>3, <3>1
    <3>3. links[Head(todo)] = probe.ifidx => Head(todo) = m
      BY <2>1, <2>3, <3>2 DEF LifeInv, LinksAreFresh
    <3> QED  BY <3>1, <3>2, <3>3 DEF Exists
  <2> QED  BY <1>2, <2>3 DEF LifeInv, ProbeIsConsistent
<1>9. ProbeIsOfOneLink'
  BY <1>2 DEF LifeInv, ProbeIsOfOneLink
<1>10. \A p \in probed : Exists(p.ifidx)' =>
         Exists(p.ifidx) /\ links[p.name] = p.ifidx /\ p.ifidx # links[n]
                         /\ links'[p.name] = p.ifidx
  <2> SUFFICES ASSUME NEW p \in probed, Exists(p.ifidx)'
               PROVE  Exists(p.ifidx) /\ links[p.name] = p.ifidx /\ p.ifidx # links[n]
                                      /\ links'[p.name] = p.ifidx
    OBVIOUS
  <2>1. p.ifidx \in Int /\ p.ifidx <= created /\ p.ifidx # NoLink /\ p.name \in Names
    BY <1>3 DEF TypeOK, Index, NoLink, LifeInv, LinksAreFresh
  <2>2. PICK m \in Names : links'[m] = p.ifidx
    BY DEF Exists
  <2>3. m # n /\ links[m] = p.ifidx
    BY <1>4, <2>1, <2>2
  <2>4. Exists(p.ifidx) /\ links[p.name] = p.ifidx
    BY <2>3 DEF Exists, LifeInv, ProbedKeepsItsName
  <2>5. p.name = m /\ links[n] # p.ifidx
    BY <2>1, <2>3, <2>4 DEF LifeInv, LinksAreFresh
  <2> QED  BY <2>2, <2>4, <2>5
<1>11. ProbedKeepsItsName'
  BY <1>2, <1>10 DEF LifeInv, ProbedKeepsItsName
<1>12. ProbedIsAttached'
  <2>1. AttachedNames' = AttachedNames
    BY <1>2 DEF AttachedNames, Behind
  <2> QED  BY <1>2, <1>10, <2>1 DEF LifeInv, ProbedIsAttached
<1>13. UserFollowsMain'
  BY <1>2 DEF LifeInv, UserFollowsMain, Wanted
<1> QED
  BY <1>5, <1>6, <1>7, <1>8, <1>9, <1>11, <1>12, <1>13 DEF LifeInv

LEMMA AbortLifeInv ==
  ASSUME LifeInv, NEW how \in {"error", "panic"}, Abort(how)
  PROVE  LifeInv'
<1>1. /\ UNCHANGED <<links, created, main, todo, probe, probed, user, readers, alive>>
      /\ end' = how /\ attached' = {}
  BY DEF Abort
<1>2. TypeOK'
  BY <1>1 DEF LifeInv, TypeOK
<1>3. LinksAreFresh' /\ TodoIsLeft' /\ ProbeIsConsistent' /\ ProbeIsOfOneLink'
  BY <1>1 DEF LifeInv, LinksAreFresh, TodoIsLeft, ProbeIsConsistent, ProbeIsOfOneLink, Exists
<1>4. ProbedKeepsItsName' /\ ProbedIsAttached'
  BY <1>1 DEF LifeInv, ProbedKeepsItsName, ProbedIsAttached, Exists
<1>5. UserFollowsMain'
  BY <1>1 DEF LifeInv, UserFollowsMain, Wanted
<1> QED  BY <1>2, <1>3, <1>4, <1>5 DEF LifeInv

(* What is left to show of a step that takes main to another place and     *)
(* neither links nor the user space with it.                               *)
LEMMA MainGoesOn ==
  ASSUME LifeInv, UNCHANGED <<links, created, user, readers, alive, probed, end>>,
         TypeOK', TodoIsLeft', ProbeIsConsistent', ProbedIsAttached', UserFollowsMain',
         probe'.ifidx <= created
  PROVE  LifeInv'
<1>1. LinksAreFresh' /\ ProbeIsOfOneLink' /\ ProbedKeepsItsName'
  BY DEF LifeInv, LinksAreFresh, ProbeIsOfOneLink, ProbedKeepsItsName, Exists
<1> QED  BY <1>1 DEF LifeInv

LEMMA ConfigureLifeInv ==
  ASSUME LifeInv, Configure
  PROVE  LifeInv'
<1>1. CASE Abort("error")
  BY <1>1, AbortLifeInv
<1>2. CASE ~Abort("error")
  <2>1. /\ main = "config" /\ main' = "index"
        /\ UNCHANGED <<links, created, todo, probe, probed, attached, user, readers, alive, end>>
    BY <1>2 DEF Configure, At, Goto
  <2>2. TypeOK' /\ probe'.ifidx <= created
    BY <2>1 DEF LifeInv, TypeOK, LinksAreFresh
  <2>3. TodoIsLeft' /\ ProbeIsConsistent' /\ UserFollowsMain'
    BY <2>1 DEF LifeInv, TodoIsLeft, ProbeIsConsistent, UserFollowsMain, Wanted
  <2>4. ProbedIsAttached'
    BY <2>1 DEF LifeInv, ProbedIsAttached, AttachedNames, Exists
  <2> QED  BY <2>1, <2>2, <2>3, <2>4, MainGoesOn
<1> QED  BY <1>1, <1>2

LEMMA ProbeIndexLifeInv ==
  ASSUME LifeInv, ProbeIndex
  PROVE  LifeInv'
<1>1. CASE Abort("error")
  BY <1>1, AbortLifeInv
<1>2. CASE ~Abort("error")
  <2>1. /\ main = "index" /\ main' = "ip"
        /\ probe' = [probe EXCEPT !.ifidx = links[Head(todo)]]
        /\ links[Head(todo)] # NoLink
        /\ UNCHANGED <<links, created, todo, probed, attached, user, readers, alive, end>>
    BY <1>2 DEF ProbeIndex, IndexOf, At, Goto
  <2>2. Head(todo) \in Names /\ TypeOK
    BY TodoTail DEF LifeInv, TypeOK
  <2>3. probe'.ifidx = links[Head(todo)]
    BY <2>1, <2>2 DEF TypeOK
  <2>4. TypeOK' /\ probe'.ifidx <= created
    BY <2>1, <2>2, <2>3 DEF TypeOK, LifeInv, LinksAreFresh
  <2>5. TodoIsLeft' /\ UserFollowsMain'
    BY <2>1 DEF LifeInv, TodoIsLeft, UserFollowsMain, Wanted
  <2>6. ProbeIsConsistent'
    BY <2>1, <2>2, <2>3 DEF ProbeIsConsistent
  <2>7. ProbedIsAttached'
    BY <2>1 DEF LifeInv, ProbedIsAttached, AttachedNames, Exists
  <2> QED  BY <2>1, <2>4, <2>5, <2>6, <2>7, MainGoesOn
<1> QED  BY <1>1, <1>2

LEMMA ProbeIpLifeInv ==
  ASSUME LifeInv, ProbeIp
  PROVE  LifeInv'
<1>1. CASE Abort("error") \/ Abort("panic")
  BY <1>1, AbortLifeInv
<1>2. CASE ~(Abort("error") \/ Abort("panic"))
  <2>1. /\ main = "ip" /\ main' = "mac"
        /\ probe' = [probe EXCEPT !.ip = links[Head(todo)]]
        /\ links[Head(todo)] # NoLink
        /\ UNCHANGED <<links, created, todo, probed, attached, user, readers, alive, end>>
    BY <1>2 DEF ProbeIp, At, Goto
  <2>2. Head(todo) \in Names /\ TypeOK
    BY TodoTail DEF LifeInv, TypeOK
  <2>3. probe'.ifidx = probe.ifidx /\ probe'.ip = links[Head(todo)]
    BY <2>1, <2>2 DEF TypeOK
  <2>4. TypeOK' /\ probe'.ifidx <= created
    BY <2>1, <2>2, <2>3 DEF TypeOK, LifeInv, LinksAreFresh
  <2>5. TodoIsLeft' /\ UserFollowsMain'
    BY <2>1 DEF LifeInv, TodoIsLeft, UserFollowsMain, Wanted
  <2>6. ProbeIsConsistent'
    BY <2>1, <2>2, <2>3 DEF LifeInv, ProbeIsConsistent, Exists
  <2>7. ProbedIsAttached'
    BY <2>1 DEF LifeInv, ProbedIsAttached, AttachedNames, Exists
  <2> QED  BY <2>1, <2>4, <2>5, <2>6, <2>7, MainGoesOn
<1> QED  BY <1>1, <1>2

(* Whether or not the loop is at its end, what is left is a rest of the    *)
(* configuration.                                                          *)
LEMMA GoOnType ==
  ASSUME TypeOK, TodoIsLeft, NEW again, NEW after, again # "load", GoOn(again, after)
  PROVE  /\ todo' \in Seq(Names) /\ todo' # <<>>
         /\ TodoIsLeft'
         /\ \/ Len(todo) > 1 /\ main' = again /\ Behind' = Behind \cup {Head(todo)}
            \/ Len(todo) = 1 /\ main' = after /\ Behind' = {}
<1>1. Len(todo) \in Nat /\ Len(todo) >= 1
  BY TodoTail DEF TypeOK
<1>2. CASE Len(todo) > 1
  <2>1. main' = again /\ todo' = Tail(todo)
    BY <1>2 DEF GoOn
  <2>2. /\ todo' \in Seq(Names) /\ todo' # <<>> /\ Len(todo') = Len(todo) - 1
        /\ \A k \in 1 .. Len(todo') : todo'[k] = todo[k + 1]
    BY <1>2, <2>1, TodoTail DEF TypeOK
  <2>3. TodoIsLeft'
    <3>1. Len(Configured) \in Nat /\ Len(todo) <= Len(Configured)
      BY ConfiguredFacts DEF TodoIsLeft
    <3>2. ASSUME NEW k \in 1 .. Len(todo')
          PROVE  todo'[k] = Configured[Len(Configured) - Len(todo') + k]
      <4>1. todo[k + 1] = Configured[Len(Configured) - Len(todo) + (k + 1)]
        BY <1>1, <2>2 DEF TodoIsLeft
      <4>2. Len(Configured) - Len(todo) + (k + 1) = Len(Configured) - Len(todo') + k
        BY <1>1, <2>2, <3>1
      <4> QED  BY <2>2, <4>1, <4>2
    <3>3. main' # "load" /\ Len(todo') <= Len(Configured)
      BY <1>1, <2>1, <2>2, <3>1
    <3> QED  BY <3>2, <3>3 DEF TodoIsLeft
  <2>4. Behind' = Behind \cup {Head(todo)}
    BY <1>2, <2>2, HeadIsConfigured DEF Behind
  <2> QED  BY <1>2, <2>1, <2>2, <2>3, <2>4
<1>3. CASE Len(todo) = 1
  <2>1. main' = after /\ todo' = Configured
    BY <1>3 DEF GoOn
  <2>2. TodoIsLeft' /\ Behind' = {}
    BY <2>1, ConfiguredFacts DEF TodoIsLeft, Behind
  <2> QED  BY <1>3, <2>1, <2>2, ConfiguredFacts
<1>4. Len(todo) > 1 \/ Len(todo) = 1
  <2>1. \A n \in Nat : n >= 1 => n > 1 \/ n = 1
    OBVIOUS
  <2> QED  BY <1>1, <2>1
<1> QED  BY <1>2, <1>3, <1>4

LEMMA InsertLifeInv ==
  ASSUME LifeInv, end = "no", main = "mac", Exists(probe.ifidx), Insert(probe.ifidx)
  PROVE  LifeInv'
<1> DEFINE new == [name |-> Head(todo), ifidx |-> probe.ifidx, ip |-> probe.ip,
                   mac |-> probe.ifidx]
<1>1. /\ TypeOK /\ TodoIsLeft
      /\ probed' = {p \in probed : p.ifidx # probe.ifidx} \cup {new}
      /\ GoOn("index", "load")
      /\ UNCHANGED <<links, created, probe, attached, user, readers, alive, end>>
  BY DEF LifeInv, Insert, GoOn
<1>2. /\ todo' \in Seq(Names) /\ todo' # <<>> /\ TodoIsLeft'
      /\ main' \in {"index", "load"}
  BY <1>1, GoOnType
<1>3. Head(todo) \in Names /\ Head(todo) \in ConfiguredNames
  BY <1>1, TodoTail, HeadIsConfigured DEF TypeOK
<1>4. /\ probe.ifidx # NoLink /\ probe.ip = probe.ifidx
      /\ links[Head(todo)] = probe.ifidx /\ probe.ifidx <= created
  BY DEF LifeInv, ProbeIsConsistent, LinksAreFresh
<1>5. new \in [name : Names, ifidx : Index, ip : Index, mac : Index]
  BY <1>1, <1>3, <1>4 DEF TypeOK
<1>6. TypeOK'
  BY <1>1, <1>2, <1>5 DEF TypeOK
<1>7. LinksAreFresh'
  BY <1>1, <1>4 DEF LifeInv, LinksAreFresh
<1>8. ProbeIsConsistent' /\ ProbedIsAttached'
  <2>1. main' \notin {"ip", "mac"} /\ ProbeIsConsistent'
    BY <1>2 DEF ProbeIsConsistent
  <2>2. AttachedNames' = {}
    BY <1>2 DEF AttachedNames
  <2> QED  BY <2>1, <2>2 DEF ProbedIsAttached
<1>9. ProbeIsOfOneLink' /\ ProbedKeepsItsName'
  BY <1>1, <1>3, <1>4 DEF LifeInv, ProbeIsOfOneLink, ProbedKeepsItsName, Exists
<1>10. UserFollowsMain'
  BY <1>1, <1>2 DEF LifeInv, UserFollowsMain
<1> QED  BY <1>2, <1>6, <1>7, <1>8, <1>9, <1>10 DEF LifeInv

LEMMA ProbeMacLifeInv ==
  ASSUME LifeInv, ProbeMac
  PROVE  LifeInv'
<1>1. CASE Abort("error")
  BY <1>1, AbortLifeInv
<1>2. CASE ~Abort("error")
  BY <1>2, InsertLifeInv DEF ProbeMac, At
<1> QED  BY <1>1, <1>2

LEMMA LoadLifeInv ==
  ASSUME LifeInv, Load
  PROVE  LifeInv'
<1>1. CASE Abort("error")
  BY <1>1, AbortLifeInv
<1>2. CASE ~Abort("error")
  <2>1. /\ main = "load" /\ main' = "attach"
        /\ UNCHANGED <<links, created, todo, probe, probed, attached, user, readers, alive, end>>
    BY <1>2 DEF Load, At, Goto
  <2>2. TypeOK' /\ probe'.ifidx <= created
    BY <2>1 DEF LifeInv, TypeOK, LinksAreFresh
  <2>3. TodoIsLeft' /\ ProbeIsConsistent' /\ UserFollowsMain'
    BY <2>1 DEF LifeInv, TodoIsLeft, ProbeIsConsistent, UserFollowsMain, Wanted
  <2>4. Behind' = {}
    BY <2>1, ConfiguredFacts DEF LifeInv, TodoIsLeft, Behind
  <2>5. ProbedIsAttached'
    BY <2>1, <2>4 DEF ProbedIsAttached, AttachedNames
  <2> QED  BY <2>1, <2>2, <2>3, <2>5, MainGoesOn
<1> QED  BY <1>1, <1>2

LEMMA AttachLifeInv ==
  ASSUME LifeInv, Attach
  PROVE  LifeInv'
<1>1. CASE Abort("error")
  BY <1>1, AbortLifeInv
<1>2. CASE ~Abort("error")
  <2>1. /\ main = "attach" /\ main' = "recheck"
        /\ links[Head(todo)] # NoLink
        /\ attached' = attached \cup {links[Head(todo)]}
        /\ UNCHANGED <<links, created, todo, probe, probed, user, readers, alive, end>>
    BY <1>2 DEF Attach, At, Goto
  <2>2. Head(todo) \in Names /\ TypeOK
    BY TodoTail DEF LifeInv, TypeOK
  <2>3. TypeOK' /\ probe'.ifidx <= created
    BY <2>1, <2>2 DEF TypeOK, LifeInv, LinksAreFresh
  <2>4. TodoIsLeft' /\ ProbeIsConsistent' /\ UserFollowsMain'
    BY <2>1 DEF LifeInv, TodoIsLeft, ProbeIsConsistent, UserFollowsMain, Wanted
  <2>5. ProbedIsAttached'
    <3>1. AttachedNames = Behind /\ AttachedNames' = Behind \cup {Head(todo)}
      BY <2>1 DEF AttachedNames, Behind
    <3>2. \A p \in probed : Exists(p.ifidx) => links[p.name] = p.ifidx
      BY DEF LifeInv, ProbedKeepsItsName
    <3> QED  BY <2>1, <3>1, <3>2 DEF LifeInv, ProbedIsAttached, Exists
  <2> QED  BY <2>1, <2>3, <2>4, <2>5, MainGoesOn
<1> QED  BY <1>1, <1>2

LEMMA RecheckLifeInv ==
  ASSUME LifeInv, Recheck
  PROVE  LifeInv'
<1>1. CASE Abort("error")
  BY <1>1, AbortLifeInv
<1>2. CASE ~Abort("error")
  <2>1. /\ main = "recheck" /\ GoOn("attach", "spawn") /\ TypeOK /\ TodoIsLeft
        /\ UNCHANGED <<links, created, probe, probed, attached, user, readers, alive, end>>
    BY <1>2 DEF Recheck, At, LifeInv, GoOn
  <2>2. /\ todo' \in Seq(Names) /\ todo' # <<>> /\ TodoIsLeft'
        /\ \/ Len(todo) > 1 /\ main' = "attach" /\ Behind' = Behind \cup {Head(todo)}
           \/ Len(todo) = 1 /\ main' = "spawn"
    BY <2>1, GoOnType
  <2>3. TypeOK' /\ probe'.ifidx <= created
    BY <2>1, <2>2 DEF TypeOK, LifeInv, LinksAreFresh
  <2>4. ProbeIsConsistent' /\ UserFollowsMain'
    BY <2>1, <2>2 DEF LifeInv, ProbeIsConsistent, UserFollowsMain
  <2>5. AttachedNames' = Behind \cup {Head(todo)} /\ AttachedNames = Behind \cup {Head(todo)}
    <3>1. AttachedNames = Behind \cup {Head(todo)}
      BY <2>1 DEF AttachedNames
    <3>2. CASE main' = "attach"
      BY <2>2, <3>1, <3>2 DEF AttachedNames
    <3>3. CASE main' = "spawn"
      BY <2>1, <2>2, <3>1, <3>3, HeadIsConfigured DEF AttachedNames, ConfiguredNames
    <3> QED  BY <2>2, <3>2, <3>3
  <2>6. ProbedIsAttached'
    BY <2>1, <2>5 DEF LifeInv, ProbedIsAttached, Exists
  <2> QED  BY <2>1, <2>2, <2>3, <2>4, <2>6, MainGoesOn
<1> QED  BY <1>1, <1>2

LEMMA SpawnUserLifeInv ==
  ASSUME LifeInv, SpawnUser
  PROVE  LifeInv'
<1>1. /\ main = "spawn" /\ main' = "joining" /\ user' = "starting"
      /\ UNCHANGED <<links, created, todo, probe, probed, attached, readers, alive, end>>
  BY DEF SpawnUser, At
<1>2. TypeOK' /\ LinksAreFresh' /\ TodoIsLeft' /\ ProbeIsConsistent'
  BY <1>1 DEF LifeInv, TypeOK, LinksAreFresh, TodoIsLeft, ProbeIsConsistent
<1>3. ProbeIsOfOneLink' /\ ProbedKeepsItsName' /\ UserFollowsMain'
  BY <1>1 DEF LifeInv, ProbeIsOfOneLink, ProbedKeepsItsName, UserFollowsMain, Exists
<1>4. ProbedIsAttached'
  BY <1>1 DEF LifeInv, ProbedIsAttached, AttachedNames, Exists
<1> QED  BY <1>2, <1>3, <1>4 DEF LifeInv

(* A task that never ends keeps a user space that is up from being joined. *)
LEMMA JoinLifeInv ==
  ASSUME LifeInv, Join
  PROVE  LifeInv'
<1>1. /\ main = "joining" /\ main' = "waiting" /\ Joined
      /\ UNCHANGED <<links, created, todo, probe, probed, attached, user, readers, alive, end>>
  BY DEF Join, At, Goto
<1>2. user = "panicked"
  BY <1>1 DEF Joined, LifeInv, UserFollowsMain, Immortal
<1>3. TypeOK' /\ probe'.ifidx <= created
  BY <1>1 DEF LifeInv, TypeOK, LinksAreFresh
<1>4. TodoIsLeft' /\ ProbeIsConsistent' /\ UserFollowsMain'
  BY <1>1, <1>2 DEF LifeInv, TodoIsLeft, ProbeIsConsistent, UserFollowsMain
<1>5. ProbedIsAttached'
  BY <1>1 DEF ProbedIsAttached, AttachedNames
<1> QED  BY <1>1, <1>3, <1>4, <1>5, MainGoesOn

LEMMA AwaitedCtrlCLifeInv ==
  ASSUME LifeInv, AwaitedCtrlC
  PROVE  LifeInv'
<1>1. /\ main = "waiting" /\ main' = "returning" /\ attached' = {}
      /\ UNCHANGED <<links, created, todo, probe, probed, user, readers, alive, end>>
  BY DEF AwaitedCtrlC, At, Goto
<1>2. TypeOK' /\ probe'.ifidx <= created
  BY <1>1 DEF LifeInv, TypeOK, LinksAreFresh
<1>3. TodoIsLeft' /\ ProbeIsConsistent' /\ UserFollowsMain'
  BY <1>1 DEF LifeInv, TodoIsLeft, ProbeIsConsistent, UserFollowsMain
<1>4. ProbedIsAttached'
  BY <1>1 DEF ProbedIsAttached, AttachedNames
<1> QED  BY <1>1, <1>2, <1>3, <1>4, MainGoesOn

(* The two ends of the process that are no error.                          *)
LEMMA EndLifeInv ==
  ASSUME LifeInv, RuntimeDropped \/ AbruptEnd
  PROVE  LifeInv'
<1>1. /\ UNCHANGED <<links, created, main, todo, probe, probed, attached, user, readers, alive>>
      /\ end' \in {"returned", "abrupt"}
  BY DEF RuntimeDropped, AbruptEnd, UserSteps
<1>2. TypeOK' /\ LinksAreFresh' /\ TodoIsLeft' /\ ProbeIsConsistent'
  BY <1>1 DEF LifeInv, TypeOK, LinksAreFresh, TodoIsLeft, ProbeIsConsistent, Exists
<1>3. ProbeIsOfOneLink' /\ ProbedKeepsItsName' /\ ProbedIsAttached'
  BY <1>1 DEF LifeInv, ProbeIsOfOneLink, ProbedKeepsItsName, ProbedIsAttached, Exists
<1>4. UserFollowsMain'
  BY <1>1 DEF LifeInv, UserFollowsMain, Wanted
<1> QED  BY <1>2, <1>3, <1>4 DEF LifeInv

LEMMA TaskLifeInv ==
  ASSUME LifeInv, TaskNext
  PROVE  LifeInv'
<1>1. TypeOK
  BY DEF LifeInv
<1>2. /\ UNCHANGED <<links, created, main, todo, probe, probed, attached, end>>
      /\ user' \in {"none", "starting", "up", "panicked"}
      /\ alive' \subseteq Mortal \cup Immortal
      /\ readers' \subseteq readers \cup Wanted
  BY <1>1, TaskStep DEF UserSteps
<1>3. \/ user = "starting" /\ (user' = "up" => Immortal \subseteq alive' /\ readers' \subseteq Wanted)
      \/ user' = user /\ readers' \subseteq readers /\ alive \cap Immortal \subseteq alive'
  BY <1>1, TaskStep
<1>4. Wanted \subseteq Index /\ Wanted' = Wanted
  BY <1>1, <1>2 DEF TypeOK, Wanted
<1>5. TypeOK'
  BY <1>1, <1>2, <1>4 DEF TypeOK
<1>6. LinksAreFresh' /\ TodoIsLeft' /\ ProbeIsConsistent'
  BY <1>2 DEF LifeInv, LinksAreFresh, TodoIsLeft, ProbeIsConsistent, Exists
<1>7. ProbeIsOfOneLink' /\ ProbedKeepsItsName' /\ ProbedIsAttached'
  BY <1>2 DEF LifeInv, ProbeIsOfOneLink, ProbedKeepsItsName, ProbedIsAttached,
              AttachedNames, Behind, Exists
<1>8. UserFollowsMain'
  <2>1. main \notin {"waiting", "returning"} \/ user' = user
    BY <1>3 DEF LifeInv, UserFollowsMain
  <2>2. main \notin {"joining", "waiting", "returning"} => user' = "none"
    BY <1>3 DEF LifeInv, UserFollowsMain
  <2>3. user' = "up" => Immortal \subseteq alive' /\ readers' \subseteq Wanted
    BY <1>3 DEF LifeInv, UserFollowsMain
  <2> QED  BY <1>2, <1>4, <2>1, <2>2, <2>3 DEF LifeInv, UserFollowsMain
<1> QED  BY <1>5, <1>6, <1>7, <1>8 DEF LifeInv

LEMMA StepLifeInv == LifeInv /\ [Next]_lifeVars => LifeInv'
<1> SUFFICES ASSUME LifeInv, [Next]_lifeVars PROVE LifeInv'
  OBVIOUS
<1>1. CASE \E n \in Names : ChangeLink(n)
  BY <1>1, ChangeLinkLifeInv
<1>2. CASE MainNext
  BY <1>2, ConfigureLifeInv, ProbeIndexLifeInv, ProbeIpLifeInv, ProbeMacLifeInv,
     LoadLifeInv, AttachLifeInv, RecheckLifeInv, SpawnUserLifeInv, JoinLifeInv,
     AwaitedCtrlCLifeInv, EndLifeInv DEF MainNext
<1>3. CASE TaskNext
  BY <1>3, TaskLifeInv
<1>4. CASE UNCHANGED lifeVars
  BY <1>4 DEF lifeVars, LifeInv, TypeOK, LinksAreFresh, TodoIsLeft, ProbeIsConsistent,
              ProbeIsOfOneLink, ProbedKeepsItsName, ProbedIsAttached, AttachedNames,
              Behind, UserFollowsMain, Wanted, Exists
<1> QED  BY <1>1, <1>2, <1>3, <1>4 DEF Next, TaskNext

LEMMA LifeCorrect == Spec => []LifeInv
BY InitLifeInv, StepLifeInv, PTL DEF Spec

-----------------------------------------------------------------------------
(* Every variable of the life of the process stays what it is declared to  *)
(* be: no main without an interface to work on, no unknown index.          *)
THEOREM TypeCorrect == Spec => []TypeOK
<1>1. LifeInv => TypeOK
  BY DEF LifeInv
<1> QED  BY <1>1, LifeCorrect, PTL

(* An Interface never mixes two links, however often links are replaced    *)
(* between the three queries that make it.                                 *)
THEOREM ProbeCorrect == Spec => []ProbeIsOfOneLink
<1>1. LifeInv => ProbeIsOfOneLink
  BY DEF LifeInv
<1> QED  BY <1>1, LifeCorrect, PTL

(* A link that the user space reads from runs the XDP program, whatever    *)
(* happened to links between the probe, the attach and the open.           *)
THEOREM AttachCorrect == Spec => []ReadersAreAttached
<1>1. LifeInv => ReadersAreAttached
  <2> SUFFICES ASSUME LifeInv, end = "no", user = "up", NEW i \in readers, Exists(i)
               PROVE  i \in attached
    BY DEF ReadersAreAttached
  <2>1. main = "joining"
    BY DEF LifeInv, TypeOK, UserFollowsMain
  <2>2. PICK p \in probed : p.ifidx = i
    BY DEF LifeInv, UserFollowsMain, Wanted
  <2>3. p.name \in AttachedNames
    BY <2>1 DEF LifeInv, ProbedKeepsItsName, AttachedNames
  <2> QED  BY <2>2, <2>3 DEF LifeInv, ProbedIsAttached
<1> QED  BY <1>1, LifeCorrect, PTL

(* main never gets past join_all once the user space has come up, whichever *)
(* of its tasks die.                                                       *)
THEOREM JoinCorrect == Spec => []OnlyFailedStartIsNoticed
<1>1. LifeInv => OnlyFailedStartIsNoticed
  BY DEF LifeInv, UserFollowsMain, OnlyFailedStartIsNoticed
<1> QED  BY <1>1, LifeCorrect, PTL
=============================================================================
