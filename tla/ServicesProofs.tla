--------------------------- MODULE ServicesProofs ---------------------------
(***************************************************************************)
(* One behaviour of Services follows one service.  Each part below states  *)
(* what that service keeps, and what its steps may do to its alarms; the   *)
(* last part puts them together.                                           *)
(***************************************************************************)
EXTENDS Services, SequencesExt, FiniteSetTheorems, TLAPS

-----------------------------------------------------------------------------
(***************************************************************************)
(* The order in which a finite set is gone through                         *)
(***************************************************************************)

\* SetToSeq has the members of a finite set, and only those.
LEMMA SequenceOfSet ==
    ASSUME NEW S, IsFiniteSet(S)
    PROVE  /\ SetToSeq(S) \in Seq(S)
           /\ S # {} => SetToSeq(S) # <<>>
<1> DEFINE n == Cardinality(S)
<1>1. n \in Nat /\ ExistsBijection(1 .. n, S)
  BY FS_CardinalityType
<1>2. PICK f \in [1 .. n -> S] : IsInjective(f)
  BY <1>1 DEF ExistsBijection, Bijection, Injection, IsInjective
<1>3. SetToSeq(S) \in [1 .. n -> S]
  BY <1>2 DEF SetToSeq
<1>4. S # {} => n # 0
  BY FS_EmptySet
<1> HIDE DEF n
<1>5. SetToSeq(S) \in Seq(S)
  BY <1>1, <1>3
<1>6. Len(SetToSeq(S)) = n
  BY <1>1, <1>3, <1>5
<1> QED
  BY <1>4, <1>5, <1>6

LEMMA TailOfMore ==
    ASSUME NEW S, NEW s \in Seq(S), s # <<>>, Len(s) # 1
    PROVE  Tail(s) # <<>>
<1>1. Len(s) \in Nat /\ Len(s) # 0
  OBVIOUS
<1>2. Len(Tail(s)) = Len(s) - 1
  OBVIOUS
<1>3. Len(Tail(s)) # Len(<<>>)
  BY <1>1, <1>2
<1> QED
  BY <1>3, Zenon

LEMMA OrderOfGrds == Grd!Order \in Seq(Grds) /\ Grd!Order # <<>>
<1>1. \A S : Grd!Cardinality(S) = Cardinality(S)
  BY DEF Grd!Cardinality, Cardinality
<1>2. Grd!Order = SetToSeq(Grds)
  BY <1>1 DEF Grd!Order, Grd!SetToSeq, SetToSeq, Grd!IsInjective, IsInjective
<1> QED
  BY <1>2, SequenceOfSet, ServicesAssumption

LEMMA OrderOfTargets == Charo!Targets \in Seq(Instances) /\ Charo!Targets # <<>>
<1>1. \A S : Charo!Cardinality(S) = Cardinality(S)
  BY DEF Charo!Cardinality, Cardinality
<1>2. Charo!Targets = SetToSeq(Instances)
  BY <1>1 DEF Charo!Targets, Charo!SetToSeq, SetToSeq, Charo!IsInjective, IsInjective
<1> QED
  BY <1>2, SequenceOfSet, ServicesAssumption

-----------------------------------------------------------------------------
(***************************************************************************)
(* The collector of the GRD                                                *)
(***************************************************************************)
GrdInv ==
    /\ Grd!TypeOK
    /\ todo \in Seq(Grds)
    /\ pc = "reading" => todo # <<>>

\* What a step of the collector may do to its alarms.
GrdEnds ==
    /\ \A g \in Grds : condition[g] = "on" /\ condition'[g] = "off" => Grd!Evidence(g)
    /\ condition[Grd!Global] = "on" /\ condition'[Grd!Global] = "off"
           => failures = {} /\ ~Grd!Red

GrdStep == Grd!MonitorStep \/ Grd!Restart \/ \E g \in Grds : Grd!Change(g)

LEMMA GrdInit == Grd!Init => GrdInv
BY DEF Grd!Init, GrdInv, Grd!TypeOK, Grd!Keys

LEMMA GlobalCondition ==
    ASSUME GrdInv
    PROVE  /\ Grd!GlobalObserved \in {"unknown", "off", "on"}
           /\ condition[Grd!Global] = "on" /\ Grd!GlobalObserved = "off"
                => failures = {} /\ ~Grd!Red
BY ServicesAssumption DEF GrdInv, Grd!TypeOK, Grd!Keys, Grd!GlobalObserved, Grd!Unavailable

LEMMA GrdCondition ==
    ASSUME GrdInv, NEW g \in Grds
    PROVE  /\ Grd!GrdObserved(g) \in {"unknown", "off", "on"}
           /\ condition[g] = "on" /\ Grd!GrdObserved(g) = "off" => Grd!Evidence(g)
BY DEF GrdInv, Grd!TypeOK, Grd!Keys, Grd!GrdObserved, Grd!Unavailable, Grd!Disconnected,
       Grd!Known, Grd!Evidence

\* Whichever of the alarms a pass comes to, each ends on its own evidence.
LEMMA ObservedAlarms ==
    ASSUME GrdInv, NEW which,
           condition' = [k \in Grd!Keys |-> IF k \in which THEN Grd!Observed(k) ELSE condition[k]]
    PROVE  condition' \in [Grd!Keys -> {"unknown", "off", "on"}] /\ GrdEnds
<1>1. Grd!Global \in Grd!Keys /\ \A g \in Grds : g \in Grd!Keys /\ g # Grd!Global
  BY ServicesAssumption DEF Grd!Keys
<1>2. \A k \in Grd!Keys : k = Grd!Global \/ k \in Grds
  BY DEF Grd!Keys
<1>3. Grd!Observed(Grd!Global) = Grd!GlobalObserved
  BY DEF Grd!Observed
<1>4. \A g \in Grds : Grd!Observed(g) = Grd!GrdObserved(g)
  BY <1>1 DEF Grd!Observed
<1>5. condition \in [Grd!Keys -> {"unknown", "off", "on"}]
  BY DEF GrdInv, Grd!TypeOK
<1> QED
  BY <1>1, <1>2, <1>3, <1>4, <1>5, GlobalCondition, GrdCondition DEF GrdEnds

LEMMA GrdObserves ==
    ASSUME GrdInv, Grd!Observe \/ Grd!ObserveFails
    PROVE  GrdInv' /\ GrdEnds
<1>1. condition' \in [Grd!Keys -> {"unknown", "off", "on"}] /\ GrdEnds
  <2>1. CASE Grd!Observe
    <3>1. condition' = [k \in Grd!Keys |-> IF k \in Grd!Keys THEN Grd!Observed(k) ELSE condition[k]]
      BY <2>1 DEF Grd!Observe
    <3> QED
      BY <3>1, ObservedAlarms
  <2>2. CASE Grd!ObserveFails
    <3>1. PICK n : condition' = [k \in Grd!Keys |->
               IF n > 0 /\ (k = Grd!Global \/ k \in Grd!ToSet(Grd!SubSeq(Grd!Order, 1, n - 1)))
               THEN Grd!Observed(k) ELSE condition[k]]
      BY <2>2 DEF Grd!ObserveFails
    <3> DEFINE Which == {k \in Grd!Keys :
             n > 0 /\ (k = Grd!Global \/ k \in Grd!ToSet(Grd!SubSeq(Grd!Order, 1, n - 1)))}
    <3>2. condition' = [k \in Grd!Keys |-> IF k \in Which THEN Grd!Observed(k) ELSE condition[k]]
      BY <3>1
    <3> QED
      BY <3>2, ObservedAlarms
  <2> QED
    BY <2>1, <2>2
<1> QED
  BY <1>1 DEF GrdInv, Grd!TypeOK, Grd!Observe, Grd!ObserveFails

LEMMA GrdReads ==
    ASSUME GrdInv, Grd!ReadState \/ Grd!ReadFails \/ Grd!RecordFails
    PROVE  GrdInv' /\ UNCHANGED condition
<1>1. todo \in Seq(Grds) /\ todo # <<>>
  BY DEF GrdInv, Grd!ReadState, Grd!ReadFails, Grd!RecordFails
<1>2. Head(todo) \in Grds /\ Tail(todo) \in Seq(Grds) /\ Grd!ToSet(todo) \subseteq Grds
  BY <1>1 DEF Grd!ToSet
<1>3. <<>> \in Seq(Grds)
  OBVIOUS
<1>4. CASE Grd!ReadState
  <2>1. line[Head(todo)] \in {"up", "down"}
    BY <1>2, <1>4 DEF GrdInv, Grd!TypeOK, Grd!ReadState
  <2>2. db' \in [Grds -> {"up", "down", "unread"}] /\ states' = db'
    BY <1>2, <1>4, <2>1 DEF GrdInv, Grd!TypeOK, Grd!ReadState
  <2> QED
    BY <1>2, <1>4, <2>2 DEF GrdInv, Grd!TypeOK, Grd!ReadState, Grd!AfterRead
<1>5. CASE Grd!ReadFails
  BY <1>2, <1>3, <1>5 DEF GrdInv, Grd!TypeOK, Grd!ReadFails, Grd!AfterRead
<1>6. CASE Grd!RecordFails
  BY <1>6 DEF GrdInv, Grd!TypeOK, Grd!RecordFails
<1> QED
  BY <1>4, <1>5, <1>6

LEMMA GrdRest ==
    ASSUME GrdInv,
           \/ Grd!BeginCycle \/ Grd!ConnectFails \/ Grd!Start \/ Grd!Publish
           \/ Grd!StartAgain \/ Grd!Restart \/ \E g \in Grds : Grd!Change(g)
    PROVE  GrdInv' /\ UNCHANGED condition
<1> USE DEF GrdInv, Grd!TypeOK
<1>1. CASE Grd!BeginCycle
  BY <1>1, OrderOfGrds DEF Grd!BeginCycle
<1>2. CASE Grd!ConnectFails
  BY <1>2 DEF Grd!ConnectFails
<1>3. CASE Grd!Start
  BY <1>3 DEF Grd!Start, Grd!PublishSnapshots
<1>4. CASE Grd!Publish
  BY <1>4 DEF Grd!Publish, Grd!PublishSnapshots
<1>5. CASE Grd!StartAgain
  BY <1>5 DEF Grd!StartAgain
<1>6. CASE Grd!Restart
  BY <1>6 DEF Grd!Restart
<1>7. CASE \E g \in Grds : Grd!Change(g)
  BY <1>7 DEF Grd!Change
<1> QED
  BY <1>1, <1>2, <1>3, <1>4, <1>5, <1>6, <1>7

LEMMA GrdNext == GrdInv /\ (GrdStep \/ UNCHANGED ofGrd) => GrdInv' /\ GrdEnds
<1>1. GrdInv /\ UNCHANGED condition => GrdEnds
  BY DEF GrdEnds
<1>2. ASSUME GrdInv, GrdStep PROVE GrdInv' /\ GrdEnds
  <2>1. CASE Grd!Observe \/ Grd!ObserveFails
    BY <1>2, <2>1, GrdObserves
  <2>2. CASE Grd!ReadState \/ Grd!ReadFails \/ Grd!RecordFails
    BY <1>1, <1>2, <2>2, GrdReads
  <2>3. CASE \/ Grd!BeginCycle \/ Grd!ConnectFails \/ Grd!Start \/ Grd!Publish
             \/ Grd!StartAgain \/ Grd!Restart \/ \E g \in Grds : Grd!Change(g)
    BY <1>1, <1>2, <2>3, GrdRest
  <2> QED
    BY <1>2, <2>1, <2>2, <2>3 DEF GrdStep, Grd!MonitorStep
<1>3. ASSUME GrdInv, UNCHANGED ofGrd PROVE GrdInv' /\ GrdEnds
  BY <1>1, <1>3 DEF GrdInv, Grd!TypeOK, ofGrd
<1> QED
  BY <1>2, <1>3

-----------------------------------------------------------------------------
(***************************************************************************)
(* The monitor of the modem's link                                         *)
(***************************************************************************)
ModemEnds == link = "on" /\ link' = "off" => Modem!Evidence

ModemStep == Modem!Step \/ Modem!Restart \/ Modem!Move

\* What the counter has counted is a healthy check, and the last one.
ModemInv ==
    /\ Modem!TypeOK
    /\ healthy # 0 => before

LEMMA ModemInit == Modem!Init => ModemInv
<1> SUFFICES ASSUME Modem!Init PROVE ModemInv
  OBVIOUS
<1>1. before \in BOOLEAN /\ (healthy # 0 => before)
  BY Zenon DEF Modem!Init
<1> QED
  BY <1>1 DEF Modem!Init, Modem!TypeOK, Modem!States, ModemInv

LEMMA Counting ==
    ASSUME ModemInv
    PROVE  /\ Modem!Counted \in 0 .. 2 /\ Modem!Concluded \in {"unknown", "off", "on"}
           /\ Modem!Healthy \in BOOLEAN
           /\ Modem!Counted # 0 => Modem!Healthy
BY DEF ModemInv, Modem!TypeOK, Modem!Counted, Modem!Concluded, Modem!Healthy

\* Only the second healthy check in a row ends the alarm.
LEMMA SecondCheck ==
    ASSUME ModemInv, link = "on", Modem!Concluded = "off"
    PROVE  Modem!Evidence
BY DEF ModemInv, Modem!TypeOK, Modem!Counted, Modem!Concluded, Modem!Healthy, Modem!Evidence

LEMMA ModemNext ==
    ModemInv /\ (ModemStep \/ UNCHANGED ofModem) => ModemInv' /\ ModemEnds
<1> SUFFICES ASSUME ModemInv, ModemStep \/ UNCHANGED ofModem
             PROVE  ModemInv' /\ ModemEnds
  OBVIOUS
<1> USE DEF ModemInv, Modem!TypeOK, Modem!States, ModemEnds
<1>1. CASE Modem!Check
  BY <1>1 DEF Modem!Check
<1>2. CASE Modem!Query
  BY <1>2 DEF Modem!Query
<1>3. CASE Modem!Save
  BY <1>3 DEF Modem!Save
<1>4. CASE Modem!SaveFails
  BY <1>4 DEF Modem!SaveFails
<1>5. CASE Modem!Observe
  BY <1>5, Counting, SecondCheck DEF Modem!Observe
<1>6. CASE Modem!ObserveFails
  BY <1>6, Counting DEF Modem!ObserveFails
<1>7. CASE Modem!Publish
  BY <1>7 DEF Modem!Publish
<1>8. CASE Modem!PublishFails
  BY <1>8 DEF Modem!PublishFails
<1>9. CASE Modem!Restart
  <2>1. before' \in BOOLEAN /\ (healthy' # 0 => before')
    BY <1>9, Zenon DEF Modem!Restart
  <2> QED
    BY <1>9, <2>1 DEF Modem!Restart
<1>10. CASE Modem!Move
  BY <1>10 DEF Modem!Move
<1>11. CASE UNCHANGED ofModem
  BY <1>11 DEF ofModem
<1> QED
  BY <1>1, <1>2, <1>3, <1>4, <1>5, <1>6, <1>7, <1>8, <1>9, <1>10, <1>11
  DEF ModemStep, Modem!Step

-----------------------------------------------------------------------------
(***************************************************************************)
(* Charito                                                                 *)
(***************************************************************************)
Sayings == UNION {[S -> {"running", "stopped"}] : S \in SUBSET Processes}
Observations == [answer : {"none", "serving", "garbled", "off"}, says : Sayings]

\* A process has a condition only when it is in the file of the catalogue, and
\* what is in the file is served: Restart serves nothing else.
CharitoInv ==
    /\ Charo!TypeOK
    /\ host \in [Instances -> {"serving", "garbled", "off"}]
    /\ process \in [Processes -> {"running", "stopped", "unlisted"}]
    /\ items \in [Instances -> Observations] /\ itemsFile \in [Instances -> Observations]
    /\ queue \in Seq(Instances)
    /\ turn \in {"polling", "observing"} => queue # <<>>
    /\ Instances \cup catalog \subseteq registered
    /\ \A p \in Processes : alarm[p] # "unknown" => p \in catalog

CharitoEnds ==
    /\ \A i \in Instances : alarm[i] = "on" /\ alarm'[i] = "off"
           => items[i].answer \in {"serving", "garbled"}
    /\ \A p \in Processes : alarm[p] = "on" /\ alarm'[p] = "off" => Charo!Evidence(p)

CharitoStep == Charo!Step \/ Charo!Restart \/ Charo!Change

LEMMA CharitoInit == Charo!Init => CharitoInv
<1> SUFFICES ASSUME Charo!Init PROVE CharitoInv
  OBVIOUS
<1>1. Charo!Placeholder \in Observations
  <2>1. [p \in {} |-> ""] \in [{} -> {"running", "stopped"}]
    OBVIOUS
  <2>2. [p \in {} |-> ""] \in Sayings
    BY <2>1 DEF Sayings
  <2> QED
    BY <2>2 DEF Charo!Placeholder, Observations
<1>2. items \in [Instances -> Observations] /\ itemsFile \in [Instances -> Observations]
  BY <1>1 DEF Charo!Init
<1>3. Charo!TypeOK
  BY <1>2 DEF Charo!Init, Charo!TypeOK, Observations
<1> QED
  BY <1>2, <1>3 DEF Charo!Init, CharitoInv

LEMMA CataloguedInv == CharitoInv => Charo!Catalogued
BY DEF CharitoInv, Charo!Catalogued

LEMMA AnObservation ==
    ASSUME CharitoInv, NEW i \in Instances
    PROVE  Charo!Observation(i) \in Observations
<1>1. items[i] \in Observations /\ host[i] \in {"serving", "garbled", "off"}
  BY DEF CharitoInv
<1>2. CASE host[i] = "off"
  BY <1>1, <1>2 DEF Charo!Observation, Observations
<1>3. CASE host[i] # "off"
  <2> DEFINE S == {q \in Charo!On(i) : host[i] = "serving" /\ process[q] # "unlisted"}
  <2>1. S \in SUBSET Processes
    BY DEF Charo!On
  <2>2. \A p \in S : process[p] \in {"running", "stopped"}
    BY <2>1 DEF CharitoInv
  <2> HIDE DEF S
  <2>3. [p \in S |-> process[p]] \in [S -> {"running", "stopped"}]
    BY <2>2
  <2>4. [p \in S |-> process[p]] \in Sayings
    BY <2>1, <2>3 DEF Sayings
  <2> QED
    BY <1>1, <1>3, <2>4 DEF Charo!Observation, Observations, S
<1> QED
  BY <1>2, <1>3

LEMMA TheListed ==
    ASSUME CharitoInv, NEW i \in Instances
    PROVE  /\ items[i].answer \in {"none", "serving", "garbled", "off"}
           /\ Charo!Listed(items[i]) \subseteq Processes
           /\ \A p \in Charo!Listed(items[i]) : items[i].says[p] \in {"running", "stopped"}
<1>1. items[i] \in Observations
  BY DEF CharitoInv
<1>2. items[i].says \in Sayings
  BY <1>1 DEF Observations
<1>3. PICK S \in SUBSET Processes : items[i].says \in [S -> {"running", "stopped"}]
  BY <1>2 DEF Sayings
<1> QED
  BY <1>1, <1>3 DEF Observations, Charo!Listed

AlarmsFollow ==
    /\ catalog' \subseteq Processes /\ registered' \subseteq Instances \cup Processes
    /\ alarm' \in [Instances \cup Processes -> {"unknown", "off", "on"}]
    /\ Instances \cup catalog' \subseteq registered'
    /\ \A p \in Processes : alarm'[p] # "unknown" => p \in catalog'
    /\ CharitoEnds

\* What an observation makes of the alarms, whether or not it comes to the end:
\* the processes that it tells of are put in the catalogue first.
LEMMA AlarmsObserved ==
    ASSUME CharitoInv, NEW i \in Instances, items[i].answer # "none",
           NEW known, known \subseteq Charo!Listed(items[i]),
           NEW done \in SUBSET Charo!On(i), done \cap Charo!Listed(items[i]) \subseteq known,
           Charo!Observed(i, known, done)
    PROVE  AlarmsFollow
<1> DEFINE o == items[i]
<1>1. known \subseteq Processes
  BY TheListed
<1>2. /\ catalog' = catalog \cup known /\ registered' = registered \cup known
      /\ alarm' = [k \in Instances \cup Processes |->
               IF k = i THEN Charo!DaemonCondition(o)
               ELSE IF k \in done THEN Charo!ProcessCondition(i, o, k) ELSE alarm[k]]
  BY DEF Charo!Observed
<1>3. done \subseteq Processes /\ \A p \in done : HostOf[p] = i
  BY DEF Charo!On
<1>4. alarm \in [Instances \cup Processes -> {"unknown", "off", "on"}]
  BY DEF CharitoInv, Charo!TypeOK
<1>5. \A j \in Instances :
          alarm'[j] = IF j = i THEN Charo!DaemonCondition(o) ELSE alarm[j]
  BY <1>2, <1>3, ServicesAssumption
<1>6. \A p \in Processes :
          alarm'[p] = IF p \in done THEN Charo!ProcessCondition(i, o, p) ELSE alarm[p]
  BY <1>2, ServicesAssumption
<1>7. ASSUME NEW p \in done
      PROVE  /\ Charo!ProcessCondition(i, o, p) \in {"unknown", "off", "on"}
             /\ Charo!ProcessCondition(i, o, p) # "unknown" => p \in catalog \cup known
             /\ alarm[p] = "on" /\ Charo!ProcessCondition(i, o, p) = "off" => Charo!Evidence(p)
  <2>1. CASE o.answer = "off" /\ p \in Charo!On(i) \cap catalog
    <3>1. alarm'[i] = "on"
      BY <1>5, <2>1 DEF Charo!DaemonCondition
    <3> QED
      BY <1>3, <2>1, <3>1 DEF Charo!ProcessCondition, Charo!Evidence, Charo!HandedOver
  <2>2. CASE ~(o.answer = "off" /\ p \in Charo!On(i) \cap catalog) /\ p \in Charo!Listed(o)
    BY <1>3, <2>2, TheListed DEF Charo!ProcessCondition, Charo!Evidence
  <2>3. CASE ~(o.answer = "off" /\ p \in Charo!On(i) \cap catalog) /\ p \notin Charo!Listed(o)
    BY <1>3, <1>4, <2>3 DEF Charo!ProcessCondition, CharitoInv
  <2> QED
    BY <2>1, <2>2, <2>3
<1>8. Charo!DaemonCondition(o) \in {"on", "off"}
      /\ (Charo!DaemonCondition(o) = "off" => items[i].answer \in {"serving", "garbled"})
  BY TheListed DEF Charo!DaemonCondition
<1> HIDE DEF o
<1>9. alarm' \in [Instances \cup Processes -> {"unknown", "off", "on"}]
  <2>1. alarm' = [k \in Instances \cup Processes |-> alarm'[k]]
    BY <1>2
  <2>2. \A k \in Instances \cup Processes : alarm'[k] \in {"unknown", "off", "on"}
    BY <1>4, <1>5, <1>6, <1>7, <1>8
  <2> QED
    BY <2>1, <2>2
<1>10. CharitoEnds
  BY <1>5, <1>6, <1>7, <1>8 DEF CharitoEnds
<1>11. \A p \in Processes : alarm'[p] # "unknown" => p \in catalog'
  BY <1>2, <1>6, <1>7 DEF CharitoInv
<1> QED
  BY <1>1, <1>2, <1>9, <1>10, <1>11 DEF CharitoInv, Charo!TypeOK, AlarmsFollow

LEMMA CharitoObserves ==
    ASSUME CharitoInv, Charo!ObserveInstance \/ Charo!ObserveFails
    PROVE  CharitoInv' /\ CharitoEnds
<1> DEFINE i == Head(queue)
<1>1. queue \in Seq(Instances) /\ queue # <<>>
  BY DEF CharitoInv, Charo!ObserveInstance, Charo!ObserveFails
<1>2. i \in Instances /\ Tail(queue) \in Seq(Instances) /\ <<>> \in Seq(Instances)
      /\ (Len(queue) # 1 => Tail(queue) # <<>>)
  BY <1>1, TailOfMore
<1>3. AlarmsFollow
  <2>1. CASE UNCHANGED <<catalog, registered, alarm>>
    BY <2>1 DEF CharitoInv, Charo!TypeOK, CharitoEnds, AlarmsFollow
  <2>2. CASE items[i].answer # "none" /\ Charo!Observed(i, Charo!Listed(items[i]), Charo!On(i))
    BY <1>2, <2>2, AlarmsObserved
  <2>3. ASSUME items[i].answer # "none",
               NEW done \in SUBSET Charo!On(i),
               NEW part \in {{}} \cup {{p} : p \in Charo!Listed(items[i])},
               Charo!Observed(i, (done \cap Charo!Listed(items[i])) \cup part, done)
        PROVE  AlarmsFollow
    <3>1. (done \cap Charo!Listed(items[i])) \cup part \subseteq Charo!Listed(items[i])
      OBVIOUS
    <3>2. done \cap Charo!Listed(items[i]) \subseteq (done \cap Charo!Listed(items[i])) \cup part
      OBVIOUS
    <3> HIDE DEF i
    <3> QED
      BY <1>2, <2>3, <3>1, <3>2, AlarmsObserved
  <2> QED
    BY <2>1, <2>2, <2>3 DEF Charo!ObserveInstance, Charo!ObserveFails
<1>4. /\ queue' \in Seq(Instances)
      /\ turn' \in {"startup", "waiting", "polling", "observing", "broadcasting"}
      /\ turn' \in {"polling", "observing"} => queue' # <<>>
      /\ UNCHANGED <<host, process, items, itemsFile>>
  BY <1>2 DEF CharitoInv, Charo!TypeOK, Charo!ObserveInstance, Charo!ObserveFails
<1> QED
  BY <1>3, <1>4 DEF CharitoInv, Charo!TypeOK, AlarmsFollow

LEMMA CharitoPolls ==
    ASSUME CharitoInv, Charo!PollTarget
    PROVE  CharitoInv' /\ UNCHANGED alarm
<1> DEFINE i == Head(queue)
<1>1. queue \in Seq(Instances) /\ queue # <<>>
  BY DEF CharitoInv, Charo!PollTarget
<1>2. i \in Instances /\ Tail(queue) \in Seq(Instances)
      /\ (Len(queue) # 1 => Tail(queue) # <<>>)
  BY <1>1, TailOfMore
<1>3. items' \in [Instances -> Observations]
  BY <1>2, AnObservation DEF CharitoInv, Charo!PollTarget
<1>4. itemsFile' \in [Instances -> Observations]
  BY <1>3 DEF CharitoInv, Charo!PollTarget
<1>5. \A j \in Instances : items'[j].answer \in {"none", "serving", "garbled", "off"}
  BY <1>3 DEF Observations
<1>6. /\ queue' \in Seq(Instances) /\ queue' # <<>>
      /\ turn' \in {"polling", "observing"}
  BY <1>2, OrderOfTargets DEF Charo!PollTarget
<1> QED
  BY <1>3, <1>4, <1>5, <1>6 DEF CharitoInv, Charo!TypeOK, Charo!PollTarget

LEMMA CharitoRest ==
    ASSUME CharitoInv,
           \/ Charo!BeginCycle \/ Charo!BroadcastState \/ Charo!BroadcastFails
           \/ Charo!StartupEvent \/ Charo!Restart \/ Charo!Change
    PROVE  CharitoInv' /\ UNCHANGED alarm
<1> USE DEF CharitoInv, Charo!TypeOK
<1>1. CASE Charo!BeginCycle
  BY <1>1, OrderOfTargets DEF Charo!BeginCycle
<1>2. CASE Charo!BroadcastState
  BY <1>2 DEF Charo!BroadcastState, Charo!Broadcast
<1>3. CASE Charo!BroadcastFails
  BY <1>3 DEF Charo!BroadcastFails
<1>4. CASE Charo!StartupEvent
  BY <1>4 DEF Charo!StartupEvent, Charo!Broadcast
<1>5. CASE Charo!Restart
  BY <1>5 DEF Charo!Restart, Observations
<1>6. CASE Charo!Change
  BY <1>6 DEF Charo!Change
<1> QED
  BY <1>1, <1>2, <1>3, <1>4, <1>5, <1>6

LEMMA CharitoNext ==
    CharitoInv /\ (CharitoStep \/ UNCHANGED ofCharito) => CharitoInv' /\ CharitoEnds
<1>1. CharitoInv /\ UNCHANGED alarm => CharitoEnds
  BY DEF CharitoEnds
<1>2. ASSUME CharitoInv, CharitoStep PROVE CharitoInv' /\ CharitoEnds
  <2>1. CASE Charo!ObserveInstance \/ Charo!ObserveFails
    BY <1>2, <2>1, CharitoObserves
  <2>2. CASE Charo!PollTarget
    BY <1>1, <1>2, <2>2, CharitoPolls
  <2>3. CASE \/ Charo!BeginCycle \/ Charo!BroadcastState \/ Charo!BroadcastFails
             \/ Charo!StartupEvent \/ Charo!Restart \/ Charo!Change
    BY <1>1, <1>2, <2>3, CharitoRest
  <2> QED
    BY <1>2, <2>1, <2>2, <2>3 DEF CharitoStep, Charo!Step
<1>3. ASSUME CharitoInv, UNCHANGED ofCharito PROVE CharitoInv' /\ CharitoEnds
  BY <1>1, <1>3 DEF CharitoInv, Charo!TypeOK, ofCharito
<1> QED
  BY <1>2, <1>3

-----------------------------------------------------------------------------
(***************************************************************************)
(* Proxmox                                                                 *)
(***************************************************************************)
Snapshots == [status : {"none", "online", "offline"}, at : 0 .. clock,
              vms : [Vms -> {"running", "stopped", "missing"}]]

\* Every date is of a moment gone by.  While the alarm of the host is not on, its
\* date is no later than the stored snapshot, the only one that a restart leaves;
\* while it is on, it may be later, and only a newer snapshot can end it.
PveInv ==
    /\ Proxmox!TypeOK
    /\ clock \in Nat /\ vm \in [Vms -> {"running", "stopped", "missing"}]
    /\ stored \in Snapshots /\ last \in Snapshots /\ current \in Snapshots
    /\ pveTopic \in Snapshots
    /\ stored.at <= last.at
    /\ hostAlarm.value # "on" => hostAlarm.since <= stored.at
    /\ step \in {"collected", "stored"} =>
           current.status = "online" /\ current.at = last.at
               /\ hostAlarm.since <= current.at
    /\ step = "stored" => stored = current

PveEnds ==
    /\ hostAlarm.value = "on" /\ hostAlarm'.value = "off" => Proxmox!HostEvidence
    /\ \A v \in Vms : vmAlarm[v] = "on" /\ vmAlarm'[v] = "off" => Proxmox!Evidence(v)

PveDates == hostAlarm'.since >= hostAlarm.since

PveStep == Proxmox!Step \/ Proxmox!Restart \/ Proxmox!Change \/ Proxmox!Tick

LEMMA PveInit == Proxmox!Init => PveInv
BY ServicesAssumption
DEF Proxmox!Init, PveInv, Proxmox!TypeOK, Snapshots, Proxmox!Never

LEMMA PveObserves ==
    ASSUME PveInv, Proxmox!Observe \/ Proxmox!ObserveFails
    PROVE  PveInv' /\ PveEnds /\ PveDates
<1>1. /\ step = "stored" /\ current \in Snapshots /\ current.status = "online"
      /\ stored = current /\ hostAlarm.since <= current.at
      /\ hostAlarm' = Proxmox!HostObserved("off", current.at)
      /\ hostAlarm \in [value : {"unknown", "off", "on"}, since : 0 .. clock]
      /\ clock \in Nat
  BY DEF PveInv, Proxmox!TypeOK, Proxmox!Observe, Proxmox!ObserveFails
<1>2. /\ hostAlarm' \in [value : {"unknown", "off", "on"}, since : 0 .. clock]
      /\ hostAlarm'.value = "off" /\ hostAlarm'.since <= stored.at /\ PveDates
  BY <1>1 DEF Proxmox!HostObserved, Snapshots, PveDates
<1>3. ASSUME NEW v \in Vms
      PROVE  /\ Proxmox!VmCondition(v) \in {"off", "on"}
             /\ Proxmox!VmCondition(v) = "off" => Proxmox!Evidence(v)
  BY <1>1 DEF Proxmox!VmCondition, Proxmox!Evidence, Proxmox!HostEvidence
<1>4. vmAlarm' \in [Vms -> {"unknown", "off", "on"}] /\ PveEnds
  BY <1>1, <1>3 DEF PveInv, Proxmox!TypeOK, PveEnds, Proxmox!HostEvidence, Proxmox!Observe,
                    Proxmox!ObserveFails
<1> QED
  BY <1>1, <1>2, <1>4 DEF PveInv, Proxmox!TypeOK, Snapshots, Proxmox!Observe, Proxmox!ObserveFails

LEMMA PveFails ==
    ASSUME PveInv, Proxmox!HandleFailure \/ Proxmox!HandleFailureFails
    PROVE  PveInv' /\ PveEnds /\ PveDates
<1>1. /\ last \in Snapshots /\ clock \in Nat /\ stored \in Snapshots /\ stored.at <= last.at
      /\ hostAlarm \in [value : {"unknown", "off", "on"}, since : 0 .. clock]
      /\ hostAlarm.value # "on" => hostAlarm.since <= stored.at
  BY DEF PveInv, Proxmox!TypeOK
<1>2. Proxmox!Outage \in Snapshots /\ last.at <= Proxmox!Outage.at
  <2> DEFINE at == IF last = Proxmox!Never THEN clock ELSE last.at
  <2>1. at \in 0 .. clock /\ last.at <= at
    BY <1>1 DEF Snapshots
  <2>2. Proxmox!Outage = [status |-> "offline", at |-> at, vms |-> last.vms]
    BY DEF Proxmox!Outage
  <2> HIDE DEF at
  <2> QED
    BY <1>1, <2>1, <2>2 DEF Snapshots
<1>3. CASE Proxmox!HandleFailure
  <2>1. hostAlarm' = Proxmox!HostObserved("on", Proxmox!Outage.at)
    BY <1>3 DEF Proxmox!HandleFailure
  <2>2. /\ hostAlarm' \in [value : {"unknown", "off", "on"}, since : 0 .. clock]
        /\ hostAlarm'.value = "on" /\ PveDates
    BY <1>1, <1>2, <2>1 DEF Proxmox!HostObserved, Snapshots, PveDates
  <2> QED
    BY <1>2, <1>3, <2>2 DEF PveInv, Proxmox!TypeOK, PveEnds, Snapshots, Proxmox!HandleFailure
<1>4. CASE Proxmox!HandleFailureFails
  BY <1>2, <1>4 DEF PveInv, Proxmox!TypeOK, PveEnds, PveDates, Snapshots,
                    Proxmox!HandleFailureFails
<1> QED
  BY <1>3, <1>4

LEMMA PveRest ==
    ASSUME PveInv,
           \/ Proxmox!Collect \/ Proxmox!CollectFails \/ Proxmox!Store \/ Proxmox!StoreFails
           \/ Proxmox!Publish \/ Proxmox!Restart \/ Proxmox!Change \/ Proxmox!Tick
    PROVE  PveInv' /\ UNCHANGED <<vmAlarm, hostAlarm>>
<1> USE DEF PveInv, Proxmox!TypeOK, Snapshots
<1>1. CASE Proxmox!Collect
  BY <1>1 DEF Proxmox!Collect, Proxmox!Taken
<1>2. CASE Proxmox!CollectFails
  BY <1>2 DEF Proxmox!CollectFails
<1>3. CASE Proxmox!Store
  BY <1>3 DEF Proxmox!Store
<1>4. CASE Proxmox!StoreFails
  BY <1>4 DEF Proxmox!StoreFails
<1>5. CASE Proxmox!Publish
  BY <1>5, ServicesAssumption DEF Proxmox!Publish
<1>6. CASE Proxmox!Restart
  BY <1>6, ServicesAssumption DEF Proxmox!Restart, Proxmox!Never
<1>7. CASE Proxmox!Change
  BY <1>7 DEF Proxmox!Change
<1>8. CASE Proxmox!Tick
  BY <1>8 DEF Proxmox!Tick
<1> QED
  BY <1>1, <1>2, <1>3, <1>4, <1>5, <1>6, <1>7, <1>8

LEMMA PveNext ==
    PveInv /\ (PveStep \/ UNCHANGED ofPve) => PveInv' /\ PveEnds /\ PveDates
<1>1. PveInv /\ UNCHANGED <<vmAlarm, hostAlarm>> => PveEnds /\ PveDates
  BY DEF PveEnds, PveDates, PveInv, Proxmox!TypeOK
<1>2. ASSUME PveInv, PveStep PROVE PveInv' /\ PveEnds /\ PveDates
  <2>1. CASE Proxmox!Observe \/ Proxmox!ObserveFails
    BY <1>2, <2>1, PveObserves
  <2>2. CASE Proxmox!HandleFailure \/ Proxmox!HandleFailureFails
    BY <1>2, <2>2, PveFails
  <2>3. CASE \/ Proxmox!Collect \/ Proxmox!CollectFails \/ Proxmox!Store \/ Proxmox!StoreFails
             \/ Proxmox!Publish \/ Proxmox!Restart \/ Proxmox!Change \/ Proxmox!Tick
    BY <1>1, <1>2, <2>3, PveRest
  <2> QED
    BY <1>2, <2>1, <2>2, <2>3 DEF PveStep, Proxmox!Step
<1>3. ASSUME PveInv, UNCHANGED ofPve PROVE PveInv' /\ PveEnds /\ PveDates
  BY <1>1, <1>3 DEF PveInv, Proxmox!TypeOK, Snapshots, ofPve
<1> QED
  BY <1>2, <1>3

-----------------------------------------------------------------------------
(***************************************************************************)
(* The generators                                                          *)
(***************************************************************************)

\* Only an available reading has its breaker observed, and its position is known.
GensetInv ==
    /\ Genset!TypeOK
    /\ told \in [Gensets -> SUBSET Genset!Item] /\ genTopic \in [Gensets -> SUBSET Genset!Item]
    /\ \A g \in Gensets :
        /\ worker[g].item.status = "available" => worker[g].item.group \in Genset!Positions
        /\ worker[g].at = "observe" => worker[g].item.status = "available"

GensetEnds ==
    \A g \in Gensets : running[g] = "on" /\ running'[g] = "off" => Genset!Evidence(g)

GensetStep ==
    \/ Genset!Restart
    \/ \E g \in Gensets : Genset!Step(g) \/ Genset!Move(g) \/ Genset!WriteFails(g)

LEMMA EmptyIsSmall == Genset!Cardinality({}) = 0 /\ \A x : Genset!Cardinality({x}) = 1
<1>1. \A S : Genset!Cardinality(S) = Cardinality(S)
  BY DEF Genset!Cardinality, Cardinality
<1> QED
  BY <1>1, FS_EmptySet, FS_Singleton

LEMMA GensetInit == Genset!Init => GensetInv
BY EmptyIsSmall
DEF Genset!Init, GensetInv, Genset!TypeOK, Genset!Item, Genset!Unread, Genset!Resting,
    Genset!Positions

LEMMA GensetReads ==
    ASSUME GensetInv, NEW g \in Gensets, Genset!Read(g)
    PROVE  GensetInv' /\ UNCHANGED running
<1>1. Genset!Measured(g) \in Genset!Item /\ Genset!Measured(g).group \in Genset!Positions
  BY DEF GensetInv, Genset!TypeOK, Genset!Measured, Genset!Item, Genset!Positions
<1>2. Genset!Failed(g) \in Genset!Item /\ Genset!Failed(g).status # "available"
  <2> DEFINE status == IF gauges[g].mains = "incierto" THEN "unavailable" ELSE "stale"
  <2>1. gauges[g] \in Genset!Item
    BY DEF GensetInv, Genset!TypeOK
  <2>2. Genset!Failed(g) = [status |-> status, mains |-> gauges[g].mains,
                            group |-> gauges[g].group]
    BY <2>1 DEF Genset!Failed, Genset!Item
  <2> QED
    BY <2>1, <2>2 DEF Genset!Item
<1>3. PICK item \in Genset!Item :
        /\ worker' = [worker EXCEPT ![g] = [at |-> "store", item |-> item]]
        /\ item.status = "available" => item.group \in Genset!Positions
  BY <1>1, <1>2 DEF Genset!Read
<1> QED
  BY <1>3 DEF GensetInv, Genset!TypeOK, Genset!Read

LEMMA GensetPublishes ==
    ASSUME GensetInv, NEW g \in Gensets, Genset!Publish(g)
    PROVE  GensetInv' /\ UNCHANGED running
<1> DEFINE new == Genset!Signature(g, worker[g].item)
<1>1. new \in Genset!Item
  BY DEF GensetInv, Genset!TypeOK, Genset!Signature, Genset!Item
<1> HIDE DEF new
<1>2. \A h \in Gensets : told'[h] \in {told[h], {new}} /\ genTopic'[h] \in {genTopic[h], {new}}
  BY DEF GensetInv, Genset!TypeOK, Genset!Publish, new
<1>3. /\ told' \in [Gensets -> SUBSET Genset!Item] /\ genTopic' \in [Gensets -> SUBSET Genset!Item]
      /\ \A h \in Gensets : /\ Genset!Cardinality(told'[h]) <= 1
                            /\ Genset!Cardinality(genTopic'[h]) <= 1
  <2>1. told' \in [Gensets -> SUBSET Genset!Item] /\ genTopic' \in [Gensets -> SUBSET Genset!Item]
    BY <1>1 DEF GensetInv, Genset!Publish, new
  <2>2. Genset!Cardinality({new}) <= 1
    <3>1. Genset!Cardinality({new}) = 1
      BY EmptyIsSmall, Zenon
    <3> QED
      BY <3>1
  <2>3. \A h \in Gensets : Genset!Cardinality(told[h]) <= 1 /\ Genset!Cardinality(genTopic[h]) <= 1
    BY DEF GensetInv, Genset!TypeOK
  <2>4. ASSUME NEW h \in Gensets
        PROVE  Genset!Cardinality(told'[h]) <= 1 /\ Genset!Cardinality(genTopic'[h]) <= 1
    <3>1. told'[h] = told[h] \/ told'[h] = {new}
      BY <1>2
    <3>2. genTopic'[h] = genTopic[h] \/ genTopic'[h] = {new}
      BY <1>2
    <3> QED
      BY <2>2, <2>3, <3>1, <3>2, Zenon
  <2> QED
    BY <2>1, <2>4
<1>4. /\ echoed' \in [Gensets -> BOOLEAN]
      /\ worker' = [worker EXCEPT ![g].at = "asleep"]
      /\ UNCHANGED <<breakers, gauges, running>>
  BY DEF GensetInv, Genset!TypeOK, Genset!Publish, Genset!Goto
<1>5. worker' \in [Gensets -> [at : {"asleep", "store", "observe", "publish"}, item : Genset!Item]]
  BY <1>4 DEF GensetInv, Genset!TypeOK
<1> QED
  BY <1>3, <1>4, <1>5 DEF GensetInv, Genset!TypeOK

LEMMA GensetNext ==
    GensetInv /\ (GensetStep \/ UNCHANGED ofGenset) => GensetInv' /\ GensetEnds
<1> SUFFICES ASSUME GensetInv, GensetStep \/ UNCHANGED ofGenset
             PROVE  GensetInv' /\ GensetEnds
  OBVIOUS
<1>1. CASE Genset!Restart
  BY <1>1, EmptyIsSmall
  DEF GensetInv, Genset!TypeOK, GensetEnds, Genset!Restart, Genset!Resting, Genset!Unread,
      Genset!Item, Genset!Positions
<1>2. ASSUME NEW g \in Gensets, Genset!Read(g) PROVE GensetInv' /\ GensetEnds
  BY <1>2, GensetReads DEF GensetEnds
<1>3. ASSUME NEW g \in Gensets, Genset!Store(g) PROVE GensetInv' /\ GensetEnds
  BY <1>3 DEF GensetInv, Genset!TypeOK, GensetEnds, Genset!Store, Genset!Goto
<1>4. ASSUME NEW g \in Gensets, Genset!Observe(g) PROVE GensetInv' /\ GensetEnds
  BY <1>4 DEF GensetInv, Genset!TypeOK, GensetEnds, Genset!Observe, Genset!Goto, Genset!At,
              Genset!Evidence, Genset!Positions
<1>5. ASSUME NEW g \in Gensets, Genset!Publish(g) PROVE GensetInv' /\ GensetEnds
  BY <1>5, GensetPublishes DEF GensetEnds
<1>6. ASSUME NEW g \in Gensets, Genset!Move(g) PROVE GensetInv' /\ GensetEnds
  <2>1. breakers' \in [Gensets -> [mains : Genset!Positions, group : Genset!Positions]]
    BY <1>6 DEF GensetInv, Genset!TypeOK, Genset!Move
  <2> QED
    BY <1>6, <2>1 DEF GensetInv, Genset!TypeOK, GensetEnds, Genset!Move
<1>7. ASSUME NEW g \in Gensets, Genset!WriteFails(g) PROVE GensetInv' /\ GensetEnds
  BY <1>7 DEF GensetInv, Genset!TypeOK, GensetEnds, Genset!WriteFails, Genset!Goto
<1>8. CASE UNCHANGED ofGenset
  BY <1>8 DEF GensetInv, Genset!TypeOK, GensetEnds, ofGenset
<1> QED
  BY <1>1, <1>2, <1>3, <1>4, <1>5, <1>6, <1>7, <1>8 DEF GensetStep, Genset!Step

-----------------------------------------------------------------------------
(***************************************************************************)
(* One of the five                                                         *)
(***************************************************************************)
ServicesInv == GrdInv /\ ModemInv /\ CharitoInv /\ PveInv /\ GensetInv

LEMMA StepsOfServices ==
    [Next]_vars =>
        /\ GrdStep \/ UNCHANGED ofGrd
        /\ ModemStep \/ UNCHANGED ofModem
        /\ CharitoStep \/ UNCHANGED ofCharito
        /\ PveStep \/ UNCHANGED ofPve
        /\ GensetStep \/ UNCHANGED ofGenset
<1> SUFFICES ASSUME [Next]_vars
             PROVE  /\ GrdStep \/ UNCHANGED ofGrd
                    /\ ModemStep \/ UNCHANGED ofModem
                    /\ CharitoStep \/ UNCHANGED ofCharito
                    /\ PveStep \/ UNCHANGED ofPve
                    /\ GensetStep \/ UNCHANGED ofGenset
  OBVIOUS
<1>1. CASE GrdRuns \/ GrdSuffers
  BY <1>1 DEF GrdRuns, GrdSuffers, GrdOnly, GrdStep
<1>2. CASE ModemRuns \/ ModemSuffers
  BY <1>2 DEF ModemRuns, ModemSuffers, ModemOnly, ModemStep
<1>3. CASE CharitoRuns \/ CharitoSuffers
  BY <1>3 DEF CharitoRuns, CharitoSuffers, CharitoOnly, CharitoStep
<1>4. CASE PveRuns \/ PveSuffers
  BY <1>4 DEF PveRuns, PveSuffers, PveOnly, PveStep
<1>5. CASE GensetSuffers \/ \E g \in Gensets : GensetRuns(g)
  BY <1>5 DEF GensetRuns, GensetSuffers, GensetOnly, GensetStep
<1>6. CASE UNCHANGED vars
  BY <1>6 DEF vars
<1> QED
  BY <1>1, <1>2, <1>3, <1>4, <1>5, <1>6 DEF Next

LEMMA ServicesInit == Init => ServicesInv
BY GrdInit, ModemInit, CharitoInit, PveInit, GensetInit DEF Init, ServicesInv

LEMMA ServicesNext ==
    ServicesInv /\ [Next]_vars =>
        ServicesInv' /\ GrdEnds /\ ModemEnds /\ CharitoEnds /\ PveEnds /\ PveDates /\ GensetEnds
BY StepsOfServices, GrdNext, ModemNext, CharitoNext, PveNext, GensetNext DEF ServicesInv

LEMMA ServicesAlways == Spec => []ServicesInv
<1>1. ServicesInv /\ [Next]_vars => ServicesInv'
  BY ServicesNext
<1> QED
  BY ServicesInit, <1>1, PTL DEF Spec

\* The variables of the five services keep their types.
THEOREM TypeCorrect == Spec => []TypeOK
<1>1. ServicesInv => TypeOK
  BY DEF ServicesInv, GrdInv, ModemInv, CharitoInv, PveInv, GensetInv, TypeOK
<1> QED
  BY ServicesAlways, <1>1, PTL

\* No alarm ends but on evidence that what it told of is over: neither a failed
\* reading nor a percentage that nobody answered for, nor metrics that cannot be
\* read, nor a restart ends one (services/alarm_generator.py, alarm_source.py,
\* process_alarm_service.py).
THEOREM AlarmsAlwaysEndOnEvidence == Spec => AlarmsEndOnEvidence
<1> DEFINE Ends ==
        /\ \A g \in Grds : condition[g] = "on" /\ condition'[g] = "off" => Grd!Evidence(g)
        /\ condition[Grd!Global] = "on" /\ condition'[Grd!Global] = "off"
               => failures = {} /\ ~Grd!Red
        /\ link = "on" /\ link' = "off" => Modem!Evidence
        /\ \A i \in Instances : alarm[i] = "on" /\ alarm'[i] = "off"
               => items[i].answer \in {"serving", "garbled"}
        /\ \A p \in Processes : alarm[p] = "on" /\ alarm'[p] = "off" => Charo!Evidence(p)
        /\ hostAlarm.value = "on" /\ hostAlarm'.value = "off" => Proxmox!HostEvidence
        /\ \A v \in Vms : vmAlarm[v] = "on" /\ vmAlarm'[v] = "off" => Proxmox!Evidence(v)
        /\ \A g \in Gensets : running[g] = "on" /\ running'[g] = "off" => Genset!Evidence(g)
<1>1. ServicesInv /\ [Next]_vars => [Ends]_vars
  BY ServicesNext DEF GrdEnds, ModemEnds, CharitoEnds, PveEnds, GensetEnds
<1> QED
  BY ServicesAlways, <1>1, PTL DEF Spec, AlarmsEndOnEvidence

\* Every alarm that Charito ever observed is in the catalogue it serves, after a
\* failed write of either file and a restart as well (process_alarm_service.py).
THEOREM AlwaysCatalogued == Spec => []AlarmsAreCatalogued
<1>1. ServicesInv => AlarmsAreCatalogued
  BY CataloguedInv DEF ServicesInv, AlarmsAreCatalogued
<1> QED
  BY ServicesAlways, <1>1, PTL

\* The date of the host's alarm never goes back, though a restart forgets the last
\* snapshot that was not stored (poller.py, alarm_source.py).
THEOREM DatesAlwaysAdvance == Spec => OutageDatesAdvance
<1>1. ServicesInv /\ [Next]_vars => [hostAlarm'.since >= hostAlarm.since]_vars
  BY ServicesNext DEF PveDates
<1> QED
  BY ServicesAlways, <1>1, PTL DEF Spec, OutageDatesAdvance
=============================================================================
