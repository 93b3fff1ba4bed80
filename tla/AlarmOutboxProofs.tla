-------------------------- MODULE AlarmOutboxProofs --------------------------
(***************************************************************************)
(* Proofs about AlarmOutbox, for every set of alarms and every bound.      *)
(*                                                                         *)
(* The invariant that carries them, IInv, says what the state file and the *)
(* history have in common (Durable) and what a change under way may look   *)
(* like (ChangeUnderWay): one observation or one confirmation away from    *)
(* the file.  ServedIsDurable, NoEdgeLost and ConditionFollowsEdges are    *)
(* not inductive without the second part, because the end of a save makes  *)
(* durable whatever the beginning left in memory.                          *)
(***************************************************************************)
EXTENDS AlarmOutbox, TLAPS

\* An alarm that has edges was observed.
EdgesObserved ==
    \A i \in 1 .. Len(emitted) : file.conditions[emitted[i].alarm].value # "unknown"

Durable ==
    /\ NoEdgeLost
    /\ ConditionFollowsEdges
    /\ EdgesObserved

\* "state" is "file" after one observation.
ObservationUnderWay(a, v, t) ==
    /\ file.conditions[a].value # v
    /\ state = Observed(file, a, v, t)

\* "state" is "file" after one confirmation.
ConfirmationUnderWay(n) ==
    /\ n > file.acked
    /\ n < file.next
    /\ state = Acknowledged(file, n)

ChangeUnderWay ==
    /\ up
    /\ backup = <<file>>
    /\ \/ \E a \in Alarms, v \in Values, t \in Instants : ObservationUnderWay(a, v, t)
       \/ \E n \in Nat : ConfirmationUnderWay(n)

IInv ==
    /\ TypeOK
    /\ FileLoads
    /\ Durable
    /\ ServedIsDurable
    /\ up \/ Free
    /\ Free \/ ChangeUnderWay

-----------------------------------------------------------------------------
(* What the operators of an outbox preserve *)

\* A first start begins with a state the next start would accept.
LEMMA EmptyLoadable == Loadable(EmptyOutbox)
BY DEF Loadable, EmptyOutbox, Condition, Edge, Values

\* observe leaves a state _load accepts.
LEMMA ObservedLoadable ==
    ASSUME NEW o, Loadable(o), NEW a \in Alarms, NEW v \in Values, NEW t \in Nat
    PROVE  Loadable(Observed(o, a, v, t))
<1>1. CASE o.conditions[a].value = v
  BY <1>1 DEF Observed
<1>2. CASE o.conditions[a].value # v /\ IsEdge(o, a, v)
  <2> DEFINE p == Observed(o, a, v, t)
  <2>1. /\ p.next = o.next + 1
        /\ p.acked = o.acked
        /\ p.conditions = [o.conditions EXCEPT ![a] = [value |-> v, since |-> t]]
        /\ p.events = [i \in DOMAIN o.events \cup {o.next} |->
                         IF i = o.next
                         THEN [alarm |-> a, value |-> v, at |-> t]
                         ELSE o.events[i]]
    BY <1>2 DEF Observed
  <2>2. p.conditions \in [Alarms -> Condition]
    BY <2>1 DEF Loadable, Condition
  <2>3. DOMAIN o.events \cup {o.next} = (p.acked + 1) .. (p.next - 1)
    BY <2>1 DEF Loadable
  <2>4. p.events \in [(p.acked + 1) .. (p.next - 1) -> Edge]
    BY <2>1, <2>3 DEF Loadable, Edge
  <2> QED
    BY <2>1, <2>2, <2>4 DEF Loadable
<1>3. CASE o.conditions[a].value # v /\ ~IsEdge(o, a, v)
  BY <1>3 DEF Observed, Loadable, Condition
<1> QED
  BY <1>1, <1>2, <1>3

\* acknowledge leaves a state _load accepts.
LEMMA AcknowledgedLoadable ==
    ASSUME NEW o, Loadable(o), NEW n \in Nat, n > o.acked, n < o.next
    PROVE  Loadable(Acknowledged(o, n))
<1> DEFINE p == Acknowledged(o, n)
<1>1. /\ p.next = o.next
      /\ p.acked = n
      /\ p.conditions = o.conditions
      /\ p.events = [i \in {j \in DOMAIN o.events : j > n} |-> o.events[i]]
  BY DEF Acknowledged, Loadable
<1>2. {j \in DOMAIN o.events : j > n} = (n + 1) .. (o.next - 1)
  BY DEF Loadable
<1>3. p.events \in [(p.acked + 1) .. (p.next - 1) -> Edge]
  BY <1>1, <1>2 DEF Loadable
<1> QED
  BY <1>1, <1>3 DEF Loadable

-----------------------------------------------------------------------------
(* The end of a save *)

\* Replacing the file while a confirmation is under way.
LEMMA ReplaceConfirmation ==
    ASSUME TypeOK, FileLoads, Durable, NEW n \in Nat, ConfirmationUnderWay(n),
           Replace
    PROVE  /\ emitted' = emitted
           /\ Loadable(file')
           /\ Durable'
<1>1. /\ file'.next = file.next
      /\ file'.acked = n
      /\ file'.conditions = file.conditions
      /\ file'.events = [i \in {j \in DOMAIN file.events : j > n} |-> file.events[i]]
      /\ file' = Acknowledged(file, n)
  BY DEF ConfirmationUnderWay, Replace, Acknowledged, FileLoads, Loadable
<1>2. emitted' = emitted
  BY <1>1 DEF Replace, FileLoads, Loadable
<1>3. Loadable(file')
  BY <1>1, AcknowledgedLoadable DEF FileLoads, ConfirmationUnderWay
<1>4. NoEdgeLost'
  BY <1>1, <1>2 DEF Durable, NoEdgeLost, ConfirmationUnderWay, FileLoads, Loadable, TypeOK
<1>5. ConditionFollowsEdges' /\ EdgesObserved'
  BY <1>1, <1>2 DEF Durable, ConditionFollowsEdges, EdgesObserved,
                    IsLastEdge
<1> QED
  BY <1>2, <1>3, <1>4, <1>5 DEF Durable

\* Replacing the file while an observation that is not an edge is under way.
LEMMA ReplaceBaseline ==
    ASSUME TypeOK, FileLoads, Durable,
           NEW a \in Alarms, NEW v \in Values, NEW t \in Instants,
           ObservationUnderWay(a, v, t), ~IsEdge(file, a, v),
           Replace
    PROVE  /\ emitted' = emitted
           /\ file'.acked = file.acked
           /\ Loadable(file')
           /\ Durable'
<1>1. /\ file'.next = file.next
      /\ file'.acked = file.acked
      /\ file'.conditions
            = [file.conditions EXCEPT ![a] = [value |-> v, since |-> t]]
      /\ file'.events = file.events
      /\ file' = Observed(file, a, v, t)
  BY DEF ObservationUnderWay, Replace, Observed
<1>2. emitted' = emitted
  BY <1>1 DEF Replace, FileLoads, Loadable
<1>3. Loadable(file')
  BY <1>1, ObservedLoadable, BoundsAssumption DEF FileLoads
<1>4. NoEdgeLost'
  BY <1>1, <1>2 DEF Durable, NoEdgeLost
<1>5. v = "off" /\ file.conditions[a].value = "unknown"
  BY DEF IsEdge, Values, ObservationUnderWay
<1>6. \A i \in 1 .. Len(emitted) : emitted[i].alarm # a
  BY <1>5 DEF Durable, EdgesObserved
<1>7. \A b \in Alarms : file'.conditions[b]
          = IF b = a THEN [value |-> v, since |-> t] ELSE file.conditions[b]
  BY <1>1 DEF FileLoads, Loadable
<1>8. \A i \in 1 .. Len(emitted) : emitted[i].alarm \in Alarms
  <2>1. \A i \in 1 .. Len(emitted) : emitted[i] \in Edge
    BY DEF TypeOK
  <2> QED
    BY <2>1 DEF Edge
<1>9. ConditionFollowsEdges'
  BY <1>2, <1>5, <1>6, <1>7, <1>8 DEF Durable, ConditionFollowsEdges, IsLastEdge
<1>10. EdgesObserved'
  BY <1>2, <1>6, <1>7, <1>8 DEF Durable, EdgesObserved
<1> QED
  BY <1>1, <1>2, <1>3, <1>4, <1>9, <1>10 DEF Durable

\* Replacing the file while an observation that is an edge is under way.
LEMMA ReplaceEdge ==
    ASSUME TypeOK, FileLoads, Durable,
           NEW a \in Alarms, NEW v \in Values, NEW t \in Instants,
           ObservationUnderWay(a, v, t), IsEdge(file, a, v),
           Replace
    PROVE  /\ emitted' = Append(emitted, [alarm |-> a, value |-> v, at |-> t])
           /\ file'.acked = file.acked
           /\ Loadable(file')
           /\ Durable'
<1> DEFINE e == [alarm |-> a, value |-> v, at |-> t]
<1>1. /\ file'.next = file.next + 1
      /\ file'.acked = file.acked
      /\ file'.conditions
            = [file.conditions EXCEPT ![a] = [value |-> v, since |-> t]]
      /\ file'.events = [i \in DOMAIN file.events \cup {file.next} |->
                           IF i = file.next THEN e ELSE file.events[i]]
      /\ file' = state
  BY DEF ObservationUnderWay, Replace, Observed
<1>2. emitted' = Append(emitted, e)
  BY <1>1 DEF Replace, FileLoads, Loadable
<1>3. Loadable(file')
  <2>1. file' = Observed(file, a, v, t)
    BY DEF ObservationUnderWay, Replace
  <2> QED
    BY <2>1, ObservedLoadable, BoundsAssumption DEF FileLoads
<1>4. /\ Len(emitted) = file.next - 1
      /\ Len(emitted') = file.next
      /\ Len(emitted) \in Nat
      /\ \A i \in 1 .. Len(emitted) : emitted'[i] = emitted[i] /\ emitted[i] \in Edge
      /\ emitted'[file.next] = e
  BY <1>2 DEF TypeOK, Durable, NoEdgeLost, FileLoads, Loadable
<1>5. NoEdgeLost'
  BY <1>1, <1>4 DEF Durable, NoEdgeLost, FileLoads, Loadable
<1>6. \A b \in Alarms : file'.conditions[b]
          = IF b = a THEN [value |-> v, since |-> t] ELSE file.conditions[b]
  BY <1>1 DEF FileLoads, Loadable
<1>7. ConditionFollowsEdges'
  <2>1. ASSUME NEW i \in 1 .. Len(emitted'), IsLastEdge(emitted, i)'
        PROVE  file'.conditions[emitted'[i].alarm]
                   = [value |-> emitted'[i].value, since |-> emitted'[i].at]
    <3>1. CASE i = file.next
      BY <3>1, <1>4, <1>6
    <3>2. CASE i # file.next
      <4>1. i \in 1 .. Len(emitted)
        BY <3>2, <1>4 DEF FileLoads, Loadable
      <4>2. \A j \in (i + 1) .. Len(emitted') : emitted'[j].alarm # emitted'[i].alarm
        BY <2>1 DEF IsLastEdge
      <4>3. emitted'[i] = emitted[i]
        BY <4>1, <1>4
      <4>4. file.next \in (i + 1) .. Len(emitted')
        BY <4>1, <1>4 DEF FileLoads, Loadable
      <4>5. emitted[i].alarm # a
        BY <4>2, <4>3, <4>4, <1>4
      <4>6. IsLastEdge(emitted, i)
        <5> SUFFICES ASSUME NEW j \in (i + 1) .. Len(emitted)
                     PROVE  emitted[j].alarm # emitted[i].alarm
          BY DEF IsLastEdge
        <5>1. j \in 1 .. Len(emitted) /\ j \in (i + 1) .. Len(emitted')
          BY <4>1, <1>4 DEF FileLoads, Loadable
        <5> QED
          BY <5>1, <4>2, <4>3, <1>4
      <4>7. emitted[i].alarm \in Alarms
        BY <4>1, <1>4 DEF Edge
      <4> QED
        BY <4>1, <4>3, <4>6, <4>7, <4>5, <1>6 DEF Durable, ConditionFollowsEdges
    <3> QED
      BY <3>1, <3>2
  <2>2. ASSUME NEW b \in Alarms, \A i \in 1 .. Len(emitted') : emitted'[i].alarm # b
        PROVE  file'.conditions[b].value # "on"
    <3>1. b # a
      BY <2>2, <1>4 DEF FileLoads, Loadable
    <3>2. ASSUME NEW i \in 1 .. Len(emitted) PROVE emitted[i].alarm # b
      <4>1. i \in 1 .. Len(emitted') /\ emitted'[i] = emitted[i]
        BY <1>4 DEF FileLoads, Loadable
      <4> QED
        BY <2>2, <4>1
    <3> QED
      BY <3>1, <3>2, <1>6 DEF Durable, ConditionFollowsEdges
  <2> QED
    BY <2>1, <2>2 DEF ConditionFollowsEdges
<1>8. EdgesObserved'
  <2> SUFFICES ASSUME NEW i \in 1 .. Len(emitted')
               PROVE  file'.conditions[emitted'[i].alarm].value # "unknown"
    BY DEF EdgesObserved
  <2>1. CASE i = file.next
    BY <2>1, <1>4, <1>6 DEF Values
  <2>2. CASE i # file.next
    <3>1. i \in 1 .. Len(emitted)
      BY <2>2, <1>4 DEF FileLoads, Loadable
    <3>2. emitted'[i] = emitted[i] /\ emitted[i].alarm \in Alarms
      BY <3>1, <1>4 DEF Edge
    <3> QED
      BY <3>1, <3>2, <1>6 DEF Durable, EdgesObserved, Values
  <2> QED
    BY <2>1, <2>2
<1> QED
  BY <1>1, <1>2, <1>3, <1>5, <1>7, <1>8 DEF Durable

\* Whatever change is under way, replacing the file keeps it durable and sound.
LEMMA ReplaceDurable ==
    ASSUME IInv, ~Free, Replace
    PROVE  emitted' \in Seq(Edge) /\ Loadable(file') /\ Durable'
<1>1. TypeOK /\ FileLoads /\ Durable
  BY DEF IInv
<1>2. ASSUME NEW a \in Alarms, NEW v \in Values, NEW t \in Instants,
             ObservationUnderWay(a, v, t)
      PROVE  emitted' \in Seq(Edge) /\ Loadable(file') /\ Durable'
  <2>1. CASE IsEdge(file, a, v)
    <3>1. [alarm |-> a, value |-> v, at |-> t] \in Edge
      BY BoundsAssumption DEF Edge
    <3>2. emitted \in Seq(Edge)
      BY <1>1 DEF TypeOK
    <3>3. /\ emitted' = Append(emitted, [alarm |-> a, value |-> v, at |-> t])
          /\ Loadable(file') /\ Durable'
      BY <1>1, <1>2, <2>1, ReplaceEdge
    <3> QED
      BY <3>1, <3>2, <3>3
  <2>2. CASE ~IsEdge(file, a, v)
    <3>1. emitted' = emitted /\ Loadable(file') /\ Durable'
      BY <1>1, <1>2, <2>2, ReplaceBaseline
    <3> QED
      BY <1>1, <3>1 DEF TypeOK
  <2> QED
    BY <2>1, <2>2
<1>3. ASSUME NEW n \in Nat, ConfirmationUnderWay(n)
      PROVE  emitted' \in Seq(Edge) /\ Loadable(file') /\ Durable'
  <2>1. emitted' = emitted /\ Loadable(file') /\ Durable'
    BY <1>1, <1>3, ReplaceConfirmation
  <2> QED
    BY <1>1, <2>1 DEF TypeOK
<1> QED
  BY <1>2, <1>3 DEF IInv, ChangeUnderWay

-----------------------------------------------------------------------------
(* The invariant *)

LEMMA InitInvariant == Init => IInv
<1> SUFFICES ASSUME Init PROVE IInv
  OBVIOUS
<1>1. Loadable(EmptyOutbox)
  BY EmptyLoadable
<1>2. TypeOK /\ FileLoads
  BY <1>1, BoundsAssumption DEF Init, TypeOK, FileLoads, Free
<1>3. Durable
  BY DEF Init, Durable, NoEdgeLost, ConditionFollowsEdges, EdgesObserved, EmptyOutbox, IsLastEdge
<1> QED
  BY <1>2, <1>3 DEF Init, IInv, ServedIsDurable, Free

LEMMA NextInvariant == IInv /\ [Next]_vars => IInv'
<1> SUFFICES ASSUME IInv, [Next]_vars PROVE IInv'
  OBVIOUS
<1>0. TypeOK /\ FileLoads /\ Durable /\ ServedIsDurable
  BY DEF IInv
<1>1. ASSUME NEW a \in Alarms, Register(a) PROVE IInv'
  BY <1>0, <1>1 DEF IInv, Register, TypeOK, FileLoads, Durable, NoEdgeLost,
        ConditionFollowsEdges, EdgesObserved, ServedIsDurable, Free
<1>2. ASSUME NEW a \in Alarms, NEW v \in Values, NEW at \in Instants, Observe(a, v, at)
      PROVE  IInv'
  <2>1. state = file /\ at \in Nat
    BY <1>0, <1>2, BoundsAssumption DEF Observe, ServedIsDurable, TypeOK
  <2>2. Loadable(state')
    BY <1>2, <1>0, <2>1, ObservedLoadable DEF Observe, FileLoads
  <2>3. TypeOK' /\ FileLoads'
    BY <1>0, <1>2, <2>1, <2>2 DEF Observe, TypeOK, FileLoads, Free
  <2>4. Durable'
    BY <1>0, <1>2 DEF Observe, Durable, NoEdgeLost, ConditionFollowsEdges,
          EdgesObserved
  <2>6. ObservationUnderWay(a, v, at)'
    BY <1>2, <2>1 DEF Observe, ObservationUnderWay
  <2>7. ChangeUnderWay'
    BY <1>2, <2>1, <2>6 DEF Observe, ChangeUnderWay
  <2>8. up' /\ ~Free'
    BY <1>2 DEF Observe, Free
  <2> QED
    BY <2>3, <2>4, <2>7, <2>8 DEF IInv, ServedIsDurable
<1>3. ASSUME NEW n \in 0 .. MaxEvents + 1, Acknowledge(n) PROVE IInv'
  <2>1. state = file /\ n \in Nat
    BY <1>0, <1>3, BoundsAssumption DEF Acknowledge, ServedIsDurable
  <2>2. n > file.acked /\ n < file.next
    BY <1>3, <2>1 DEF Acknowledge, AckAccepted
  <2>3. Loadable(state')
    BY <1>3, <1>0, <2>1, <2>2, AcknowledgedLoadable DEF Acknowledge, FileLoads
  <2>4. TypeOK' /\ FileLoads'
    BY <1>0, <1>3, <2>1, <2>3 DEF Acknowledge, TypeOK, FileLoads, Free
  <2>5. Durable'
    BY <1>0, <1>3 DEF Acknowledge, Durable, NoEdgeLost, ConditionFollowsEdges,
          EdgesObserved
  <2>6. ConfirmationUnderWay(n)'
    BY <1>3, <2>1, <2>2 DEF Acknowledge, ConfirmationUnderWay
  <2>7. ChangeUnderWay'
    BY <1>3, <2>1, <2>6 DEF Acknowledge, ChangeUnderWay
  <2>8. up' /\ ~Free'
    BY <1>3 DEF Acknowledge, Free
  <2> QED
    BY <2>4, <2>5, <2>7, <2>8 DEF IInv, ServedIsDurable
<1>4. CASE SaveSucceeds
  <2>1. emitted' \in Seq(Edge) /\ Loadable(file') /\ Durable'
    BY <1>4, ReplaceDurable DEF SaveSucceeds
  <2>2. TypeOK' /\ FileLoads'
    BY <1>0, <1>4, <2>1 DEF SaveSucceeds, TypeOK, FileLoads, Free
  <2>3. ServedIsDurable' /\ Free'
    BY <1>4 DEF SaveSucceeds, Replace, ServedIsDurable, Free
  <2> QED
    BY <2>1, <2>2, <2>3 DEF IInv
<1>5. CASE SaveFails
  <2>1. ChangeUnderWay
    BY <1>5 DEF IInv, SaveFails
  <2>2. state' = file
    BY <1>5, <2>1 DEF SaveFails, ChangeUnderWay
  <2>3. TypeOK' /\ FileLoads'
    BY <1>0, <1>5, <2>2 DEF SaveFails, TypeOK, FileLoads, Free
  <2>4. Durable'
    BY <1>0, <1>5 DEF SaveFails, Durable, NoEdgeLost, ConditionFollowsEdges,
          EdgesObserved
  <2>5. ServedIsDurable' /\ Free'
    BY <1>5, <2>2 DEF SaveFails, ServedIsDurable, Free
  <2> QED
    BY <2>3, <2>4, <2>5 DEF IInv
<1>6. CASE Crash
  <2>1. emitted' \in Seq(Edge) /\ Loadable(file') /\ Durable'
    <3>1. CASE UNCHANGED <<file, emitted>>
      BY <1>0, <1>6, <3>1 DEF Crash, TypeOK, FileLoads, Durable, NoEdgeLost,
            ConditionFollowsEdges, EdgesObserved
    <3>2. CASE ~Free /\ Replace
      BY <1>6, <3>2, ReplaceDurable DEF Crash
    <3> QED
      BY <1>6, <3>1, <3>2 DEF Crash
  <2>2. TypeOK' /\ FileLoads'
    BY <1>0, <1>6, <2>1, EmptyLoadable DEF Crash, TypeOK, FileLoads, Free
  <2>3. ~up' /\ Free'
    BY <1>6 DEF Crash, Free
  <2> QED
    BY <2>1, <2>2, <2>3 DEF IInv, ServedIsDurable
<1>7. CASE Start
  <2>1. TypeOK' /\ FileLoads'
    BY <1>0, <1>7 DEF Start, TypeOK, FileLoads, Free
  <2>2. Durable'
    BY <1>0, <1>7 DEF Start, Durable, NoEdgeLost, ConditionFollowsEdges,
          EdgesObserved
  <2>3. Free
    BY <1>7 DEF Start, IInv
  <2> QED
    BY <1>7, <2>1, <2>2, <2>3 DEF Start, IInv, ServedIsDurable, Free
<1>8. CASE UNCHANGED vars
  BY <1>8 DEF vars, IInv, TypeOK, FileLoads, Durable, NoEdgeLost,
        ConditionFollowsEdges, EdgesObserved, ServedIsDurable,
        Free, ChangeUnderWay, ObservationUnderWay, ConfirmationUnderWay
<1> QED
  BY <1>1, <1>2, <1>3, <1>4, <1>5, <1>6, <1>7, <1>8 DEF Next

LEMMA Invariance == Spec => []IInv
  BY InitInvariant, NextInvariant, PTL DEF Spec

-----------------------------------------------------------------------------
(* The results *)

\* The values the outbox handles are always values of their kind.
THEOREM TypeCorrect == Spec => []TypeOK
<1>1. IInv => TypeOK
  BY DEF IInv
<1> QED
  BY <1>1, Invariance, PTL

\* No crash leaves a state file that stops the next start.
THEOREM FileAlwaysLoads == Spec => []FileLoads
<1>1. IInv => FileLoads
  BY DEF IInv
<1> QED
  BY <1>1, Invariance, PTL

\* Alarmero is only served what survives a restart.
THEOREM ServedAlwaysDurable == Spec => []ServedIsDurable
<1>1. IInv => ServedIsDurable
  BY DEF IInv
<1> QED
  BY <1>1, Invariance, PTL

\* An edge made durable stays until Alarmero confirms it.
THEOREM NoEdgeEverLost == Spec => []NoEdgeLost
<1>1. IInv => NoEdgeLost
  BY DEF IInv, Durable
<1> QED
  BY <1>1, Invariance, PTL

\* The catalogue always agrees with the edges.
THEOREM CatalogueFollowsEdges == Spec => []ConditionFollowsEdges
<1>1. IInv => ConditionFollowsEdges
  BY DEF IInv, Durable
<1> QED
  BY <1>1, Invariance, PTL
\* The end of a save is a step of the log of edges, or changes nothing in it.
LEMMA ReplaceRefines ==
    ASSUME IInv, ~Free, Replace
    PROVE  [Log!Next]_(Log!vars)
<1>1. TypeOK /\ FileLoads /\ Durable
  BY DEF IInv
<1>2. ASSUME NEW a \in Alarms, NEW v \in Values, NEW t \in Instants,
             ObservationUnderWay(a, v, t)
      PROVE  [Log!Next]_(Log!vars)
  <2> DEFINE e == [alarm |-> a, value |-> v, at |-> t]
  <2>1. CASE IsEdge(file, a, v)
    <3>1. emitted' = Append(emitted, e) /\ file'.acked = file.acked
      BY <1>1, <1>2, <2>1, ReplaceEdge
    <3>2. ASSUME NEW i \in 1 .. Len(emitted), emitted[i].alarm = a,
                 Log!IsLast(emitted, i)
          PROVE  emitted[i].value # v
      <4>1. IsLastEdge(emitted, i)
        BY <3>2 DEF IsLastEdge, Log!IsLast
      <4>2. file.conditions[a] = [value |-> emitted[i].value, since |-> emitted[i].at]
        BY <1>1, <3>2, <4>1 DEF Durable, ConditionFollowsEdges
      <4> QED
        BY <1>2, <4>2 DEF ObservationUnderWay
    <3>3. Log!Extends(emitted, e)
      BY <3>2 DEF Log!Extends
    <3>5. e \in Log!Edge
      BY DEF Log!Edge, Values
    <3>6. Log!Emit(e)
      BY <3>1, <3>3 DEF Log!Emit
    <3> QED
      BY <3>5, <3>6 DEF Log!Next
  <2>2. CASE ~IsEdge(file, a, v)
    <3>1. emitted' = emitted /\ file'.acked = file.acked
      BY <1>1, <1>2, <2>2, ReplaceBaseline
    <3> QED
      BY <3>1 DEF Log!vars
  <2> QED
    BY <2>1, <2>2
<1>3. ASSUME NEW n \in Nat, ConfirmationUnderWay(n)
      PROVE  [Log!Next]_(Log!vars)
  <2>1. emitted' = emitted
    BY <1>1, <1>3, ReplaceConfirmation
  <2>2. file'.acked = n
    BY <1>3 DEF ConfirmationUnderWay, Replace, Acknowledged, FileLoads, Loadable, IInv
  <2>3. Log!Confirm(n)
    BY <1>3, <2>1, <2>2 DEF Log!Confirm, ConfirmationUnderWay
  <2>4. n \in 1 .. Len(emitted)
    BY <1>1, <1>3 DEF ConfirmationUnderWay, Durable, NoEdgeLost, FileLoads, Loadable
  <2> QED
    BY <2>3, <2>4 DEF Log!Next
<1> QED
  BY <1>2, <1>3 DEF IInv, ChangeUnderWay

LEMMA StepRefines == IInv /\ [Next]_vars => [Log!Next]_(Log!vars)
<1> SUFFICES ASSUME IInv, [Next]_vars PROVE [Log!Next]_(Log!vars)
  OBVIOUS
<1>1. CASE UNCHANGED <<file, emitted>>
  BY <1>1 DEF Log!vars
<1>2. CASE ~Free /\ Replace
  BY <1>2, ReplaceRefines
<1>3. UNCHANGED <<file, emitted>> \/ (~Free /\ Replace)
  BY DEF Next, vars, Register, Observe, Acknowledge, SaveSucceeds, SaveFails, Crash,
         Start
<1> QED
  BY <1>1, <1>2, <1>3

\* Every behaviour of the outbox, crashes included, is one of the log of
\* alternating edges that Alarmero reads.
THEOREM OutboxImplementsLog == Spec => ImplementsEdgeLog
<1>1. Init => Log!Init
  BY DEF Init, Log!Init, EmptyOutbox
<1>2. Spec => Log!Spec
  BY <1>1, StepRefines, Invariance, PTL DEF Spec, Log!Spec
<1> QED
  BY <1>2 DEF ImplementsEdgeLog
=============================================================================
