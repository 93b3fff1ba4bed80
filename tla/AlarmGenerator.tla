--------------------------- MODULE AlarmGenerator ---------------------------
(***************************************************************************)
(* The value an AlarmGeneratorOutbox keeps (shared/alarm_generator.py) and *)
(* what each of its methods computes from that value.  Every expert        *)
(* service (GRD, generators, modem, Proxmox, Charito) owns one outbox.     *)
(*                                                                         *)
(* An outbox is a record:                                                  *)
(*   next        identifier of the next edge (next_event_id)               *)
(*   acked       last edge confirmed by Alarmero (last_acked_event_id)     *)
(*   conditions  what was observed of each alarm, and since when           *)
(*   events      the undelivered edges, a map from identifier to edge (the *)
(*               code keeps a list in order of identifier)                 *)
(* Subjects and bodies are left out: they never decide a transition.       *)
(***************************************************************************)
EXTENDS Naturals, FiniteSets

CONSTANT Alarms    (* the alarm keys the service may ever register *)

Values == {"off", "on"}

Edge == [alarm : Alarms, value : Values, at : Nat]

\* An alarm never observed has no entry in "conditions": its value is "unknown".
Condition == [value : Values \cup {"unknown"}, since : Nat]

\* The state a service starts with when it has no state file.
EmptyOutbox ==
    [next       |-> 1,
     acked      |-> 0,
     conditions |-> [a \in Alarms |-> [value |-> "unknown", since |-> 0]],
     events     |-> [i \in {} |-> 0]]

\* What _load demands of a state file; anything else stops the service.  The
\* edges are numbered from acked + 1 to next - 1 without a hole.
Loadable(o) ==
    /\ o.next \in Nat \ {0}
    /\ o.acked \in Nat
    /\ o.acked < o.next
    /\ o.conditions \in [Alarms -> Condition]
    /\ o.events \in [(o.acked + 1) .. (o.next - 1) -> Edge]

-----------------------------------------------------------------------------
\* Mutants of the operators below.

ObservedForgetsCondition(o, a, v, at) ==
    IF o.conditions[a].value = v
    THEN o
    ELSE [o EXCEPT !.next = @ + 1,
                   !.events = [i \in DOMAIN o.events \cup {o.next} |->
                                 IF i = o.next
                                 THEN [alarm |-> a, value |-> v, at |-> at]
                                 ELSE o.events[i]]]

AcknowledgedWithoutPruning(o, through) ==
    IF through <= o.acked THEN o ELSE [o EXCEPT !.acked = through]

AcknowledgedDropsAll(o, through) ==
    IF through <= o.acked
    THEN o
    ELSE [o EXCEPT !.acked = through, !.events = [i \in {} |-> 0]]

-----------------------------------------------------------------------------
\* The first observation of an inactive alarm is a baseline, not an edge.
IsEdge(o, a, v) ==
    /\ o.conditions[a].value # v
    /\ \/ o.conditions[a].value # "unknown"
       \/ v = "on"

Observed(o, a, v, at) ==
    IF o.conditions[a].value = v
    THEN o
    ELSE [next       |-> IF IsEdge(o, a, v) THEN o.next + 1 ELSE o.next,
          acked      |-> o.acked,
          conditions |-> [o.conditions EXCEPT ![a] = [value |-> v, since |-> at]],
          events     |-> IF IsEdge(o, a, v)
                         THEN [i \in DOMAIN o.events \cup {o.next} |->
                                 IF i = o.next
                                 THEN [alarm |-> a, value |-> v, at |-> at]
                                 ELSE o.events[i]]
                         ELSE o.events]

\* An identifier already confirmed changes nothing; one never emitted is an
\* error (HTTP 422).
AckAccepted(o, through) == through < o.next

Acknowledged(o, through) ==
    IF through <= o.acked
    THEN o
    ELSE [next       |-> o.next,
          acked      |-> through,
          conditions |-> o.conditions,
          events     |-> [i \in {j \in DOMAIN o.events : j > through} |-> o.events[i]]]

\* GET /events: the first "limit" edges after a cursor.
EventsAfter(o, cursor, limit) ==
    LET available == {i \in DOMAIN o.events : i > cursor}
        selected  == {i \in available :
                        Cardinality({j \in available : j < i}) < limit}
    IN  [events   |-> [i \in selected |-> o.events[i]],
         has_more |-> selected # available]

\* GET /catalog: the registered alarms with their observed condition.
CatalogSnapshot(registered, o) == [a \in registered |-> o.conditions[a]]
=============================================================================
