---------------------------- MODULE GrdCollector ----------------------------
(***************************************************************************)
(* grd-collector-service: the monitor thread that reads bit 0 of every     *)
(* GRD, persists confirmed transitions, publishes two retained snapshots   *)
(* and feeds the outbox modbus-exemys (server_mb_middleware.py,            *)
(* latest_state_registry.py, grd_service.py, services/alarm_generator.py), *)
(* and the supervisor that starts it again after an error (bootstrap.py).  *)
(*                                                                         *)
(* The table grd is edited by hand and taken as constant; time stamps and  *)
(* the counts of failed readings, which decide no transition, are left     *)
(* out.  The outbox is a map from alarm to observed condition: its queue   *)
(* of edges is module AlarmOutbox.                                         *)
(***************************************************************************)
EXTENDS Integers, FiniteSets, SequencesExt

CONSTANTS
    Grds,       \* the active rows of table grd
    RedBelow,   \* GLOBAL_THRESHOLD_ROJO, a percentage
    MaxChanges, \* bound: changes of the equipment
    MaxFaults   \* bound: failed writes, publications and connections, crashes

Global == "exemys:global-red"
Keys == Grds \cup {Global}
Order == SetToSeq(Grds)
Topics == {"grado", "grds"}

VARIABLES
    line,      \* what each GRD would answer now; "silent": nothing
    db,        \* grd_estado_actual: the last confirmed state
    states,    \* LatestStateRegistry._states
    failures,  \* LatestStateRegistry._failures: the GRD whose reading failed
    socket,    \* ModbusTcpReadOnlyDriver._connected
    sent,      \* _last_payload_grado and _last_payload_down, {} for None
    retained,  \* what the broker keeps for each topic, {} for nothing
    condition, \* the outbox: condition observed of each alarm
    pc, todo,  \* the monitor thread, and the GRD left to read
    publish,   \* whether this cycle publishes
    changes, faults

grdVars == <<line, db, states, failures, socket, sent, retained, condition,
             pc, todo, publish, changes, faults>>

-----------------------------------------------------------------------------
\* GrdService.summary(): from the rows and from the failed readings.  The
\* percentage is rounded to two decimals, which with a whole threshold decides
\* nothing below two hundred GRD.
Known == {g \in Grds : db[g] # "unread"}
Up == {g \in Grds : db[g] = "up"}
Unavailable == failures \cup (Grds \ Known)
Disconnected == {g \in Grds : db[g] = "down"} \ Unavailable
Red == Known = {} \/ 100 * Cardinality(Up) < RedBelow * Cardinality(Known)

Snapshot ==
    [grado |-> {<<Cardinality(Up), Cardinality(Known), Cardinality(Unavailable)>>},
     grds  |-> {Disconnected}]

\* What observe_grd_snapshot makes of a summary.  With any GRD unavailable the
\* global condition stays as it was last observed.
GlobalObserved ==
    IF Unavailable # {} THEN condition[Global] ELSE IF Red THEN "on" ELSE "off"

GrdObserved(g) ==
    IF g \in Unavailable
    THEN condition[g]
    ELSE IF g \notin Disconnected
         THEN "off"
         ELSE IF GlobalObserved # "on" THEN "on" ELSE condition[g]

Observed(k) == IF k = Global THEN GlobalObserved ELSE GrdObserved(k)

-----------------------------------------------------------------------------
Init ==
    /\ line \in [Grds -> {"up", "down", "silent"}]
    /\ db = [g \in Grds |-> "unread"]
    /\ states = db
    /\ failures = {}
    /\ socket = FALSE
    /\ sent = [t \in Topics |-> {}]
    /\ retained = sent
    /\ condition = [k \in Keys |-> "unknown"]
    /\ pc = "starting" /\ todo = <<>> /\ publish = TRUE
    /\ changes = 0 /\ faults = 0

Fault == faults < MaxFaults /\ faults' = faults + 1

\* The equipment answers something else, or stops answering.
Change(g) ==
    /\ changes < MaxChanges
    /\ \E v \in {"up", "down", "silent"} \ {line[g]} : line' = [line EXCEPT ![g] = v]
    /\ changes' = changes + 1
    /\ UNCHANGED <<db, states, failures, socket, sent, retained, condition,
                   pc, todo, publish, faults>>

-----------------------------------------------------------------------------
\* Mutants of the actions below.
ReadStateKeepsFailure ==
    /\ pc = "reading"
    /\ LET g == Head(todo)
       IN  /\ line[g] # "silent"
           /\ db' = IF line[g] = states[g] THEN db ELSE [db EXCEPT ![g] = line[g]]
           /\ states' = [states EXCEPT ![g] = line[g]]
           /\ publish' = (publish \/ line[g] # states[g])
    /\ todo' = Tail(todo)
    /\ pc' = IF Tail(todo) = <<>> THEN "publishing" ELSE "reading"
    /\ UNCHANGED <<line, failures, socket, sent, retained, condition, changes, faults>>

RecordFailsRemembered ==
    /\ pc = "reading"
    /\ line[Head(todo)] \notin {"silent", states[Head(todo)]}
    /\ faults < MaxFaults /\ faults' = faults + 1
    /\ failures' = failures \ {Head(todo)}
    /\ states' = [states EXCEPT ![Head(todo)] = line[Head(todo)]]
    /\ pc' = "failed"
    /\ UNCHANGED <<line, db, socket, sent, retained, condition, todo, publish, changes>>

-----------------------------------------------------------------------------
\* _run_cycle.  A connection is asked for only when the last answer left none.
BeginCycle ==
    /\ pc \in {"idle", "watched"}
    /\ socket' = TRUE
    /\ pc' = "reading" /\ todo' = Order
    /\ publish' = (failures # {} \/ \E t \in Topics : sent[t] = {})
    /\ UNCHANGED <<line, db, states, failures, sent, retained, condition,
                   changes, faults>>

ConnectFails ==
    /\ pc \in {"idle", "watched"} /\ ~socket
    /\ Fault
    /\ failures' = Grds
    /\ pc' = "publishing" /\ publish' = TRUE
    /\ UNCHANGED <<line, db, states, socket, sent, retained, condition, todo, changes>>

AfterRead(rest) ==
    /\ todo' = rest
    /\ pc' = IF rest = <<>> THEN "publishing" ELSE "reading"

\* A valid reading; a state other than the known one is first persisted.
ReadState ==
    /\ pc = "reading"
    /\ LET g == Head(todo)
       IN  /\ line[g] # "silent"
           /\ failures' = failures \ {g}
           /\ db' = IF line[g] = states[g] THEN db ELSE [db EXCEPT ![g] = line[g]]
           /\ states' = [states EXCEPT ![g] = line[g]]
           /\ publish' = (publish \/ line[g] # states[g])
    /\ AfterRead(Tail(todo))
    /\ UNCHANGED <<line, socket, sent, retained, condition, changes, faults>>

\* record_transition fails: the cycle ends with an exception.
RecordFails ==
    /\ pc = "reading"
    /\ line[Head(todo)] \notin {"silent", states[Head(todo)]}
    /\ Fault
    /\ failures' = failures \ {Head(todo)}
    /\ pc' = "failed"
    /\ UNCHANGED <<line, db, states, socket, sent, retained, condition, todo,
                   publish, changes>>

\* A reading that fails leaves no connection: the transport closes its socket
\* after the last attempt and says so, and an HTTP error counts as one.  The
\* cycle gives up the GRD that follow and marks them unavailable as well.
ReadFails ==
    /\ pc = "reading"
    /\ \/ line[Head(todo)] = "silent" /\ UNCHANGED faults
       \/ line[Head(todo)] # "silent" /\ Fault
    /\ failures' = failures \cup ToSet(todo)
    /\ socket' = FALSE
    /\ publish' = TRUE
    /\ AfterRead(<<>>)
    /\ UNCHANGED <<line, db, states, sent, retained, condition, changes>>

\* _publish_snapshots_if_changed: each topic on its own; a publication that is
\* not confirmed may or may not have reached the broker.
Stale == {t \in Topics : sent[t] # Snapshot[t]}

PublishSnapshots(after) ==
    \E confirmed \in SUBSET Stale : \E reached \in SUBSET (Stale \ confirmed) :
        /\ sent' = [t \in Topics |-> IF t \in confirmed THEN Snapshot[t] ELSE sent[t]]
        /\ retained' = [t \in Topics |-> IF t \in confirmed \cup reached
                                         THEN Snapshot[t] ELSE retained[t]]
        /\ IF confirmed = Stale THEN UNCHANGED faults ELSE Fault
        /\ pc' = after

\* start_observer_loop publishes before its first cycle.
Start ==
    /\ pc = "starting"
    /\ PublishSnapshots("idle")
    /\ UNCHANGED <<line, db, states, failures, socket, condition, todo, publish, changes>>

Publish ==
    /\ pc = "publishing"
    /\ IF publish THEN PublishSnapshots("observing")
                  ELSE pc' = "observing" /\ UNCHANGED <<sent, retained, faults>>
    /\ UNCHANGED <<line, db, states, failures, socket, condition, todo, publish, changes>>

\* observe_grd_snapshot: every alarm is persisted on its own, the global first.
Observe ==
    /\ pc = "observing"
    /\ condition' = [k \in Keys |-> Observed(k)]
    /\ pc' = "watched"
    /\ UNCHANGED <<line, db, states, failures, socket, sent, retained, todo,
                   publish, changes, faults>>

\* The outbox cannot be saved: the alarms before are observed, the rest not.
ObserveFails ==
    /\ pc = "observing"
    /\ Fault
    /\ \E n \in 0 .. Len(Order) :
           condition' = [k \in Keys |->
               IF n > 0 /\ (k = Global \/ k \in ToSet(SubSeq(Order, 1, n - 1)))
               THEN Observed(k) ELSE condition[k]]
    /\ pc' = "failed"
    /\ UNCHANGED <<line, db, states, failures, socket, sent, retained, todo, publish, changes>>

\* GrdOrchestrator._run starts the loop again, with the same objects.
StartAgain ==
    /\ pc = "failed"
    /\ pc' = "starting"
    /\ UNCHANGED <<line, db, states, failures, socket, sent, retained, condition,
                   todo, publish, changes, faults>>

\* The process ends at any point; the next one reads the states from the table.
Restart ==
    /\ Fault
    /\ states' = db
    /\ failures' = {}
    /\ socket' = FALSE
    /\ sent' = [t \in Topics |-> {}]
    /\ pc' = "starting" /\ todo' = <<>> /\ publish' = TRUE
    /\ UNCHANGED <<line, db, retained, condition, changes>>

MonitorStep ==
    \/ BeginCycle \/ ConnectFails \/ ReadState \/ RecordFails \/ ReadFails
    \/ Start \/ Publish \/ Observe \/ ObserveFails \/ StartAgain

-----------------------------------------------------------------------------
TypeOK ==
    /\ line \in [Grds -> {"up", "down", "silent"}]
    /\ db \in [Grds -> {"up", "down", "unread"}] /\ states = db
    /\ failures \subseteq Grds
    /\ condition \in [Keys -> {"unknown", "off", "on"}]
    /\ pc \in {"starting", "idle", "reading", "publishing", "observing", "watched", "failed"}

\* Once everything answers, the global alarm says whether the percentage is
\* red, what works has no alarm, and an outage is told of by its own alarm or
\* by the global one.
Agrees ==
    (\A g \in Grds : line[g] # "silent") =>
        /\ condition[Global] = "on" <=> Red
        /\ \A g \in Grds :
               IF line[g] = "up" THEN condition[g] = "off"
               ELSE condition[g] = "on" \/ condition[Global] = "on"

\* The alarm of a GRD is over when its last valid reading says it is connected
\* and no reading failed since.
Evidence(g) == db[g] = "up" /\ g \notin failures
=============================================================================
