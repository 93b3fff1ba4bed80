------------------------------ MODULE Charito ------------------------------
(***************************************************************************)
(* charito-service: the poller that asks every charo-daemon for /metrics   *)
(* (poller.py), the store of their last observations (state.py), the       *)
(* catalogue of watched processes and their alarms (alarm_source.py,       *)
(* process_alarm_service.py) and the retained state (broadcast.py).        *)
(*                                                                         *)
(* An answer is "serving" (valid metrics), "garbled" (2xx and a body, but  *)
(* no metrics) or "off" (no connection; another status or an empty body    *)
(* count as off too).  The targets are fixed, every listed process has its *)
(* running flag, and metrics other than the processes are left out.  The   *)
(* outbox is a map of conditions: its queue is module AlarmOutbox.         *)
(***************************************************************************)
EXTENDS Integers, SequencesExt

CONSTANTS
    Instances,  \* the targets
    Processes,  \* what they may watch ...
    HostOf,     \* ... and where
    MaxChanges, \* bound: changes of hosts and processes
    MaxFaults   \* bound: failed writes and publications, crashes

VARIABLES
    host,       \* how each daemon answers now
    process,    \* each process: "running", "stopped", "unlisted"
    items,      \* StateStore._items
    itemsFile,  \* the state file
    catalog,    \* process-alarm-catalog.json; equal to _processes
    registered, \* the alarms the outbox serves in its catalogue
    alarm,      \* the outbox: condition of each alarm
    signature,  \* _last_state_signature, {} for None
    stateTopic, \* what the broker keeps, {} for nothing
    turn, queue, \* the poller thread, and the targets left in its phase
    changes, faults

charitoVars == <<host, process, items, itemsFile, catalog, registered, alarm,
                 signature, stateTopic, turn, queue, changes, faults>>

Targets == SetToSeq(Instances)
On(i) == {p \in Processes : HostOf[p] = i}

\* An observation: the answer and what it says of the processes of its host.
\* mark_offline changes the entry there is; the list of processes stays in it.
Placeholder == [answer |-> "none", says |-> [p \in {} |-> ""]]

Observation(i) ==
    IF host[i] = "off"
    THEN [items[i] EXCEPT !.answer = "off"]
    ELSE [answer |-> host[i],
          says   |-> [p \in {q \in On(i) : host[i] = "serving" /\ process[q] # "unlisted"}
                        |-> process[p]]]

-----------------------------------------------------------------------------
Init ==
    /\ host \in [Instances -> {"serving", "off"}]
    /\ process \in [Processes -> {"running", "unlisted"}]
    /\ items = [i \in Instances |-> Placeholder] /\ itemsFile = items
    /\ catalog = {} /\ registered = Instances
    /\ alarm = [k \in Instances \cup Processes |-> "unknown"]
    /\ signature = {} /\ stateTopic = {}
    /\ turn = "startup" /\ queue = <<>>
    /\ changes = 0 /\ faults = 0

Fault == faults < MaxFaults /\ faults' = faults + 1

Change ==
    /\ changes < MaxChanges /\ changes' = changes + 1
    /\ \/ /\ \E i \in Instances : \E a \in {"serving", "garbled", "off"} \ {host[i]} :
                 host' = [host EXCEPT ![i] = a]
          /\ UNCHANGED process
       \/ /\ \E p \in Processes : \E s \in {"running", "stopped", "unlisted"} \ {process[p]} :
                 process' = [process EXCEPT ![p] = s]
          /\ UNCHANGED host
    /\ UNCHANGED <<items, itemsFile, catalog, registered, alarm, signature,
                   stateTopic, turn, queue, faults>>

-----------------------------------------------------------------------------
\* _poll_target: an observation replaces the last one.  When the file cannot be
\* written the memory has changed all the same.
PollTarget ==
    /\ turn = "polling"
    /\ items' = [items EXCEPT ![Head(queue)] = Observation(Head(queue))]
    /\ \/ itemsFile' = items' /\ UNCHANGED faults
       \/ Fault /\ UNCHANGED itemsFile
    /\ IF Len(queue) = 1 THEN turn' = "observing" /\ queue' = Targets
                         ELSE queue' = Tail(queue) /\ UNCHANGED turn
    /\ UNCHANGED <<host, process, catalog, registered, alarm, signature,
                   stateTopic, changes>>

\* What an observation makes of the alarm of its daemon and of each process.
DaemonCondition(o) == IF o.answer = "off" THEN "on" ELSE "off"

Listed(o) == IF o.answer = "serving" THEN DOMAIN o.says ELSE {}

ProcessCondition(i, o, p) ==
    CASE o.answer = "off" /\ p \in On(i) \cap catalog -> "off"
      [] p \in Listed(o) -> IF o.says[p] = "stopped" THEN "on" ELSE "off"
      [] OTHER -> alarm[p]

\* A mutant of Observed: the catalogue is not saved.
ObservedUnsaved(i, known, done) ==
    LET o == items[i]
    IN  /\ registered' = registered \cup known
        /\ alarm' = [k \in Instances \cup Processes |->
               IF k = i THEN DaemonCondition(o)
               ELSE IF k \in done THEN ProcessCondition(i, o, k) ELSE alarm[k]]
        /\ UNCHANGED catalog

\* The processes of "known" are in the catalogue, those of "done" observed too.
Observed(i, known, done) ==
    LET o == items[i]
    IN  /\ catalog' = catalog \cup known
        /\ registered' = registered \cup known
        /\ alarm' = [k \in Instances \cup Processes |->
               IF k = i THEN DaemonCondition(o)
               ELSE IF k \in done THEN ProcessCondition(i, o, k) ELSE alarm[k]]

\* CharitoAlarmSource.observe, one instance after the other.
ObserveInstance ==
    /\ turn = "observing"
    /\ LET i == Head(queue)
       IN  IF items[i].answer = "none"
           THEN UNCHANGED <<catalog, registered, alarm>>
           ELSE Observed(i, Listed(items[i]), On(i))
    /\ IF Len(queue) = 1 THEN turn' = "broadcasting" /\ queue' = <<>>
                         ELSE queue' = Tail(queue) /\ UNCHANGED turn
    /\ UNCHANGED <<host, process, items, itemsFile, signature, stateTopic,
                   changes, faults>>

\* The outbox or the catalogue cannot be saved: what came before is kept, and
\* the last process may be in the catalogue and not yet observed.
ObserveFails ==
    /\ turn = "observing" /\ items[Head(queue)].answer # "none"
    /\ Fault
    /\ LET i == Head(queue)
           listed == Listed(items[i])
       IN  \/ UNCHANGED <<catalog, registered, alarm>>
           \/ \E done \in SUBSET On(i) : \E last \in {{}} \cup {{p} : p \in listed} :
                  Observed(i, (done \cap listed) \cup last, done)
    /\ turn' = "waiting" /\ queue' = <<>>
    /\ UNCHANGED <<host, process, items, itemsFile, signature, stateTopic, changes>>

\* broadcast_state: only what changed is published, and remembered as published
\* when the broker confirms it.
Broadcast(after) ==
    /\ turn' = after
    /\ IF signature = {items}
       THEN UNCHANGED <<signature, stateTopic, faults>>
       ELSE /\ signature' = {items} /\ stateTopic' = {items}
            /\ UNCHANGED faults

BroadcastState ==
    /\ turn = "broadcasting"
    /\ Broadcast("waiting")
    /\ UNCHANGED <<host, process, items, itemsFile, catalog, registered, alarm,
                   queue, changes>>

BroadcastFails ==
    /\ turn = "broadcasting" /\ signature # {items}
    /\ Fault
    /\ stateTopic' \in {stateTopic, {items}}
    /\ turn' = "waiting"
    /\ UNCHANGED <<host, process, items, itemsFile, catalog, registered, alarm,
                   signature, queue, changes>>

\* startup_event publishes the stored state; when that fails the service ends.
StartupEvent ==
    /\ turn = "startup"
    /\ Broadcast("waiting")
    /\ UNCHANGED <<host, process, items, itemsFile, catalog, registered, alarm,
                   queue, changes>>

BeginCycle ==
    /\ turn = "waiting"
    /\ turn' = "polling" /\ queue' = Targets
    /\ UNCHANGED <<host, process, items, itemsFile, catalog, registered, alarm,
                   signature, stateTopic, changes, faults>>

\* The process ends at any point and starts again from its three files.
Restart ==
    /\ Fault
    /\ items' = itemsFile
    /\ registered' = Instances \cup catalog
    /\ signature' = {}
    /\ turn' = "startup" /\ queue' = <<>>
    /\ UNCHANGED <<host, process, itemsFile, catalog, alarm, stateTopic, changes>>

Step ==
    \/ BeginCycle \/ PollTarget \/ ObserveInstance \/ ObserveFails
    \/ BroadcastState \/ BroadcastFails \/ StartupEvent

-----------------------------------------------------------------------------
TypeOK ==
    /\ catalog \subseteq Processes /\ registered \subseteq Instances \cup Processes
    /\ alarm \in [Instances \cup Processes -> {"unknown", "off", "on"}]
    /\ \A i \in Instances : items[i].answer \in {"none", "serving", "garbled", "off"}
    /\ turn \in {"startup", "waiting", "polling", "observing", "broadcasting"}

\* Every alarm with a condition is in the catalogue that is served.
Catalogued == \A k \in Instances \cup Processes : alarm[k] # "unknown" => k \in registered

\* A daemon that does not answer has an alarm and its processes have none; one
\* that serves metrics has none, and the processes it lists have the alarm they
\* should.
Agrees ==
    \A i \in Instances :
        /\ alarm[i] = "on" <=> host[i] = "off"
        /\ \A p \in On(i) :
               CASE host[i] = "off" -> alarm[p] # "on"
                 [] host[i] = "serving" /\ process[p] # "unlisted" ->
                        alarm[p] = "on" <=> process[p] = "stopped"
                 [] OTHER -> TRUE

\* The alarm of a process ends when its daemon lists it as running, or is handed
\* over: a daemon that does not answer ends those of its processes, and its own
\* is on from then.  Metrics that cannot be read end none.
HandedOver(p) == items[HostOf[p]].answer = "off" /\ alarm'[HostOf[p]] = "on"

Evidence(p) ==
    LET o == items[HostOf[p]]
    IN  \/ p \in Listed(o) /\ o.says[p] = "running"
        \/ HandedOver(p)
=============================================================================
