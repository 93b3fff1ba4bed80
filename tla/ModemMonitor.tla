---------------------------- MODULE ModemMonitor ----------------------------
(***************************************************************************)
(* modem-link-monitor: the loop that asks for an external check of the     *)
(* router's port, asks the GRD collector for its percentage, persists the  *)
(* state, feeds the alarm modem:link and publishes a retained state        *)
(* (app.py, alarm_source.py, state_store.py, mqtt_publisher.py).           *)
(*                                                                         *)
(* The verdict of a check is the state of the port or "desconocido"        *)
(* (globalping_probe.py and tcp_probe.py say when); the percentage is on   *)
(* either side of the threshold and may move between two requests (GET     *)
(* /api/grd/summary is computed at once from the table of module           *)
(* GrdCollector).  The outbox is the condition it keeps: its queue of      *)
(* edges is module AlarmOutbox.                                            *)
(***************************************************************************)
EXTENDS Naturals

CONSTANTS
    MaxChanges, \* bound: changes of the port and of the percentage
    MaxFaults   \* bound: unknown checks, failed requests and writes, crashes

States == {"abierto", "cerrado", "desconocido"}

VARIABLES
    port,      \* what the port really is
    zone,      \* the collector's percentage: "red" or "fine"
    loop,      \* where _monitor_loop is
    verdict,   \* "state" of the check in progress
    percentage, \* connectivity_percentage of it: "none", "red" or "fine"
    memory,    \* ConnectionState._state["state"]
    file,      \* the same in connection-state.json
    healthy,   \* _healthy_observations; 2 stands for two or more
    before,    \* history: the last check the alarm was told of was healthy
    link,      \* the outbox: condition of modem:link
    published, \* _last_published, "none" for None
    topic,     \* what the broker keeps, "none" for nothing
    changes, faults

modemVars == <<port, zone, loop, verdict, percentage, memory, file, healthy,
               before, link, published, topic, changes, faults>>

Init ==
    /\ port \in {"abierto", "cerrado"} /\ zone \in {"red", "fine"}
    /\ loop = "asleep" /\ verdict = "desconocido" /\ percentage = "none"
    /\ memory = "desconocido" /\ file = "none"
    /\ healthy = 0 /\ before = FALSE
    /\ link = "unknown"
    /\ published = "none" /\ topic = "none"
    /\ changes = 0 /\ faults = 0

Fault == faults < MaxFaults /\ faults' = faults + 1

Move ==
    /\ changes < MaxChanges /\ changes' = changes + 1
    /\ \/ port' \in {"abierto", "cerrado"} \ {port} /\ UNCHANGED zone
       \/ zone' \in {"red", "fine"} \ {zone} /\ UNCHANGED port
    /\ UNCHANGED <<loop, verdict, percentage, memory, file, healthy, before, link,
                   published, topic, faults>>

-----------------------------------------------------------------------------
\* _monitor_loop, one step for each of its calls.
Check ==
    /\ loop = "asleep"
    /\ \/ verdict' = port /\ UNCHANGED faults
       \/ verdict' = "desconocido" /\ Fault
    /\ percentage' = "none"
    /\ loop' = IF verdict' = "abierto" THEN "checked" ELSE "queried"
    /\ UNCHANGED <<port, zone, memory, file, healthy, before, link, published, topic,
                   changes>>

\* The percentage is asked for only when the port is open; a failed request
\* leaves it unknown.
Query ==
    /\ loop = "checked"
    /\ \/ percentage' = zone /\ UNCHANGED faults
       \/ percentage' = "none" /\ Fault
    /\ loop' = "queried"
    /\ UNCHANGED <<port, zone, verdict, memory, file, healthy, before, link, published,
                   topic, changes>>

Save ==
    /\ loop = "queried"
    /\ memory' = verdict /\ file' = verdict
    /\ loop' = "saved"
    /\ UNCHANGED <<port, zone, verdict, percentage, healthy, before, link, published,
                   topic, changes, faults>>

\* The file cannot be written: memory has changed, and the rest of the pass is
\* left out.
SaveFails ==
    /\ loop = "queried"
    /\ Fault
    /\ memory' = verdict
    /\ loop' = "asleep"
    /\ UNCHANGED <<port, zone, verdict, percentage, file, healthy, before, link,
                   published, topic, changes>>

\* ModemAlarmSource.observe: what becomes of the counter of healthy checks ...
Healthy == verdict = "abierto" /\ percentage = "fine"

\* A mutant of Counted: a check without a verdict leaves the counter as it is.
CountedThroughUnknown ==
    IF verdict = "desconocido" THEN healthy
    ELSE IF ~Healthy THEN 0
    ELSE IF link = "off" \/ healthy = 2 THEN healthy ELSE healthy + 1

Counted ==
    IF ~Healthy THEN 0
    ELSE IF link = "off" \/ healthy = 2 THEN healthy ELSE healthy + 1

\* ... and of the condition.
Concluded ==
    CASE verdict = "cerrado"                   -> "on"
      [] Healthy /\ link # "off" /\ Counted = 2 -> "off"
      [] OTHER                                  -> link

Observe ==
    /\ loop = "saved"
    /\ healthy' = Counted /\ link' = Concluded /\ before' = Healthy
    /\ loop' = "observed"
    /\ UNCHANGED <<port, zone, verdict, percentage, memory, file, published, topic,
                   changes, faults>>

\* The outbox cannot be saved; the counter has changed.
ObserveFails ==
    /\ loop = "saved" /\ Concluded # link
    /\ Fault
    /\ healthy' = Counted /\ before' = Healthy
    /\ loop' = "asleep"
    /\ UNCHANGED <<port, zone, verdict, percentage, memory, file, link, published, topic, changes>>

\* Only a state other than the last one published is published.
Publish ==
    /\ loop = "observed"
    /\ published' = verdict
    /\ topic' = IF verdict # published THEN verdict ELSE topic
    /\ loop' = "asleep"
    /\ UNCHANGED <<port, zone, verdict, percentage, memory, file, healthy, before, link,
                   changes, faults>>

\* A publication that is not confirmed may have reached the broker, and is
\* followed by one of "desconocido", which may reach it too.
PublishFails ==
    /\ loop = "observed" /\ verdict # published
    /\ Fault
    /\ topic' \in {topic, verdict, "desconocido"}
    /\ loop' = "asleep"
    /\ UNCHANGED <<port, zone, verdict, percentage, memory, file, healthy, before, link,
                   published, changes>>

\* The process ends at any point and starts again: ConnectionState loads the
\* file, the outbox its own, the counter and the last publication are lost.
Restart ==
    /\ Fault
    /\ memory' = IF file = "none" THEN "desconocido" ELSE file
    /\ healthy' = 0 /\ before' = FALSE /\ published' = "none"
    /\ loop' = "asleep" /\ verdict' = "desconocido" /\ percentage' = "none"
    /\ UNCHANGED <<port, zone, file, link, topic, changes>>

Step ==
    \/ Check \/ Query \/ Save \/ SaveFails \/ Observe \/ ObserveFails
    \/ Publish \/ PublishFails

-----------------------------------------------------------------------------
TypeOK ==
    /\ port \in {"abierto", "cerrado"} /\ zone \in {"red", "fine"}
    /\ loop \in {"asleep", "checked", "queried", "saved", "observed"}
    /\ {verdict, memory} \subseteq States /\ percentage \in {"none", "red", "fine"}
    /\ {file, published, topic} \subseteq States \cup {"none"}
    /\ healthy \in 0 .. 2 /\ before \in BOOLEAN
    /\ link \in {"unknown", "off", "on"}

\* The alarm follows the port, and stays while the percentage is red.
Agrees ==
    IF port = "cerrado" THEN link = "on" ELSE link = "on" => zone = "red"

\* An alarm is over when this check and the one before found the port open and
\* the percentage out of the red zone.  A check without a verdict or without a
\* percentage is one that did not; a pass cut short before the alarm is no check.
Evidence == Healthy /\ before
=============================================================================
