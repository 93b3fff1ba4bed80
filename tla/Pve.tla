-------------------------------- MODULE Pve --------------------------------
(***************************************************************************)
(* pve-service: the poller that asks Proxmox for its virtual machines      *)
(* (poller.py, collector.py), the stored snapshot and the history          *)
(* (repository.py, history.py), the alarms (alarm_source.py) and the       *)
(* retained snapshot, published every so many cycles (mqtt_pub.py).        *)
(*                                                                         *)
(* A snapshot is when it was taken and the state of each machine; metrics, *)
(* disks and the length of the history are left out.  The outbox is a map  *)
(* of conditions: its queue is module AlarmOutbox.                         *)
(***************************************************************************)
EXTENDS Integers, SequencesExt

CONSTANTS
    Vms,          \* PVE_VHOST_IDS
    PublishEvery, \* PVE_MQTT_PUBLISH_FACTOR
    MaxChanges,   \* bound: changes of hypervisor and machines
    MaxFaults,    \* bound: failed requests, writes and publications, crashes
    MaxTime       \* bound: the clock, which never goes back

VARIABLES
    hypervisor, \* whether the API answers
    vm,         \* each machine: "running", "stopped"; "missing" from the list
    clock,
    stored,     \* the snapshot of the repository, in memory and in its file
    last,       \* Poller._last_successful_snapshot
    current,    \* the snapshot of the cycle, of an offline source when it failed
    vmAlarm, hostAlarm, \* the outbox; of the host, the condition and since when
    offline,    \* _last_collection_error is set
    counter,    \* publish_counter
    pveTopic,   \* what the broker keeps, Never for nothing
    step,       \* the poller thread
    changes, faults

pveVars == <<hypervisor, vm, clock, stored, last, current, vmAlarm, hostAlarm,
             offline, counter, pveTopic, step, changes, faults>>

\* A machine absent from the list has no row; its state reads "sin datos".
Never == [status |-> "none", at |-> 0, vms |-> [v \in Vms |-> "missing"]]
Taken == [status |-> "online", at |-> clock, vms |-> vm]

\* What is left of the last success when a collection fails.
Outage ==
    [status |-> "offline", at |-> IF last = Never THEN clock ELSE last.at, vms |-> last.vms]

Init ==
    /\ hypervisor \in {"up", "down"}
    /\ vm \in [Vms -> {"running", "stopped"}]
    /\ clock = 1
    /\ stored = Never /\ last = Never /\ current = Never
    /\ vmAlarm = [v \in Vms |-> "unknown"]
    /\ hostAlarm = [value |-> "unknown", since |-> 0]
    /\ offline = FALSE
    /\ counter = PublishEvery /\ pveTopic = Never
    /\ step = "asleep"
    /\ changes = 0 /\ faults = 0

Fault == faults < MaxFaults /\ faults' = faults + 1

Change ==
    /\ changes < MaxChanges /\ changes' = changes + 1
    /\ \/ hypervisor' \in {"up", "down"} \ {hypervisor} /\ UNCHANGED vm
       \/ /\ \E v \in Vms : \E s \in {"running", "stopped", "missing"} \ {vm[v]} :
                 vm' = [vm EXCEPT ![v] = s]
          /\ UNCHANGED hypervisor
    /\ UNCHANGED <<clock, stored, last, current, vmAlarm, hostAlarm, offline,
                   counter, pveTopic, step, faults>>

Tick ==
    /\ clock < MaxTime /\ clock' = clock + 1
    /\ UNCHANGED <<hypervisor, vm, stored, last, current, vmAlarm, hostAlarm,
                   offline, counter, pveTopic, step, changes, faults>>

-----------------------------------------------------------------------------
HostObserved(value, at) ==
    IF hostAlarm.value = value THEN hostAlarm ELSE [value |-> value, since |-> at]

VmCondition(v) == IF current.vms[v] = "running" THEN "off" ELSE "on"

\* Mutants of the actions below.
CollectForgetsLast ==
    /\ step = "asleep" /\ hypervisor = "up"
    /\ current' = Taken
    /\ step' = "collected"
    /\ UNCHANGED <<hypervisor, vm, clock, stored, last, vmAlarm, hostAlarm,
                   offline, counter, pveTopic, changes, faults>>

\* collect(): the snapshot is the last successful one before it is handled.
Collect ==
    /\ step = "asleep" /\ hypervisor = "up"
    /\ current' = Taken /\ last' = Taken
    /\ step' = "collected"
    /\ UNCHANGED <<hypervisor, vm, clock, stored, vmAlarm, hostAlarm, offline,
                   counter, pveTopic, changes, faults>>

CollectFails ==
    /\ step = "asleep"
    /\ \/ hypervisor = "down" /\ UNCHANGED faults
       \/ hypervisor = "up" /\ Fault
    /\ step' = "failed"
    /\ UNCHANGED <<hypervisor, vm, clock, stored, last, current, vmAlarm,
                   hostAlarm, offline, counter, pveTopic, changes>>

\* _handle_snapshot: the repository, the history and the alarms in this order.
Store ==
    /\ step = "collected"
    /\ stored' = current
    /\ step' = "stored"
    /\ UNCHANGED <<hypervisor, vm, clock, last, current, vmAlarm, hostAlarm,
                   offline, counter, pveTopic, changes, faults>>

Observe ==
    /\ step = "stored"
    /\ hostAlarm' = HostObserved("off", current.at)
    /\ vmAlarm' = [v \in Vms |-> VmCondition(v)]
    /\ offline' = FALSE
    /\ step' = "handled"
    /\ UNCHANGED <<hypervisor, vm, clock, stored, last, current, counter,
                   pveTopic, changes, faults>>

\* An error in any of the three is taken for a failure of the collection.
StoreFails ==
    /\ step \in {"collected", "stored"}
    /\ Fault
    /\ step' = "failed"
    /\ UNCHANGED <<hypervisor, vm, clock, stored, last, current, vmAlarm,
                   hostAlarm, offline, counter, pveTopic, changes>>

ObserveFails ==
    /\ step = "stored"
    /\ Fault
    /\ hostAlarm' = HostObserved("off", current.at)
    /\ \E done \in SUBSET Vms :
           vmAlarm' = [v \in Vms |-> IF v \in done THEN VmCondition(v) ELSE vmAlarm[v]]
    /\ step' = "failed"
    /\ UNCHANGED <<hypervisor, vm, clock, stored, last, current, offline, counter,
                   pveTopic, changes>>

\* _handle_collection_failure: the outage is dated like the last success, now
\* when there is none; the machines keep their alarms.
HandleFailure ==
    /\ step = "failed"
    /\ current' = Outage
    /\ hostAlarm' = HostObserved("on", Outage.at)
    /\ offline' = TRUE
    /\ step' = "handled"
    /\ UNCHANGED <<hypervisor, vm, clock, stored, last, vmAlarm, counter,
                   pveTopic, changes, faults>>

HandleFailureFails ==
    /\ step = "failed"
    /\ Fault
    /\ current' = Outage
    /\ step' = "handled"
    /\ UNCHANGED <<hypervisor, vm, clock, stored, last, vmAlarm, hostAlarm,
                   offline, counter, pveTopic, changes>>

\* The end of a cycle.  Five attempts without a confirmation, any of which may
\* have reached the broker, give the publication up for PublishEvery cycles.
Publish ==
    /\ step = "handled"
    /\ IF counter > 1
       THEN counter' = counter - 1 /\ UNCHANGED <<pveTopic, faults>>
       ELSE /\ counter' = PublishEvery
            /\ \/ pveTopic' = current /\ UNCHANGED faults
               \/ pveTopic' \in {current, pveTopic} /\ Fault
    /\ step' = "asleep"
    /\ UNCHANGED <<hypervisor, vm, clock, stored, last, current, vmAlarm,
                   hostAlarm, offline, changes>>

\* The process ends at any point; the next starts from the stored snapshot.
Restart ==
    /\ Fault
    /\ last' = stored /\ current' = Never
    /\ offline' = FALSE
    /\ counter' = PublishEvery
    /\ step' = "asleep"
    /\ UNCHANGED <<hypervisor, vm, clock, stored, vmAlarm, hostAlarm, pveTopic, changes>>

Step ==
    \/ Collect \/ CollectFails \/ Store \/ StoreFails \/ Observe \/ ObserveFails
    \/ HandleFailure \/ HandleFailureFails \/ Publish

-----------------------------------------------------------------------------
TypeOK ==
    /\ {stored.at, last.at, current.at, pveTopic.at} \subseteq 0 .. clock
    /\ stored.status \in {"none", "online"}
    /\ vmAlarm \in [Vms -> {"unknown", "off", "on"}]
    /\ hostAlarm \in [value : {"unknown", "off", "on"}, since : 0 .. clock]
    /\ counter \in 1 .. PublishEvery
    /\ step \in {"asleep", "collected", "stored", "failed", "handled"}

\* The alarm of the host follows the API, and while it answers the alarm of
\* each machine follows the machine.
Agrees ==
    /\ hostAlarm.value = "on" <=> hypervisor = "down"
    /\ hypervisor = "up" => \A v \in Vms : vmAlarm[v] = "off" <=> vm[v] = "running"

\* The alarms are over when the cycle has a snapshot of an answering host, in
\* which the machine runs.
HostEvidence == current.status = "online"
Evidence(v) == HostEvidence /\ current.vms[v] = "running"

TopicCurrent ==
    IF hypervisor = "up" THEN pveTopic.status = "online" /\ pveTopic.vms = vm
    ELSE pveTopic.status = "offline"
=============================================================================
