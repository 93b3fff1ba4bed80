------------------------------ MODULE Services ------------------------------
(***************************************************************************)
(* The services that watch equipment and raise alarms: GRD, modem,         *)
(* Charito, Proxmox and the generators.  They are processes of their own   *)
(* that share neither memory nor files; the percentage the modem monitor   *)
(* asks for is a variable of its environment.  One behaviour therefore     *)
(* follows one service, chosen in the initial state, and the others stand  *)
(* still: what each promises is checked in the same words without          *)
(* multiplying their states.                                               *)
(***************************************************************************)
EXTENDS Integers, FiniteSets

CONSTANTS Grds, RedBelow, Instances, Processes, HostOf, Vms, PublishEvery,
          Gensets, GroupShown, MaxChanges, MaxFaults, MaxTime

VARIABLES
    service, \* the one that is followed
    line, db, states, failures, socket, sent, retained, condition, pc, todo, publish,
    port, zone, loop, verdict, percentage, memory, file, healthy, before, link,
    published, topic,
    host, process, items, itemsFile, catalog, registered, alarm, signature, stateTopic,
    turn, queue,
    hypervisor, vm, clock, stored, last, current, vmAlarm, hostAlarm, offline, counter,
    pveTopic, step,
    breakers, gauges, running, told, genTopic, echoed, worker,
    changes, faults

Grd == INSTANCE GrdCollector
Modem == INSTANCE ModemMonitor
Charo == INSTANCE Charito
Proxmox == INSTANCE Pve
Genset == INSTANCE Generators

\* An alarm is of one equipment only: the keys of the outboxes have prefixes.  A
\* cycle of the GRD goes no further without an active row, Charito does not start
\* without targets (config.py), and Poller takes max(1, publish_every).
ASSUME ServicesAssumption ==
    /\ IsFiniteSet(Grds) /\ Grds # {} /\ Grd!Global \notin Grds
    /\ IsFiniteSet(Instances) /\ Instances # {} /\ Instances \cap Processes = {}
    /\ PublishEvery \in Nat \ {0}

ofGrd == <<line, db, states, failures, socket, sent, retained, condition, pc, todo, publish>>
ofModem == <<port, zone, loop, verdict, percentage, memory, file, healthy, before, link,
             published, topic>>
ofCharito == <<host, process, items, itemsFile, catalog, registered, alarm, signature,
               stateTopic, turn, queue>>
ofPve == <<hypervisor, vm, clock, stored, last, current, vmAlarm, hostAlarm, offline,
           counter, pveTopic, step>>
ofGenset == <<breakers, gauges, running, told, genTopic, echoed, worker>>
vars == <<service, ofGrd, ofModem, ofCharito, ofPve, ofGenset, changes, faults>>

Names == {"grd", "modem", "charito", "pve", "genset"}

\* The environment of the services that are not followed is one of many.
Init ==
    /\ service \in Names
    /\ Grd!Init /\ (service # "grd" => line = [g \in Grds |-> "up"])
    /\ Modem!Init /\ (service # "modem" => port = "abierto" /\ zone = "fine")
    /\ Charo!Init /\ (service # "charito" =>
                          /\ host = [i \in Instances |-> "serving"]
                          /\ process = [p \in Processes |-> "running"])
    /\ Proxmox!Init /\ (service # "pve" =>
                          hypervisor = "up" /\ vm = [v \in Vms |-> "running"])
    /\ Genset!Init

GrdOnly == service = "grd" /\ UNCHANGED <<service, ofModem, ofCharito, ofPve, ofGenset>>
ModemOnly == service = "modem" /\ UNCHANGED <<service, ofGrd, ofCharito, ofPve, ofGenset>>
CharitoOnly == service = "charito" /\ UNCHANGED <<service, ofGrd, ofModem, ofPve, ofGenset>>
PveOnly == service = "pve" /\ UNCHANGED <<service, ofGrd, ofModem, ofCharito, ofGenset>>
GensetOnly == service = "genset" /\ UNCHANGED <<service, ofGrd, ofModem, ofCharito, ofPve>>

\* What each service does by itself ...
GrdRuns == GrdOnly /\ Grd!MonitorStep
ModemRuns == ModemOnly /\ Modem!Step
CharitoRuns == CharitoOnly /\ Charo!Step
PveRuns == PveOnly /\ Proxmox!Step
GensetRuns(g) == GensetOnly /\ Genset!Step(g)

\* ... and what happens to it.
GrdSuffers == GrdOnly /\ (Grd!Restart \/ \E g \in Grds : Grd!Change(g))
ModemSuffers == ModemOnly /\ (Modem!Restart \/ Modem!Move)
CharitoSuffers == CharitoOnly /\ (Charo!Restart \/ Charo!Change)
PveSuffers == PveOnly /\ (Proxmox!Restart \/ Proxmox!Change \/ Proxmox!Tick)
GensetSuffers ==
    GensetOnly /\ (Genset!Restart \/ \E g \in Gensets : Genset!Move(g) \/ Genset!WriteFails(g))

Next ==
    \/ GrdRuns \/ ModemRuns \/ CharitoRuns \/ PveRuns
    \/ \E g \in Gensets : GensetRuns(g)
    \/ GrdSuffers \/ ModemSuffers \/ CharitoSuffers \/ PveSuffers \/ GensetSuffers

\* Each service runs in a thread or a task of its own that nothing stops.
Fairness ==
    /\ WF_vars(GrdRuns) /\ WF_vars(ModemRuns) /\ WF_vars(CharitoRuns) /\ WF_vars(PveRuns)
    /\ \A g \in Gensets : WF_vars(GensetRuns(g))

Spec == Init /\ [][Next]_vars /\ Fairness

-----------------------------------------------------------------------------
TypeOK ==
    Grd!TypeOK /\ Modem!TypeOK /\ Charo!TypeOK /\ Proxmox!TypeOK /\ Genset!TypeOK

\* No alarm ends but on evidence that what it told of is over: a valid reading
\* of the GRD, two healthy checks of the modem in a row, an answer of the daemon,
\* a snapshot in which the machine runs, a reading with the generator's breaker
\* open.  A failed reading, a check without a verdict or a percentage, metrics
\* that cannot be read or a restart end none.  The alarm of a process is the
\* exception: when its daemon stops answering, the daemon's takes its place
\* (services/alarm_generator.py, alarm_source.py, process_alarm_service.py).
AlarmsEndOnEvidence ==
    [][ /\ \A g \in Grds : condition[g] = "on" /\ condition'[g] = "off" => Grd!Evidence(g)
        /\ condition[Grd!Global] = "on" /\ condition'[Grd!Global] = "off"
               => failures = {} /\ ~Grd!Red
        /\ link = "on" /\ link' = "off" => Modem!Evidence
        /\ \A i \in Instances : alarm[i] = "on" /\ alarm'[i] = "off"
               => items[i].answer \in {"serving", "garbled"}
        /\ \A p \in Processes : alarm[p] = "on" /\ alarm'[p] = "off" => Charo!Evidence(p)
        /\ hostAlarm.value = "on" /\ hostAlarm'.value = "off" => Proxmox!HostEvidence
        /\ \A v \in Vms : vmAlarm[v] = "on" /\ vmAlarm'[v] = "off" => Proxmox!Evidence(v)
        /\ \A g \in Gensets : running[g] = "on" /\ running'[g] = "off" => Genset!Evidence(g)
      ]_vars

\* Alarmero refuses an edge whose alarm is not in the catalogue: Charito serves
\* every alarm it ever observed, after a crash between its two files as well.
AlarmsAreCatalogued == Charo!Catalogued

\* Alarmero refuses an edge older than the last of its alarm and asks for it
\* again forever.  pve-service dates an outage like the last stored snapshot,
\* so a snapshot must be stored before its alarms are observed.
OutageDatesAdvance == [][hostAlarm'.since >= hostAlarm.since]_vars

\* When the equipment stops changing and nothing fails any more, every alarm
\* comes to say what the equipment is, whatever was lost before.  So do the
\* topics of Proxmox, published every so many cycles whatever happened to the one
\* before, and of the generators, published until it is confirmed.
AlarmsCatchUp ==
    <>[](CASE service = "grd" -> Grd!Agrees
           [] service = "modem" -> Modem!Agrees
           [] service = "charito" -> Charo!Agrees
           [] service = "genset" -> Genset!Agrees
           [] OTHER -> Proxmox!Agrees /\ (step = "asleep" => Proxmox!TopicCurrent))

-----------------------------------------------------------------------------
(* What the documentation and a message of the program say of it, and the  *)
(* code does not do.                                                       *)

\* README.md:177: no alarm of a single GRD begins while the global
\* connectivity is in the red zone.
NoGrdAlarmWhileRed ==
    [][\A g \in Grds : condition[g] # "on" /\ condition'[g] = "on" => ~Grd!Red]_vars

\* modem-link-monitor/src/app.py:115: a state of the modem that could not be
\* published is published again after the next cycle.
ModemTopicCatchesUp ==
    <>[](service = "modem" /\ loop = "asleep" => topic = verdict)
=============================================================================
