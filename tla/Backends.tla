------------------------------ MODULE Backends ------------------------------
(***************************************************************************)
(* The services that fetch what others hold and answer for it: the         *)
(* collectors of the MiCOM relays and of the Janitza analysers, the        *)
(* download of the flow meters, the external port check, and the requests  *)
(* and the MQTT session of Lechu.  They share neither memory nor files:    *)
(* one behaviour follows one of them, chosen in the initial state, and the *)
(* others stand still.                                                     *)
(***************************************************************************)
EXTENDS Integers, FiniteSets, Sequences

CONSTANTS Relays, Slots, Channels, Blocks, MaxEvents, MaxTrips, Analyzers, RetryHours, LastHour,
          MaxRecords, Probes, MaxNodes, MaxAttempts, Primary, Requests, QueueSize,
          MaxRetries, MaxRequests, MaxChanges, MaxLosses, MaxFaults

\* settings.py of i20api lets through whole hours only; an external check asks
\* some of the probes there are, and at least one.
ASSUME WaitsAreHours == RetryHours \in Seq(Nat)
ASSUME ProbesAssumption == IsFiniteSet(Probes) /\ MaxNodes \in Nat \ {0}

\* There are devices, a channel and a block at least; the provider is one of the two
\* config.py of the monitor lets through, the queue of Lechu has a place
\* (BoundedWorkQueue), and a negative number of retries is none.
ASSUME SizesAssumption ==
    /\ Relays # {} /\ Slots # {} /\ Analyzers # {} /\ Requests # {}
    /\ Channels \in Nat \ {0} /\ Blocks \in Nat \ {0}
    /\ MaxAttempts \in Nat \ {0} /\ Primary \in {"globalping", "check-host"}
    /\ QueueSize \in Nat \ {0} /\ MaxRetries \in Nat

\* The bounds leave room for the initial state.
ASSUME BoundsAssumption ==
    MaxEvents \in Nat \ {0} /\ MaxTrips \in Nat /\ LastHour \in Nat /\ MaxRecords \in Nat \ {0}

VARIABLES
    followed, \* the service that is followed
    recordings, trips, recorded, rows, faultRow, refresh, due, known, parts, tries, enabled,
    flagFile, observing, monitor, download,
    items, itemsFile, observed, observedFile, turn,
    hour, source, expired, cycle, lastAttempt, catalogue, measurements, busy,
    manual, scheduler, run, downloads,
    answering, outcome, listed, stale, cooling, check, state, witnessed, shut, lasting,
    kind, pending, inbox, router, minute, mails, answers, served,
    wire, rpcHeard, presence, mailTopic, wanted, online, looping, began, starter, caller,
    stopping, net, rpcAsked, rpc, mailServer, healthFile, monitored, silent, unconfirmed,
    overtaken,
    changes, faults

Relay == INSTANCE Micom
Analyzer == INSTANCE Janitza
Flow == INSTANCE FlowMeter
Probe == INSTANCE PortProbe
Rpc == INSTANCE LechuRpc
Mqtt == INSTANCE LechuMqtt

ofRelay == <<recordings, trips, recorded, rows, faultRow, refresh, due, known, parts, tries,
             enabled, flagFile, observing, monitor, download>>
ofAnalyzer == <<items, itemsFile, observed, observedFile, turn>>
ofFlow == <<hour, source, expired, cycle, lastAttempt, catalogue, measurements, busy,
            manual, scheduler, run, downloads>>
ofProbe == <<answering, outcome, listed, stale, cooling, check, state, witnessed, shut, lasting>>
ofRpc == <<kind, pending, inbox, router, minute, mails, answers, served>>
ofMqtt == <<wire, rpcHeard, presence, mailTopic, wanted, online, looping, began, starter,
            caller, stopping, net, rpcAsked, rpc, mailServer, healthFile, monitored, silent,
            unconfirmed, overtaken>>
vars == <<followed, ofRelay, ofAnalyzer, ofFlow, ofProbe, ofRpc, ofMqtt, changes, faults>>

Names == {"relay", "analyzer", "flow", "probe", "rpc", "mqtt"}

\* The environment of the services that are not followed is one of many.
Init ==
    /\ followed \in Names
    /\ Relay!Init /\ (followed # "relay" =>
                          enabled /\ \A r \in Relays, s \in Slots : recorded[r][s] = 0)
    /\ Analyzer!Init /\ Flow!Init
    /\ Probe!Init /\ (followed # "probe" => answering)
    /\ Rpc!Init /\ (followed # "rpc" => \A r \in Requests : kind[r] = "read")
    /\ Mqtt!Init /\ (followed # "mqtt" => wanted /\ mailServer = "conectado")

\* A step of one service leaves the others as they are.
RelayAlone == UNCHANGED <<followed, ofAnalyzer, ofFlow, ofProbe, ofRpc, ofMqtt>>
AnalyzerAlone == UNCHANGED <<followed, ofRelay, ofFlow, ofProbe, ofRpc, ofMqtt>>
FlowAlone == UNCHANGED <<followed, ofRelay, ofAnalyzer, ofProbe, ofRpc, ofMqtt>>
ProbeAlone == UNCHANGED <<followed, ofRelay, ofAnalyzer, ofFlow, ofRpc, ofMqtt>>
RpcAlone == UNCHANGED <<followed, ofRelay, ofAnalyzer, ofFlow, ofProbe, ofMqtt, changes>>
MqttAlone == UNCHANGED <<followed, ofRelay, ofAnalyzer, ofFlow, ofProbe, ofRpc>>

\* What each service does by itself, thread by thread ...
RelayRuns == followed = "relay" /\ Relay!Step /\ RelayAlone
RelayWaits(r) == followed = "relay" /\ Relay!Wait(r) /\ RelayAlone
AnalyzerRuns == followed = "analyzer" /\ Analyzer!Step /\ AnalyzerAlone
FlowRuns == followed = "flow" /\ Flow!Step /\ FlowAlone
FlowWaits == followed = "flow" /\ Flow!Clock /\ FlowAlone
ProbeRuns == followed = "probe" /\ Probe!Step /\ ProbeAlone
ProbeEnds == followed = "probe" /\ Probe!Deadline /\ ProbeAlone
RpcRuns == followed = "rpc" /\ Rpc!Step /\ RpcAlone
RpcHears(r) == followed = "rpc" /\ Rpc!Deliver(r) /\ RpcAlone
MqttNetwork == followed = "mqtt" /\ Mqtt!Network /\ MqttAlone
MqttStarts == followed = "mqtt" /\ (Mqtt!Call \/ Mqtt!Started \/ Mqtt!Confirm) /\ MqttAlone
MqttStops == followed = "mqtt" /\ Mqtt!Stopping /\ MqttAlone
MqttListens == followed = "mqtt" /\ Mqtt!RpcStarts /\ MqttAlone
MqttMonitors == followed = "mqtt" /\ Mqtt!MailMonitor /\ MqttAlone

\* ... and what happens to it.
Suffers ==
    \/ followed = "relay" /\ Relay!Environment /\ RelayAlone
    \/ followed = "analyzer" /\ Analyzer!Environment /\ AnalyzerAlone
    \/ followed = "flow" /\ Flow!Environment /\ FlowAlone
    \/ followed = "probe" /\ Probe!Environment /\ ProbeAlone
    \/ followed = "rpc" /\ Rpc!Environment /\ RpcAlone
    \/ followed = "mqtt" /\ Mqtt!Environment /\ MqttAlone

Next ==
    \/ RelayRuns \/ (\E r \in Relays : RelayWaits(r))
    \/ AnalyzerRuns
    \/ FlowRuns \/ FlowWaits
    \/ ProbeRuns \/ ProbeEnds
    \/ RpcRuns \/ (\E r \in Requests : RpcHears(r))
    \/ MqttNetwork \/ MqttStarts \/ MqttStops \/ MqttListens \/ MqttMonitors
    \/ Suffers

\* Threads that nothing stops, times that come, and a broker that delivers.  The
\* network thread, stop and the listener do a few steps each, so that all of them are
\* done if one of them is taken as long as there is any.
Fairness ==
    /\ WF_vars(RelayRuns) /\ \A r \in Relays : WF_vars(RelayWaits(r))
    /\ WF_vars(AnalyzerRuns)
    /\ WF_vars(FlowRuns) /\ WF_vars(FlowWaits)
    /\ WF_vars(ProbeRuns) /\ WF_vars(ProbeEnds)
    /\ WF_vars(RpcRuns) /\ \A r \in Requests : WF_vars(RpcHears(r))
    /\ WF_vars(MqttNetwork \/ MqttStops \/ MqttListens)
    /\ WF_vars(MqttStarts) /\ WF_vars(MqttMonitors)

Spec == Init /\ [][Next]_vars /\ Fairness

-----------------------------------------------------------------------------
TypeOK ==
    /\ Relay!TypeOK /\ Analyzer!TypeOK /\ Flow!TypeOK /\ Probe!TypeOK /\ Rpc!TypeOK
    /\ Mqtt!TypeOK

\* What a stored recording holds was read from the one it is said to be.
RecordingsAreWhole == Relay!RecordingsAreWhole

\* A reading of a relay is over for 30 days, and a download of the flow meters
\* for the day, only when all that it was about is stored (relay_monitoring.py,
\* sync.py).
CompletedMeansStored == [][Relay!ReadingIsStored /\ Flow!DayIsStored]_vars

\* What was learnt from a device is not lost to a later failure or a restart: the
\* ratios of an analyser (collector.py, _store_failure), and the recordings and
\* faults of a relay, which only give way to later ones.
LearntIsKept == [][Analyzer!RatiosAreKept /\ Relay!RowsOnlyAdvance]_vars

\* However often the service is restarted or a day passes during a download, a
\* day has one automatic download and its retries (sync.py, _cycle).
AttemptsAreLimited == Flow!AttemptsAreLimited

\* tcp_probe.py, _poll_check: what an external check concludes, the port was.
VerdictsAreWitnessed == [][Probe!Witnessed]_vars

\* mqtt_rpc.py, _handle_send_email_test: one mail for each request.
OneMailPerRequest == Rpc!OneMailPerRequest

\* mqtt_client_manager.py: who subscribes before there is a session is heard.
SessionIsHonest == Mqtt!SessionIsHonest

\* When nothing fails any more, what the services hold, publish and answer
\* comes to agree with what they stand for.
BackendsCatchUp ==
    <>[](CASE followed = "relay" -> enabled => Relay!Agrees
           [] followed = "analyzer" -> observed => Analyzer!Agrees
           [] followed = "flow" -> Flow!Agrees
           [] followed = "probe" -> Probe!Agrees
           [] followed = "rpc" -> Rpc!Agrees
           [] OTHER -> Mqtt!Agrees)
=============================================================================
