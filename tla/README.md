# Verification of lechuza-server

lechuza-server is a family of containers that watch electrical equipment (remote
units, relays, meters, generators, a router, a Proxmox host and the machines on
it) and tell people when something is wrong. This directory holds TLA+ models of
its core logic, the TLC configurations that check them on small instances, and
proofs checked by TLAPS. Paths below are relative to the repository; a name such
as `AlarmOutbox` is a module here.

Contents: 1 the system, 2 modules and code, 3 runs, 4 bounds and fairness,
5 proofs, 6 disagreements found, 7 what is not modelled, 8 plan, 9 how to run.

## 1. The system

### How the parts interact

    devices --Modbus--> modbus transport <--HTTP-- GRD, MiCOM, Janitza, generators
    router port <--external probes-- modem monitor --HTTP--> GRD summary
    charo-daemons <--HTTP-- Charito        Proxmox API <--HTTP-- pve-service
    GWF <--HTTPS-- i20api (flow meters)    mobile app <--MQTT--> Lechu
                     |
       each expert service: an outbox of alarm edges (shared/alarm_generator.py)
                     |  GET catalog, GET events, POST events/ack
                     v
                 Alarmero --POST /send_async, GET /internal/dispatches--> Mensagelo --> SMTP
                     ^                                        ^
                     +------------ Lechu (web, MQTT RPC, mail client) ----+

The services share no memory and no files. They talk over HTTP and over retained
MQTT topics, every reply may be lost, and Docker restarts any of them
(`restart: unless-stopped`). What carries the weight is therefore persistence:
what is on disk when, and what is confirmed to whom before or after that.

### Inventory

For each part: its state, its operations, what is hard, what makes it correct.

**Alarm generator outbox** (`shared/alarm_generator.py`). State: conditions by
alarm, undelivered edges numbered without a hole, next and last confirmed number;
in memory and in a JSON file; the catalogue in memory only. Operations: register,
observe, acknowledge, and the reads of catalogue and events. Hard: the save may
fail and the process may die before or after `os.replace`; confirmations come
late, twice or never. Correct when the file always loads, nothing is served that
a restart would take back, no unconfirmed edge is lost, and edges alternate and
agree with the condition shown. The dates of edges are the caller's: only their form is
checked, so the outbox promises nothing about their order.

**Alarmero, alarm life cycle** (`alarmero-service/backend`: `sync_worker.py`,
`db.py`, `alarm_lifecycle.py`). State: a SQLite database (catalogue, state,
incidents, notices, a cursor by source, notice settings) and, in memory, ETags
and confirmed cursors. Operations: retire the alarms of removed sources, read a catalogue, ingest a page of edges in a
transaction, confirm it, take baselines, apply deadlines, change settings. Hard:
edges arrive late and together, deadlines race edges, every request or reply may
fail, restarts of both sides. Correct when nothing is confirmed before it is
stored, the state is the one the cursor says, incidents tell the same story as
the state, no condition that lasted the activation time is missed, the past is final,
and Alarmero converges for sources whose dates do not go back.

**Alarmero, notices** (`db.py`, `sync_worker.py`). State: rows of `dispatches`,
the flag `notified`. Operations: queue, send, mark accepted, read results. Hard:
a lost 202, a key that failed meanwhile, old replies, listings with a limit. Correct
when nothing is shown that did not happen, and every notice settles as long as the worker
of Mensagelo lives and the listings reach that far.

**Mensagelo** (`mensagelo/email_service`). State: the table of messages by
idempotency key, the history, a bounded queue in memory, one worker thread.
Operations: accept, claim, send, complete, recover at start, migrate history.
Hard: keys sent again, stale keys in the queue, a crash between SMTP and the
completion, a full queue, a failing database. Correct when a message is handed
over at most once, a status is never a lie, the capacity holds, the worker owns
what it sends, and every durable row is taken while the worker lives (an error of the
database may end it, section 6).

**Modbus transport** (`modbus/modbus-transport-service`). State: by endpoint, a
bounded queue, a worker thread, a socket. Operations: read, connect, stop. Hard:
handlers that give up while the worker takes their item, late answers on a
socket, a shutdown with a full queue. Correct when it is a first-in first-out
line of one server, an answer belongs to its request, every item settles and the
worker ends when told to.

**GRD collector** (`modbus/colectores/grd-collector-service`). State: last
confirmed state of every GRD in SQLite and in a registry, failed readings, last
publications, its outbox. Operations: a cycle of readings, transitions, two
retained topics, alarms; a supervisor that starts the loop again. Hard: partial
readings, a write that fails in the middle of a cycle, unconfirmed publications,
the interplay of the global alarm with the single ones.

**Modem monitor** (`modem-link-monitor`). State: the state file, the counter of
healthy checks, the last publication, its outbox. Operations: check, ask for the
percentage, save, observe, publish. Hard: unknown checks, a counter in memory
beside a condition on disk, a publication of "desconocido" after a failed one.

**Charito** (`charito-service`). State: observations by target in memory and in
a file, the catalogue of processes in another file, the outbox in a third, the
signature of the last publication. Operations: poll, observe, broadcast. Hard:
three files written one after the other, processes that come and go.

**pve-service**. State: the stored snapshot, the last success, outbox, publication
counter. Operations: collect, store, observe, the failure path, publish. Hard: an
error of the store is handled like an outage; outages carry the date of an
earlier snapshot.

**Generators** (`modbus/colectores/generator-collector-service`). State: the cache
of readings with its file, the last publication, the outbox. Operations: a cycle of
one generator in its own thread, a supervisor. Hard: a failed reading keeps the old
positions and marks them stale; a write that fails in the middle of a cycle.

For the five services that raise alarms: no alarm may end without evidence that
what it told of is over (the alarms of Charito's processes end as well when their daemon
stops answering, whose own alarm takes their place), no alarm may be emitted that Alarmero
has to refuse, and all alarms must catch up once failures stop.

**MiCOM collector** (`modbus/colectores/micom-collector-service`). State: stored
recordings known by signature, the latest fault, the parameters of each relay, when
its next reading is due, the flag of the operator. Operations: a session with a
relay (date format, frequency, directory, recordings block by block, profile,
fault), the schedule of 30 days with retries, the switch. Hard: the relay records on
while it is being read, and may put another disturbance in the slot that is being
downloaded; recordings and faults come independently, and a relay may have neither.
Correct when a stored recording is of one disturbance, a session is called complete only
when everything is stored, and nothing gives way to something older.

**Janitza collector** (`modbus/colectores/janitza-collector-service`). State: ratios,
measurements and status by analyser, the flag. Operations: a round of readings, the
switch. Hard: what is stored at the end starts from the item as it was at the start.
Correct when ratios once learnt are not lost.

**External port probes** (`modem-link-monitor/src/globalping_probe.py`,
`tcp_probe.py`). State: the catalogue of probes, those that rest, the check in
progress. Operations: ask a provider, poll, conclude, ask others. Hard: late
results, probes that err or change their mind, deadlines. Correct when the port
really was what the verdict says at some moment of the check, and a port is called shut
only if a full batch of new probes found it so, and lastingly.

**Flow meters** (`i20api-service`). State: the calendar of the day, the outcome of the
last attempt, the records, the manager's `busy` and `manual_pending`. Operations:
the scheduler's look, a download page by page, its transaction, the request of an
operator. Hard: restarts and midnight during a download, the calendar is stored
again at the end, storage errors between two writes. Correct when a day has no more
automatic downloads than configured, and is complete only when what it was about is stored.

**Lechu, requests and test mail** (`lechu/src/servicios/mqtt/mqtt_rpc.py`,
`servicios/email/mensagelo_client.py`). State: a bounded queue, one thread. Hard:
second deliveries, lost answers of Mensagelo, repetitions, payloads of another form.
Correct when a request sends one mail and, while the thread lives, a request that is not
dropped is answered; JSON that is not an object ends the thread (section 6).

**Lechu, MQTT session** (`servicios/mqtt`: `mqtt_client_manager.py`, `mqtt_driver.py`,
`broker_service.py`, `mqtt_topic_publisher.py`; `estado_email.py`). State: the
session as the process knows it (`_connected`, `_loop_started`, `_started`,
`_starting`), the stored switch, the topics to subscribe, the retained statuses.
Hard: network thread, request thread, operator and mail monitor all look at the
session and none waits for the others; stopping it takes three calls and no lock. Correct
when a session hears the requests and the retained status is that of the session, unless
a stop overtook what the network thread was saying (section 6).

**Not modelled, with logic of its own**: Alarmero's frequency projection, a count in
memory of the incidents by day. **Presentation and I/O**: web clients, dashboards,
configuration parsing, charts, chart history, deployment.

PROJECT.json lists every component with its sources, its modules and a note, and
under "hazards" what is hard to test in this code, each at its line and with the
properties that would catch it.

## 2. Modules, and how they correspond to the code

| module | models | abstract counterpart |
| --- | --- | --- |
| `AlarmGenerator` | the value of an outbox and its pure operations | |
| `AlarmOutbox` | the outbox in a process that saves, fails, dies and starts | `EdgeLog` |
| `AlarmOutboxProofs` | its inductive invariant and its theorems | |
| `AlarmLifecycle` | a row of Alarmero and its transitions | |
| `Alarmero` | the synchronization thread over sources that run and restart | |
| `AlarmeroProofs` | that it confirms only what it stored, that state, incidents, notices and edges agree, and that what is settled stays | |
| `AlarmDispatch` | notices, with Mensagelo as its ledger | uses `MailLedger` |
| `AlarmDispatchProofs` | that what is shown of a notice is real, and never ahead of Mensagelo | |
| `Mensagelo` | handlers, table, queue, worker, SMTP | `MailLedger` |
| `MensageloProofs` | its inductive invariant, its theorems, the refinement | |
| `ModbusTransport` | handlers, queue, worker, socket, shutdown | `EndpointQueue` |
| `ModbusTransportProofs` | that answers belong to their requests; the refinement | |
| `GrdCollector`, `ModemMonitor`, `Charito`, `Pve`, `Generators` | the loops of the five services that raise alarms | |
| `Services` | the five side by side, one followed by each behaviour | |
| `ServicesProofs` | the types and the safety properties of the five | |
| `Micom` | the sessions with the relays | |
| `Janitza` | the round over the analysers | |
| `PortProbe` | a check of the port by external probes | |
| `FlowMeter` | the daily download, its attempts and its completion | |
| `LechuRpc` | requests over MQTT and the test mail | |
| `LechuMqtt` | session, switch, subscriptions, mail monitor | |
| `Backends` | these six side by side, one followed by each behaviour | |
| `BackendsProofs` | the safety properties of the six | |
| `BackendsTypeProofs` | the types of their variables and the bounds they stay in | |
| `MC*` | instances for TLC | |

The parts are joined by assume and guarantee. `AlarmOutbox` shows (and
`AlarmOutboxProofs` proves) that what an outbox serves is what it would serve
after a crash and that it is an `EdgeLog`; so `Alarmero` takes the outboxes of its
sources, as values of `AlarmGenerator`, to be durable at once, and the expert
services keep only the conditions of theirs. `Mensagelo` is shown to implement
`MailLedger`; `AlarmDispatch` composes the notices of Alarmero with that ledger
instead of with the whole mail service. `Alarmero` decides when a notice is
queued; `AlarmDispatch` queues one at any time the thread is not sending.
`PortProbe` shows that a verdict is one the port deserved during the check, which is
what `ModemMonitor` takes its variable `verdict` to be. `LechuRpc` takes of Mensagelo
what its ledger promises: a key is accepted once and refused with another body.

The services of `Services` and those of `Backends` share nothing with each other, so a
behaviour of these modules chooses one of them in its initial state and follows it:
the product of their states would say nothing more about any of them.

### State

* `AlarmOutbox`: `state` is `_state`, `file` the state file, `backup` the copy
  `_persistent_change` holds while its block runs (the RLock is held meanwhile),
  `registered` the keys of `_catalog`. `emitted` is history, kept for the properties. An
  observation takes any date of `Instants`.
* `Alarmero`: `db` is the database (a cursor by source, a row by alarm that joins
  `alarm_catalog`, `alarm_state`, `incidents`, `dispatches` and the settings),
  `tx` the working copy of the open transaction, `worker` the thread's place and
  local variables, `etag` and `confirmed` the two module dictionaries, `configured`
  the keys of `config.ALARM_SOURCES`, which a restart may change. Identifiers of
  incidents (uuids) are their positions. A source dates an observation at most `MaxLag`
  behind the clock, in any order; an edge older than what came before is refused, with
  its page, in every cycle.
* `AlarmDispatch`: `dispatches`, `notified`; `toSend` and `results` are the
  lists the thread works through, which grow old while it does. Both listings have
  their limit (`PendingLimit` oldest rows to send, `ReportLimit` newest messages
  asked about), and so rows and messages their dates. Of Mensagelo, `alive` says that
  its worker runs, `stranded` are the messages whose completion failed.
* `Mensagelo`: `rows` is `mensajes_pendientes`, `history` is `mensajes_enviados`,
  `legacy` the rows `_migrate_legacy_history` inserts, `queue` is `mail_queue`,
  `putting` the handlers between `reserve_message` and `put_nowait`. `accepted`
  counts what the SMTP server took: it is history, no code reads it.
* `ModbusTransport`: `handler` is the place of each HTTP thread, `cancelled` and
  `done` are the two events of an item, `socket` the pymodbus client with the
  questions still unanswered on it, `stopper` the shutdown handler.
* `GrdCollector`: `db` is `grd_estado_actual`, `states` and `failures` the
  registry, `sent` the two last payloads, `retained` what the broker keeps.
* `ModemMonitor`: `memory` and `file` are the state and its file, `healthy` is
  `_healthy_observations`, `link` the condition of `modem:link`; `before` is history:
  whether the check before this one was healthy, whatever the counter says.
* `Charito`: `items` and `itemsFile`, `catalog` with its file, `registered` what
  the outbox serves, `signature` is `_last_state_signature`.
* `Pve`: `stored` is the repository, `last` is `_last_successful_snapshot`,
  `offline` says that `_last_collection_error` is set, `counter` is `publish_counter`.
* `Generators`: `gauges` is the cache and its file, `told` is `_last_signature`.
* `Micom`: `rows`, `faultRow`, `refresh`, `known` are the tables, `monitor` and
  `download` the local variables of the thread. A relay counts its `recordings` and,
  apart from them, its faults (`trips`); a slot holds a recording, whose count stands
  for its signature, and a block read from the relay is of the recording it shows at
  that moment. `parts` are the parts of the profile read in this session, and whether
  one is no scale or one the table refuses.
* `Janitza`: `items` and `itemsFile`; `turn` holds the copy of the item a turn starts from.
* `FlowMeter`: `cycle` and `lastAttempt` are documents of the store, `measurements`
  the records, `run` the download in progress. Records are numbered by age, and
  those up to `expired` are past retention.
* `PortProbe`: `outcome` is what a probe has found, `check.nodes` what the last poll
  showed of it; history are `witnessed` (what the port was during the check), `shut` (the
  probes that found it shut in this measurement) and `lasting` (the whole batch failed in
  the last poll), none of which follows the flags of the code.
* `LechuRpc`: `inbox` is `_listener_queue`, `router` its thread, which may be `dead`,
  `mails` what Mensagelo accepted; `served` is history.
* `LechuMqtt`: `online`, `looping`, `began` are `_connected`, `_loop_started`,
  `_started`; `wire`, `rpcHeard`, `presence`, `mailTopic` are the broker's; `starter`
  and `caller` the threads inside and before `start`, `stopping` the place of the one
  inside `stop`, which the network thread may overtake between any two of its calls.
  `unconfirmed` is the "offline" paho still holds and may repeat; `overtaken` is history:
  whether the retained status was last written across a stop.

Equipment (`line`, `port`, `host`, `vm`, ...) is a variable that changes at any
time: what a reading returns is what it shows at that moment.

### Actions and atomicity

A function that runs under a lock and in one database transaction is one step:
those of `mensagelo/email_service/db.py` and all of Alarmero's except
`ingest_events`, which takes one step by edge so that a refusal rolls back edges
already applied. A handler that stores and then queues takes two steps. A save of
the outbox takes two (the change in memory; the end of the save, with a crash
possible on either side of `os.replace`). A loop of an expert service takes a
step for each call after which the process may die or another call may fail; the
failing variants are actions of their own (`...Fails`) or disjuncts with `Fail`,
bounded by `MaxFaults`. In `Backends` every request to a device, a provider or a
broker and every write of a file or of the database is a step, and what runs under
one lock or in one transaction is one.

Time is a number of seconds: `utc_iso` has that resolution, which one of the runs
is about. Two readings of the clock in one function may differ (`Complete(later)`).

Names follow the source. Where the code has no name for a step, the comment above
the action gives the function.

## 3. Runs

All numbers are distinct states.

| run | configuration | states | shows |
| --- | --- | --- | --- |
| outbox | `MCAlarmOutbox.cfg` | 80 thousand | two alarms, four edges, saves that fail, crashes: `FileLoads`, `ServedIsDurable`, `NoEdgeLost`, and `ImplementsEdgeLog` |
| mensagelo | `MCMensagelo.cfg` | 327 thousand | two keys, two messages, a queue of one: `AtMostOnce`, `StatusIsHonest`, `CapacityHolds`, `WorkerOwnsItsRow`, `ImplementsLedger`, `EventuallyClaimed` |
| alarmero_cycle | `MCAlarmeroCycle.cfg` | 1060 thousand | the whole life of one alarm, with its source configured or not: `IncidentsMatchState`, `NoLongConditionIsMissed`, `HistoryIsFinal`, `Converges` |
| alarmero_shared | `MCAlarmeroShared.cfg` | 1183 thousand | two alarms share numbers, pages, catalogue and cursor: `AckedIsStored`, `StateFollowsCursor` |
| dispatch | `MCAlarmDispatch.cfg` | 166 thousand | both notices of an incident, listings of one, three faults: `NoticeIsReal`, `ShownTrailsLedger`, `EveryNoticeSettles` |
| modbus | `MCModbusTransport.cfg` | 49 thousand | two reads, one connect, two attempts, shutdown: `AnswersAreOwn`, `ImplementsEndpointQueue`, `EveryItemSettles`, `StopEndsTheWorker` |
| services | `MCServices.cfg` | 254 thousand | the five services that raise alarms: `AlarmsEndOnEvidence`, `AlarmsAreCatalogued`, `OutageDatesAdvance`, `AlarmsCatchUp` |
| backends | `MCBackends.cfg` | 464 thousand | the six services that fetch and answer: `RecordingsAreWhole`, `CompletedMeansStored`, `LearntIsKept`, `AttemptsAreLimited`, `VerdictsAreWitnessed`, `OneMailPerRequest`, `SessionIsHonest`, `BackendsCatchUp` |
| mensagelo_history, mensagelo_poll, grd_red, modem_topic | | | each refutes one statement of the repository's documentation or comments, see section 6 |

The runs outbox, mensagelo, alarmero_cycle, services and backends also check the
`TypeOK` of their modules. Every property of a passing run
comes with a mutant: an operator defined beside the definition it alters, as a
plausible slip would alter the code (a rollback left out, `>` for `>=`, an order
swapped, a condition forgotten), under which TLC finds the property violated.

Some properties deserve a word.

* `ServedIsDurable` holds because a reader takes the same lock as the save. With
  the rollback left out a reader sees an edge that a restart forgets, Alarmero
  confirms it, and the number is used again for another edge.
* `StateFollowsCursor` says a catalogue, which is newer than the edges still
  waiting, never gets ahead of them, and that a page that fails leaves no trace.
* `NoLongConditionIsMissed` holds because `ingest_events` applies the deadlines
  that expired before each edge at the time of the edge, so that a start and an end
  that arrive together are not taken for a short condition: it fails with `>` in
  place of `>=` in `due_transition`. The converse, that a short condition raises
  nothing, is not so (section 6).
* `EveryNoticeSettles` is conditional, and the conditions are the code's: the worker of
  Mensagelo lives and no completion is left in processing (both end at its restart); the
  message is among those Alarmero asks about, or was never taken; and the rows to send are
  not all refused keys that nobody reports any more (`Blocked`). Without the limits, or
  with a worker that died, a notice may stay pending for ever.
* `ImplementsEdgeLog` says nothing of dates, which the outbox takes from its callers.
  That one of them keeps them in order is a property of the caller (`OutageDatesAdvance`
  for pve-service); `Converges` exempts a source whose dates do go back.
* `ImplementsEndpointQueue` hides the cancelled items in the real queue: the worker
  drops them without touching the device. What waits in `EndpointQueue` are the
  requests in the queue, or just taken from it, that nobody cancelled, and `before`
  is the order of their places.
* `AlarmsEndOnEvidence` asks of five services in one formula what each must have
  seen when it lets an alarm end. For the modem that is a second healthy check right
  after another, as history remembers it, so a counter that survives a check without a
  verdict is caught. For a process of Charito it is its daemon that lists it as running,
  or its daemon that is off and whose own alarm is on from that step.
* `RecordingsAreWhole` holds because the signature is read again with the blocks
  and compared with the directory: a disturbance that takes the slot in the middle
  of a download is caught at the next block or at the index.
* `CompletedMeansStored` is about errors that are remembered and passed over: one
  recording that fails must not make the reading complete, nor one page the day. The
  recordings are those of the directory the reading began with, and the fault is as late
  as any the relay had then; neither follows from the other.
* `VerdictsAreWitnessed` asks of a port called shut that every probe of a full batch,
  none asked before, found it shut in this measurement, and that two polls in a row showed
  all of them failing. The ten seconds between the two are not modelled.
* `SessionIsHonest` excepts what `overtaken` marks, and nothing else: without a stop that
  crosses a callback, the status and the subscriptions are those of the session however
  threads and connections interleave.
* `AttemptsAreLimited` survives restarts because the attempt is counted and stored
  before the first request, and midnight because the calendar carries its day.
* `OneMailPerRequest` rests on the key alone: it is derived from the request, so a
  second delivery and a repetition after a lost answer carry the same one. When
  Lechu writes the body it quotes the time, and a second delivery then asks for
  another body under the same key: Mensagelo refuses it, and the application is told
  of an error although the mail was accepted.
* `BackendsCatchUp` says what each service comes to agree with once nothing fails:
  stored recordings and faults with those of the relays, measurements with the analysers,
  records with GWF, answers with requests taken, subscriptions and statuses with the
  switch and the mail server; and that every check of the port that begins ends. What the
  code cannot recover from is excepted by name: a relay whose profile the table refuses
  keeps its old fault, a flow meter manager that is `Stuck`, a request thread that is
  dead, a session that is `Abandoned` or `Overwritten` (section 6). So this property does
  not claim that these do not happen; their hazards are listed without a property.

What the models show besides, and no property states: a request that arrives
between the subscription and the registration of its listener is dropped, as is one
that finds the queue full; a retained topic of Lechu may keep an old status after a
publication that was counted and not made; after a save of the MiCOM flag that fails,
memory and file differ until the next switch or restart; a failing profile reading of
a relay does not hold back the completion, so it is not repeated for 30 days.

## 4. Bounds and fairness

Bounds are constants named in the guards: `MaxEvents`, `MaxTrips`, `MaxClock`, `MaxTime`,
`MaxLag`, `MaxFaults`, `MaxChanges`, `MaxLosses`, `MaxRequests`, `MaxRecords`, `LastHour`.
Limits of the code, with smaller values: `QueueMax`, `QueueSize`, `PageLimit`,
`PendingLimit`, `ReportLimit`, `MaxNodes`. `Instants` are the dates a caller may give.

* outbox: four edges are two for each alarm, or four of one; confirmations may be
  one beyond the last number; of three dates, any may follow any.
* mensagelo: a queue of one place is full as soon as there is a row, so that both
  keys compete for it; two faults allow a crash after a failed completion.
* alarmero: three edges are a start, an end and a new start, so that each state of
  the life cycle is left by an edge and by its deadline; a page of one edge makes
  has_more, several transactions and a confirmation for each; two faults allow a
  lost confirmation followed by a restart of either side. Activation and recovery
  of one second each, over three instants, put edges before, on and after a deadline, and
  a lag of one second dates an edge before the one it follows. In the run
  alarmero_cycle a second source, without alarms, is there so that the first can be
  taken out of the configuration and put back.
* dispatch: one incident with both notices, which is enough for one to hide the other
  in listings of one; two instants, so that either may be the older; three faults. In a
  listing of one, `Blocked` asks for a failed notice that newer ones have pushed out of the
  results, which the two show; only the theorems speak of longer listings.
* modbus: two places for three requests and the `None` of the stop, so that the
  queue is full for either; two attempts, so that a question can be left
  unanswered on a socket before the next one.
* services: two GRD (one may hide the other, and one in two is below or on the
  threshold of 50), two instances with both processes on one of them, one machine,
  publication every second cycle, two changes of the equipment and one fault.
  A single fault is one interrupted step with all that follows from it; with two
  changes the equipment can leave a state and return to it, which is what the
  finding about the modem's topic takes. One generator shows both breakers in its topic.
* backends: one relay with two slots, recordings of two channels of two blocks, one
  recording before the start (or none) and one after it, so that a slot can be overwritten
  in each phase of a download, a fault, and one request of the operator; two analysers, so that a turn can end between them; two records
  and one retry, days of three hours with a midnight at any step; three probes of
  which two are asked at once, so that a second attempt finds another one; two
  requests for a queue of two with two losses, so that a second delivery meets the
  full queue and a repetition its own mail; two turns of the switch; one fault.

Symmetry is used for alarms in `MCAlarmOutbox.cfg` and `MCAlarmeroShared.cfg`;
the first has no liveness property and the second only invariants.

CHECK_DEADLOCK is FALSE where the bounds let everything come to rest, and for
`ModbusTransport`, which ends.

Fairness, each with its reason:

* `Mensagelo`: the worker's next step (a thread that is not blocked; SMTP has a
  timeout), the start of a stopped service (Docker), the put of a handler that
  stored its row. None for clients, faults or the clock.
* `Alarmero`: the thread's next step (the loop of `sync_worker.py` catches every
  exception), the clock, and the registration of alarms by a service that
  restarted. None for observations, faults or the operator.
* `AlarmDispatch`: the thread's next step, and Mensagelo's while its worker lives
  (`MailStep` has `alive` as a guard), which is what `EventuallyClaimed` shows of
  `Mensagelo`. That the worker lives from some time on is a premise of the property, not an
  assumption of fairness.
* `ModbusTransport`: the worker's next step (each call on the socket has a
  timeout), a handler's (it waits with a timeout), and `stop` once it has begun.
  Nobody has to call it.
* `Services`: the loop of each service (each generator its own). None for equipment,
  faults and clock.
* `Backends`: each thread (`...Runs`); of the session, the start and the mail monitor,
  which may repeat for ever, each by itself, and the network thread, stop and the
  listener together, which do a few steps each; the times that come (`RelayWaits`,
  `FlowWaits`, `ProbeEnds`); and the delivery of a request by the broker. None for the
  operator, devices, providers, losses and faults. A thread that died has no next step.

The faults are bounded, so liveness says what happens once they stop.

## 5. Proofs

`AlarmOutboxProofs` proves, for any set of alarms and any bounds (the assumption
`BoundsAssumption`, that they are natural numbers):

* `TypeCorrect`, `FileAlwaysLoads`, `ServedAlwaysDurable`, `NoEdgeEverLost`,
  `CatalogueFollowsEdges`: the invariants the run outbox checks;
* `OutboxImplementsLog`: `Spec => ImplementsEdgeLog`, the refinement.

None of the invariants is inductive by itself. While a save is under way memory
is ahead of the file, and whether it may replace the file depends on how it got
there. The inductive invariant `IInv` therefore says: the types; the file loads;
`Durable` (nothing is lost, the conditions follow the edges, an alarm with edges
has a known condition); with the lock free,
memory is the file; and `ChangeUnderWay`: with the lock held, `backup` is the file
and memory is what `observe` or `acknowledge` makes of it, for some alarm, value
and date, or some number. The proof goes:

1. `EmptyLoadable`, `ObservedLoadable`, `AcknowledgedLoadable`: the operations
   keep what `_load` demands.
2. `ReplaceConfirmation`, `ReplaceBaseline`, `ReplaceEdge`: the replacement of the
   file keeps `Durable` when the change was a confirmation, a first observation
   of an inactive alarm, or an edge. `ReplaceDurable` joins them.
3. `InitInvariant`, `NextInvariant` (one step for each action; a crash is split into
   before and after the replacement), `Invariance`.
4. `ReplaceRefines` and `StepRefines`: a replacement is one `Emit`, one `Confirm` or
   a stutter of `EdgeLog`, everything else stutters.

`MensageloProofs` proves, for any keys, messages, size of the queue and number of
faults (`ParametersAssumption`: the queue has a place, the bounds are numbers):

* `MensageloTypes`, `HandedOverAtMostOnce`, `StatusAlwaysHonest`,
  `CapacityAlwaysHolds`, `WorkerAlwaysOwnsItsRow`: the invariants of the run mensagelo;
* `MensageloImplementsLedger`: `Spec => ImplementsLedger`.

At most one hand-over cannot be shown alone: a second one is excluded because the
worker sends only from the place `deliver`, there its row is in processing and not
yet accepted (`WorkerOwnsItsRow`), it gets there only by claiming a pending row, and
a pending row was never accepted (`StatusIsHonest`). `MInv` is the conjunction of
these with the types, the capacity and `FiniteTable` (the table has finitely many
rows, which counting them needs). `SetStatus` says what a change of status does to
the table, `FewerActive` that ending a row frees a place, `SameTable` that a step
that leaves the table alone keeps what is said about it; `NextMInv` has one step
for each action. `StepIsLedgers` maps each action to a step of `MailLedger` or to
a stutter: the acceptance by SMTP is the ledger's hand-over, the completion its
settling, a restart the failure of what was in processing.

`AlarmeroProofs` proves, for any alarms, sources, delays, page size and faults
(`SyncAssumption`), `ConfirmedAlwaysStored`: no source is told to forget an edge the
database has not committed. `AInv` adds to the property where the thread is and what
its local variables mean there: the open transaction started from the database and
its cursors are not behind it (`TransactionAhead`); the number about to be confirmed
is committed (`CommittedFirst`); and the shapes of the database, the worker and the
outboxes, as far as cursors go. The lemmas say what each operation of the database
does to the cursors: an edge moves that of its source by one, a catalogue,
baselines and deadlines leave them alone.

Four more invariants stand on it, each part of the next.

* `RInv` gives `IncidentsAlwaysMatch` and `LongNeverMissed`. It says of every row, in
  the database and in the open transaction, that it is a `Story`: the state points to
  the one open incident, an incident that waits for its activation began when the state
  did, one that became active has the date of it, and a notice has its incident. The
  transaction must be included, because a page is applied edge by edge and becomes the
  database at once. Each operation on a row has a lemma that it keeps the story; the one
  about an edge after an expired deadline is what lets no long condition pass unseen.
* `FInv` gives `AlwaysFollows`. An outbox holds only edges that are not confirmed, so
  the argument is about the whole log `emitted`: the outbox is its tail (`Logged`), the
  edges of an alarm alternate and begin with "on" (`Alternates`), the page under way is
  a piece of it (`PageOfLog`), and rows follow it up to the cursor (`Fits`). What is hard
  are baselines, which are taken from a catalogue newer than the edges read so far. They
  cannot overtake one, because the page read after the catalogue is the last one and holds
  every edge that the catalogue already shows (`Coming`, and `CaughtUp` once it is committed).
* `TInv` adds the other variables and gives `AlarmeroTypeCorrect`.
* `HInv` gives `HistoryAlwaysFinal`. The property speaks of two states of the database,
  and most of its changes are made in the open transaction, edge by edge, and only
  then committed. So the invariant compares the two: the transaction is ahead of the
  database, in the alarms of its source alone (`DatabaseAdvances`), and one more edge
  keeps it there (`ThenDatabase`). An edge that is refused rolls the transaction back
  and leaves nothing to compare.

`AlarmDispatchProofs` proves, for any incidents, order of identifiers, limits of the
listings and number of faults (`DispatchAssumption`), `NoticesAlwaysReal` and
`ShownAlwaysTrails`. The replies of Mensagelo are kept in a list and ingested later,
in an order of the thread's own, so the invariant `DInv` is about old statuses: one in a
reply, or in the table, trails what Mensagelo holds now (`ResultsInOrder`,
`TableInOrder`). That goes on to hold because the ledger only moves forward
(`TrailsForward`), and `LedgerInOrder` says that what it calls sent was delivered.

`ModbusTransportProofs` proves, for any requests, queue and attempts
(`EndpointAssumption`), `AnswersAlwaysOwn` and the refinement `EndpointIsALine`.

* The protocol cannot tell a late answer from one in time, so the invariant is that a
  question is unanswered only on a connection the worker is about to close
  (`OwedInOrder`), and that what is done has a result (`ResultsInOrder`).
* A step of the real queue is one of the line only if a request has one place in it
  and is not also with the worker, and if only a handler that gave up cancels. `QInv` adds
  these to the invariant (`PlacesInOrder`, `CancelledInOrder`).

`ServicesProofs` proves the safety properties of the run services, for any modems,
generators, machines, instances, processes and faults: `TypeCorrect`,
`AlarmsAlwaysEndOnEvidence`, `AlwaysCatalogued`, `DatesAlwaysAdvance`. It assumes
(`ServicesAssumption`) that there are finitely many GRD and instances, and one of each at
least, that the global alarm is no GRD and no process is an instance, which the prefixes of the keys see to,
and that a publication is due every so many cycles, at least one (`Poller` takes
`max(1, publish_every)`). `ServicesInv` is the conjunction of an invariant for each
service, and `StepsOfServices` says that a step of `Services` is a step of one and leaves the
rest alone. The types carry most of it, with these additions:

* `GrdInv`: a collector that is reading has somebody left to read, so that the head of
  its list is a GRD.
* `ModemInv`: a counter that is not at zero says the last check was healthy, which is
  what makes the code's counter evidence.
* `CharitoInv`: a process has a condition only if it is in the file of the catalogue,
  and what is in that file is served. The file is written before the observation is;
  the property alone does not survive a crash between the two.
* `PveInv`: while the alarm of the host is not on, its date is not after the stored
  snapshot, the only one that a restart leaves; while it is on it may be, and then only
  a newer snapshot ends it. Without the first half a failing store followed by a
  restart would date an outage before the last edge.
* `GensetInv`: a reading whose breaker is about to be observed is available, with a
  position that is known.

`BackendsProofs` proves the safety properties of the run backends, all of them about the
`Spec` of `Backends` and for any relays, analysers, records, probes, requests and
bounds. `BackendsInv` is again one invariant for each service. The assumptions are
`WaitsAreHours` (the waits between retries are natural numbers, as `settings.py` makes
sure), `ProbesAssumption` (finitely many probes, and at least one is asked),
`SizesAssumption` and `BoundsAssumption` (nothing is empty, the queue of Lechu has a
place, the bounds leave room for the initial state).

* `RecordingsAlwaysWhole`, the half of `CompletedAlwaysStored` and the half of
  `LearntAlwaysKept` that are about relays. A slot only ever gets a later event. So
  whatever is read of a slot lies between what the directory said of it and what the
  slot holds now (`DirectoryInOrder`, `DownloadInOrder`); the index, read last and equal
  to the directory, closes the interval, and all blocks are of one event. That nothing is
  overwritten by something older needs `EventsInOrder`: a stored signature is never
  beyond what the relay holds. The fault is an argument of its own: the count the reading
  began with is not beyond the relay's, and what is stored at the end is the relay's.
* `LearntAlwaysKept` for the analysers: an item that is stored knows of the ratios if the
  one the turn started from did, and that is the one still stored, because only the
  thread writes items (`AnalyzerInv`).
* `AttemptsAlwaysLimited`, and the half of `CompletedAlwaysStored` about days. The
  calendar exists twice, stored and in the download in progress, which stores its own
  again at the end. `CyclesInOrder` says of both that they count every download of
  their day and have at most the attempts allowed, or belong to another day;
  `RunInOrder` that what was wanted at the start is fetched when it is saved and stored
  when it is over.
* `VerdictsAlwaysWitnessed`. A verdict is drawn from what a poll showed, and a poll shows
  what the probes found some time ago. What the probes found, and what the last poll told
  of them, the port was during this check (`OutcomesInOrder`, `FoundInOrder`); no
  more probes are asked than there is room for, none of them twice (`BatchInOrder`); and
  the flag of a lasting failure is up only if the last poll showed one (`FailureInOrder`).
* `OneMailAlways`. `MailsInOrder`: the key of a mail is that of a request for mail, and
  mails of one key have one body, because Mensagelo refuses another; so a request has
  one mail. `AnswersInOrder` adds that what was answered "ok" was accepted.
* `SessionAlwaysHonest`. The topic is appended to the list before the session is looked
  at (`RequestsInOrder`): if the network thread connects first, the look finds the
  session; if the look comes first, the network thread finds the topic. `SessionInOrder`
  is what the broker holds of the session; it adds that a stop that has said "offline",
  and that no callback has crossed, leaves no "online" to be found when it disconnects.

`BackendsTypeProofs` proves `BackendsTypeCorrect`. The types of these modules are bounds as
well (a signature is an event that happened, an attempt is one of those allowed, a
record is one the source has), and no bound is inductive without the argument that
keeps it. So `TypesInv` starts from `BackendsInv` and adds a conjunct for each kind of
value: `EventBounds`, `CountBounds`, `Parameters`, `Flags`, `RecordBounds`, `FlowKinds`,
`ProbeBounds`, `RpcBounds`, `SessionKinds`, `MailKinds`.

So every invariant, action property and refinement of a passing run is a theorem. Only
model-checked are the liveness properties, since fairness and ENABLED are out of the
prover's reach: `EventuallyClaimed`, `Converges`, `EveryNoticeSettles`,
`EveryItemSettles`, `StopEndsTheWorker`, `AlarmsCatchUp`, `BackendsCatchUp`; and the
statements of section 6, which TLC refutes. What a recursive definition computes for
every input would need induction over data, which is out of reach as well; no module
here declares one.

## 6. Where the code and its documentation disagree

Each is the counterexample of a run; PROJECT.json quotes the lines.

* mensagelo_history: `complete_message` reads the clock twice. When the second
  turns in between, the history holds a row that matches no message, and the next
  start inserts a second row for it. "sin duplicar los actuales" (`db.py:86`).
* mensagelo_poll: an error of `has_pending_message` escapes from the worker's loop and
  ends its only thread; "el worker la toma desde SQLite" (`app.py:79`) then is not so.
* grd_red: with one GRD unreadable the red zone is not evaluated, and the alarm of
  another begins in it, against `README.md:177`.
* modem_topic: a state whose publication failed and that did not last is not
  corrected; "se reintentara tras el siguiente ciclo" (`modem-link-monitor/src/app.py:115`).

More that no run is spent on, each of them reachable in the models:

* Alarmero judges deadlines by a clock reading later than the polls of the sources. An
  alarm that came back in between has its incident closed although the recovery time of
  `README.md:102` was not over. And the other way round: the start of a condition is
  fetched at one second, the condition ends after the poll, the deadline is judged at the
  next second, and an incident that was shorter than the times of `README.md:96-102`
  becomes active and its notice is queued.
* A daemon of Charito that goes off ends the alarms of its processes at once, as
  `README.md:156-160` documents. Its own alarm waits 20 minutes, theirs end after 20
  seconds: a process that is down, on a host that then stops answering, is nobody's active
  alarm meanwhile.
* A state file of the modem monitor that cannot be written cuts the check short before
  the alarm: such checks count neither for nor against its recovery.
* With the switch of the operator off the mail monitor of Lechu still starts the session,
  through `mqtt_topic_publisher.py:25`, which the log line at `app.py:92` denies.
* `stop` of the MQTT session is three calls without a lock (`mqtt_client_manager.py:69-72`,
  `mqtt_driver.py:188-201`). Its "offline" may be given up because the session is not yet
  known, then `on_connect` publishes "online" (`mqtt_client_manager.py:83`) and a clean
  disconnection leaves no will: "online" stays retained without a session. An "offline" the
  broker did not confirm is repeated by paho in the next session, after its "online". A
  start that overlaps a stop leaves a session that the driver takes for none
  (`_connected` is cleared last), so that a later stop publishes nothing.
* JSON that is not an object raises at `req.get` (`mqtt_rpc.py:126`), outside any `try`,
  and ends the only thread of the requests, which `app.py:95` starts once: later requests
  are queued and never answered. (The `summary_payload.get` of `mqtt_rpc.py:224` cannot do
  the same: the HTTP client refuses what is not an object inside the `try`.)
* A MiCOM profile that is a scale and that the table refuses (`dao_reles.py:111`,
  `relay_metadata.py:115`) schedules a retry before the fault is read
  (`relay_monitoring.py:154`), and so does every reading of the session: the fault is not
  refreshed and the reading never complete.
* The empty block of a relay without faults is, by its date format, stored as fault 0 of
  1994, or no date at all and a retry, for ever.
* A write that fails at either end of a download of the flow meters leaves the manager
  busy, or its scheduler ended, until the next restart (`sync.py:86`).

## 7. What is not modelled, and why

Within the parts that are:

* GRD: the refresh of the monitored equipment during a run; the table of GRD is fixed.
* Charito and pve-service: the metrics that raise no alarm, and history.
* Mensagelo: authentication and the listings for the dashboard.
* All: the text of alarms, the layout of payloads, logging, configuration. A
  name or a message is a model value. A malformed answer of a service that is asked is
  one value ("garbled", or a failing request), since the callers have one way out for all
  of them; of the requests Lechu is sent, what is no JSON, what is no object, what has
  nobody to answer and what is unknown are told apart, because the code does.
* HTTP and SQLite are what the code takes them for: a request arrives or raises,
  a committed transaction is there after a crash. The SMTP server accepts or
  refuses; a connection may also break after it accepted, and then `mailer.py`
  reports a failure (`SmtpAccepts`, unheard).

* Alarmero: an edge at or below the cursor, which `db.py:341` skips, and one above it that
  is already stored (`db.py:602-608`) cannot come up: a page starts after the cursor that
  was read, one thread reads and writes it, and cursor and stored events are written in
  one transaction.
* MiCOM: the decoding of samples and of the fault record; a block is the recording it
  belongs to. The readings on demand (measurements, identification) change no state. The
  local variables of a cycle are reset when it ends, which nothing reads later.
* Port probes: the order of preference among eligible probes; any may be chosen. The
  seconds a failure must last; that it lasts from one poll to another is modelled.
* Flow meters: the selection of locations and the series for charts. A list of locations
  that is empty skips the measurements, and counts as a fault of GWF.
* Session of Lechu: one request at a time is inside `stop`. paho makes no connection
  between the disconnection it was asked for and the end of its loop. `_connected` and
  `_started`, cleared one after the other, are cleared in one step; so are the
  subscriptions and the status of `on_connect` said, and a check of the mail server stored
  and the session looked at. Of what paho may repeat, only the "offline" of `stop` is kept.
* Lechu: what the read requests answer, the counters of traffic, the cache behind
  the Proxmox page.

Whole parts: the frequency projection of Alarmero, which decides nothing in the life
cycle and is filled again from the table each day; the chart history of GRD and of
Proxmox, which nothing but a chart reads. The web clients, the dashboards, the
configuration and the deployment keep no state that another part relies on.

## 8. Plan

Order: what the system promises first, breadth next, then depth of proof.

1. Done: the outbox, Mensagelo, Alarmero, notices, Modbus transport, the five services
   that raise alarms, the six that fetch and answer, disagreements with the
   documentation; proofs of every safety property of the passing runs, and of the
   three refinements.
2. `FrequencyProjection` next to `Alarmero`: the counts in memory are those of the table.
3. `PortProbe` in front of `ModemMonitor`: the alarm of the modem follows the port itself.
4. Proofs: an abstract life of an incident, which `Alarmero` implements; the verdicts of
   `ModemMonitor` as those of `PortProbe`.

## 9. How to run

With `tlc` and `tlapm` on the path, in this directory:

    tlc -workers 2 -config MCAlarmOutbox.cfg MCAlarmOutbox
    tlc -workers 2 -config MCAlarmeroCycle.cfg MCAlarmero
    tlapm AlarmOutboxProofs.tla
    tlapm MensageloProofs.tla
    tlc -workers 2 -config MCBackends.cfg MCBackends
    tlapm AlarmeroProofs.tla
    tlapm AlarmDispatchProofs.tla
    tlapm ServicesProofs.tla
    tlapm BackendsProofs.tla
    tlapm BackendsTypeProofs.tla

PROJECT.json gives for each run its module and configuration, what is expected
and which definition each property's mutant replaces.
