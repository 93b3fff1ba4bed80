------------------------------ MODULE Alarmero ------------------------------
(***************************************************************************)
(* Alarmero's synchronization thread (backend/sync_worker.py over          *)
(* backend/db.py) and the outboxes of the services it polls.               *)
(*                                                                         *)
(* A cycle retires the alarms of sources taken out of the configuration    *)
(* and takes the others one after the other: the catalogue, then the       *)
(* edges page by page, each page in one transaction and confirmed after    *)
(* the transaction is committed, then the conditions without history; at   *)
(* the end, the deadlines that the clock has reached.  Catalogue and       *)
(* cursors confirmed are remembered in memory only.  Requests and replies  *)
(* may be lost and the process may die at any step.                        *)
(*                                                                         *)
(* A source is an outbox whose changes are durable at once: AlarmOutbox    *)
(* shows that what an outbox serves is what it would serve after a crash.  *)
(***************************************************************************)
EXTENDS AlarmGenerator, AlarmLifecycle

CONSTANTS
    Sources,   \* the services config.ALARM_SOURCES may name
    SourceOf,  \* the source each alarm belongs to
    Choices,   \* <<send_start, send_end>> pairs the operator may choose
    PageLimit, \* edges in a page of GET /events (1000 in the code)
    MaxLag,    \* how far behind the clock a source may date an observation
    MaxEvents, \* bound on the edges a source emits
    MaxClock,  \* bound on the clock
    MaxFaults  \* bound on lost requests and replies, crashes and restarts

ASSUME SyncAssumption ==
    /\ Sources # {}
    /\ SourceOf \in [Alarms -> Sources]
    /\ Choices \subseteq BOOLEAN \X BOOLEAN
    /\ PageLimit \in Nat \ {0}
    /\ MaxEvents \in Nat /\ MaxClock \in Nat \ {0} /\ MaxFaults \in Nat /\ MaxLag \in Nat

VARIABLES
    outbox,     \* by source: the value of its AlarmGeneratorOutbox
    registered, \* alarms registered since their service started
    emitted,    \* history, by source: every edge, in order
    db,         \* the database: the cursor of each source, a row per alarm
    tx,         \* <<working copy>> while ingest_events is in its transaction
    worker,     \* the thread: where it is, and the page it works on
    configured, \* config.ALARM_SOURCES of the process that runs
    todo,       \* sources this cycle has still to take
    synced,     \* synchronized_sources
    etag,       \* _CATALOG_ETAGS: <<last catalogue>> of each source, or <<>>
    confirmed,  \* _ACKNOWLEDGED_CURSORS
    clock,      \* the UTC clock all containers share, in seconds
    faults      \* what has gone wrong so far

sourceVars == <<outbox, registered, emitted>>
cycleVars == <<configured, todo, synced>>
memoryVars == <<etag, confirmed>>
vars == <<outbox, registered, emitted, db, tx, worker, configured, todo, synced, etag,
          confirmed, clock, faults>>

OfSource(s) == {a \in Alarms : SourceOf[a] = s}

\* The thread: its place, the source it is at, its local variable cursor, and
\* of the page under way the edges not yet applied and has_more.
At(place, s, cursor, page, more) ==
    [pc |-> place, source |-> s, cursor |-> cursor, page |-> page, more |-> more]
NoPage == [i \in {} |-> 0]
NoSource == "none"
Idle == At("idle", NoSource, 0, NoPage, FALSE)
Picking == At("pick", NoSource, 0, NoPage, FALSE)

Fault ==
    /\ faults < MaxFaults
    /\ faults' = faults + 1

\* The lowest identifier of the page, and its edge.
NextId == CHOOSE i \in DOMAIN worker.page : \A j \in DOMAIN worker.page : i <= j
NextEdge == worker.page[NextId]

\* Where the thread goes after a page, and after the page is committed.
AfterPage == IF worker.more THEN "events" ELSE "baseline"
AfterCommit ==
    IF tx[1].cursor[worker.source] > confirmed[worker.source] THEN "ack" ELSE AfterPage

-----------------------------------------------------------------------------
(* Rows of the database *)

\* ingest_catalog: the alarms of the source that are not in the snapshot leave
\* the catalogue.
WithCatalog(d, s, snapshot) ==
    [d EXCEPT !.alarm = [a \in Alarms |->
        IF SourceOf[a] # s THEN d.alarm[a]
        ELSE IF a \in DOMAIN snapshot THEN Listed(d.alarm[a], snapshot[a])
        ELSE Unlisted(d.alarm[a])]]

\* reconcile_configured_sources: so do those of a source that was taken out.
Reconciled(d, ss) ==
    [d EXCEPT !.alarm = [a \in Alarms |->
        IF SourceOf[a] \in ss THEN d.alarm[a] ELSE Unlisted(d.alarm[a])]]

\* initialize_catalog_baselines: alarms with a condition and no state yet.
NeedsBaseline(r) == r.listed = "yes" /\ r.shown.value # "unknown" /\ r.lifecycle = "none"

WithBaselines(d, s) ==
    [d EXCEPT !.alarm = [a \in Alarms |->
        IF SourceOf[a] = s /\ NeedsBaseline(d.alarm[a])
        THEN Applied(d.alarm[a], d.alarm[a].shown.value, d.alarm[a].shown.since)
        ELSE d.alarm[a]]]

\* One turn of the loop of ingest_events: the deadline the edge has passed
\* comes first, then the condition, the catalogue and the cursor.
AtEdge(r, e) == AfterDeadlines(r, e.at)

WithEdge(d, s, i, e) ==
    [cursor |-> [d.cursor EXCEPT ![s] = i],
     alarm  |-> [d.alarm EXCEPT ![e.alarm] =
                    [Applied(AtEdge(@, e), e.value, e.at)
                        EXCEPT !.shown = [value |-> e.value, since |-> e.at]]]]

\* The errors that roll the page back: a hole in the identifiers, or an edge
\* _apply_condition refuses.  Two more cases of the code cannot come up: a page
\* starts after the cursor, so that no identifier is at or below it, and cursor and
\* lifecycle_events are written in one transaction, so that no edge after the
\* cursor has an entry there already.
Refuses(d, s, i, e) ==
    \/ i # d.cursor[s] + 1
    \/ ~Accepts(AtEdge(d.alarm[e.alarm], e), e.value, e.at)

\* process_due_transitions over the alarms of the sources synchronized.
WithDeadlines(d, ss, now) ==
    [d EXCEPT !.alarm = [a \in Alarms |->
        IF SourceOf[a] \in ss THEN AfterDeadlines(d.alarm[a], now) ELSE d.alarm[a]]]

-----------------------------------------------------------------------------
\* Mutants of the actions below.
CommitForgotten ==
    /\ worker.pc = "ingest" /\ worker.page = NoPage
    /\ tx' = <<>>
    /\ worker' = [worker EXCEPT !.pc = AfterCommit, !.cursor = tx[1].cursor[worker.source]]
    /\ UNCHANGED <<sourceVars, cycleVars, memoryVars, db, clock, faults>>

CommitBaselinesFirst ==
    /\ worker.pc = "ingest" /\ worker.page = NoPage
    /\ db' = WithBaselines(tx[1], worker.source)
    /\ tx' = <<>>
    /\ worker' = [worker EXCEPT !.pc = AfterCommit, !.cursor = tx[1].cursor[worker.source]]
    /\ UNCHANGED <<sourceVars, cycleVars, memoryVars, clock, faults>>

GiveUpKeepsTransaction ==
    /\ worker' = Picking
    /\ todo' = todo \ {worker.source}
    /\ UNCHANGED <<tx, configured, synced, registered, emitted, db, etag, confirmed, clock>>

-----------------------------------------------------------------------------
\* A first start, with every source there is.
Init ==
    /\ outbox = [s \in Sources |-> EmptyOutbox]
    /\ registered = {}
    /\ emitted = [s \in Sources |-> <<>>]
    /\ db = [cursor |-> [s \in Sources |-> 0], alarm |-> [a \in Alarms |-> NewRow]]
    /\ tx = <<>>
    /\ worker = Idle
    /\ configured = Sources
    /\ todo = {}
    /\ synced = {}
    /\ etag = [s \in Sources |-> <<>>]
    /\ confirmed = [s \in Sources |-> 0]
    /\ clock = 1
    /\ faults = 0

-----------------------------------------------------------------------------
(* The services *)

Register(a) ==
    /\ a \notin registered
    /\ registered' = registered \cup {a}
    /\ UNCHANGED <<outbox, emitted, db, tx, worker, cycleVars, memoryVars, clock, faults>>

\* A service that restarts keeps its outbox and has to register its alarms.
RestartSource(s) ==
    /\ Fault
    /\ registered \cap OfSource(s) # {}
    /\ registered' = registered \ OfSource(s)
    /\ UNCHANGED <<outbox, emitted, db, tx, worker, cycleVars, memoryVars, clock>>

\* The date is the one the service gives, which may lie behind the clock, and
\* behind the date of the condition before.
Observe(a, v, at) ==
    LET s == SourceOf[a]
    IN  /\ a \in registered
        /\ clock <= at + MaxLag
        /\ outbox[s].conditions[a].value # v
        /\ outbox[s].next <= MaxEvents
        /\ outbox' = [outbox EXCEPT ![s] = Observed(@, a, v, at)]
        /\ emitted' = IF IsEdge(outbox[s], a, v)
                      THEN [emitted EXCEPT ![s] =
                                Append(@, [alarm |-> a, value |-> v, at |-> at])]
                      ELSE emitted
        /\ UNCHANGED <<registered, db, tx, worker, cycleVars, memoryVars, clock, faults>>

Tick ==
    /\ clock < MaxClock
    /\ clock' = clock + 1
    /\ UNCHANGED <<sourceVars, db, tx, worker, cycleVars, memoryVars, faults>>

-----------------------------------------------------------------------------
(* The synchronization thread *)

StartCycle ==
    /\ worker = Idle
    /\ worker' = Picking
    /\ db' = Reconciled(db, configured)
    /\ todo' = configured
    /\ synced' = {}
    /\ UNCHANGED <<sourceVars, tx, configured, memoryVars, clock, faults>>

\* _sync_catalog: a catalogue with a new ETag is stored; then the cursor is read.
SyncCatalog(s) ==
    LET snapshot == CatalogSnapshot(registered \cap OfSource(s), outbox[s])
    IN  /\ worker = Picking /\ s \in todo
        /\ IF etag[s] = <<snapshot>>
           THEN UNCHANGED <<db, etag>>
           ELSE /\ db' = WithCatalog(db, s, snapshot)
                /\ etag' = [etag EXCEPT ![s] = <<snapshot>>]
        /\ worker' = At("events", s, db.cursor[s], NoPage, FALSE)
        /\ UNCHANGED <<sourceVars, tx, cycleVars, confirmed, clock, faults>>

\* GET /events; ingest_events then opens its transaction.
FetchEvents ==
    LET reply == EventsAfter(outbox[worker.source], worker.cursor, PageLimit)
    IN  /\ worker.pc = "events"
        /\ worker' = [worker EXCEPT !.pc = "ingest", !.page = reply.events,
                                    !.more = reply.has_more]
        /\ tx' = <<db>>
        /\ UNCHANGED <<sourceVars, db, cycleVars, memoryVars, clock, faults>>

IngestEdge ==
    /\ worker.pc = "ingest" /\ worker.page # NoPage
    /\ ~Refuses(tx[1], worker.source, NextId, NextEdge)
    /\ tx' = <<WithEdge(tx[1], worker.source, NextId, NextEdge)>>
    /\ worker' = [worker EXCEPT
                     !.page = [i \in DOMAIN worker.page \ {NextId} |-> worker.page[i]]]
    /\ UNCHANGED <<sourceVars, db, cycleVars, memoryVars, clock, faults>>

\* The cycle goes on with another source; this one is not synchronized.
GiveUp ==
    /\ worker' = Picking
    /\ todo' = todo \ {worker.source}
    /\ tx' = <<>>
    /\ UNCHANGED <<configured, synced, registered, emitted, db, etag, confirmed, clock>>

\* A refused edge rolls the whole page back.
RefuseEdge ==
    /\ worker.pc = "ingest" /\ worker.page # NoPage
    /\ Refuses(tx[1], worker.source, NextId, NextEdge)
    /\ GiveUp
    /\ UNCHANGED <<outbox, faults>>

Commit ==
    /\ worker.pc = "ingest" /\ worker.page = NoPage
    /\ db' = tx[1]
    /\ tx' = <<>>
    /\ worker' = [worker EXCEPT !.pc = AfterCommit, !.cursor = tx[1].cursor[worker.source]]
    /\ UNCHANGED <<sourceVars, cycleVars, memoryVars, clock, faults>>

\* POST /events/ack and its reply.
Acknowledge ==
    LET s == worker.source
    IN  /\ worker.pc = "ack"
        /\ AckAccepted(outbox[s], worker.cursor)
        /\ outbox' = [outbox EXCEPT ![s] = Acknowledged(@, worker.cursor)]
        /\ confirmed' = [confirmed EXCEPT ![s] = worker.cursor]
        /\ worker' = [worker EXCEPT !.pc = AfterPage]
        /\ UNCHANGED <<registered, emitted, db, tx, cycleVars, etag, clock, faults>>

\* The source takes the confirmation and Alarmero does not hear of it.
AcknowledgeUnheard ==
    LET s == worker.source
    IN  /\ worker.pc = "ack"
        /\ AckAccepted(outbox[s], worker.cursor)
        /\ Fault
        /\ outbox' = [outbox EXCEPT ![s] = Acknowledged(@, worker.cursor)]
        /\ GiveUp

\* A request to the source fails: no catalogue, no page or no confirmation.
RequestFails ==
    /\ Fault
    /\ worker.pc \in {"events", "ack"}
    /\ GiveUp
    /\ UNCHANGED outbox

CatalogFails(s) ==
    /\ Fault
    /\ worker = Picking /\ s \in todo
    /\ todo' = todo \ {s}
    /\ UNCHANGED <<sourceVars, db, tx, worker, configured, synced, memoryVars, clock>>

Baselines ==
    /\ worker.pc = "baseline"
    /\ db' = WithBaselines(db, worker.source)
    /\ worker' = Picking
    /\ todo' = todo \ {worker.source}
    /\ synced' = synced \cup {worker.source}
    /\ UNCHANGED <<sourceVars, tx, configured, memoryVars, clock, faults>>

\* process_due_transitions ends the cycle's work on the alarms.
Deadlines ==
    /\ worker = Picking /\ todo = {}
    /\ db' = WithDeadlines(db, synced, clock)
    /\ worker' = Idle
    /\ synced' = {}
    /\ UNCHANGED <<sourceVars, tx, configured, todo, memoryVars, clock, faults>>

\* The process dies, or is stopped, and is started again; with other sources, if
\* the environment was changed meanwhile.
Restart ==
    /\ Fault
    /\ configured' \in (SUBSET Sources) \ {{}}
    /\ worker' = Idle
    /\ tx' = <<>>
    /\ todo' = {}
    /\ synced' = {}
    /\ etag' = [s \in Sources |-> <<>>]
    /\ confirmed' = [s \in Sources |-> 0]
    /\ UNCHANGED <<sourceVars, db, clock>>

\* PUT of the operator's choice; the lock keeps it out of a transaction.
UpdateSettings(a, start, end) ==
    /\ tx = <<>>
    /\ db.alarm[a].listed = "yes"
    /\ db' = [db EXCEPT !.alarm[a].sendStart = start, !.alarm[a].sendEnd = end]
    /\ UNCHANGED <<sourceVars, tx, worker, cycleVars, memoryVars, clock, faults>>

WorkerStep ==
    \/ StartCycle
    \/ \E s \in Sources : SyncCatalog(s)
    \/ FetchEvents
    \/ IngestEdge
    \/ RefuseEdge
    \/ Commit
    \/ Acknowledge
    \/ Baselines
    \/ Deadlines

Next ==
    \/ \E a \in Alarms : Register(a)
    \/ \E a \in Alarms, v \in Values, at \in 1 .. clock : Observe(a, v, at)
    \/ \E s \in Sources : RestartSource(s)
    \/ Tick
    \/ WorkerStep
    \/ AcknowledgeUnheard
    \/ RequestFails
    \/ \E s \in Sources : CatalogFails(s)
    \/ Restart
    \/ \E a \in Alarms, c \in Choices : UpdateSettings(a, c[1], c[2])

Spec == Init /\ [][Next]_vars

\* The thread goes on polling, the clock goes on, and a service that restarted
\* registers its alarms again.
FairSpec ==
    /\ Spec
    /\ WF_vars(WorkerStep)
    /\ WF_vars(Tick)
    /\ \A a \in Alarms : WF_vars(Register(a))

-----------------------------------------------------------------------------
(* Properties *)

\* Every variable holds a value of its kind.
TypeOK ==
    /\ \A s \in Sources : Loadable(outbox[s])
    /\ registered \subseteq Alarms
    /\ emitted \in [Sources -> Seq(Edge)]
    /\ db \in [cursor : [Sources -> Nat], alarm : [Alarms -> Row]]
    /\ tx = <<>> \/ tx[1] \in [cursor : [Sources -> Nat], alarm : [Alarms -> Row]]
    /\ worker.pc \in {"idle", "pick", "events", "ingest", "ack", "baseline"}
    /\ worker.pc = "ingest" <=> tx # <<>>
    /\ configured \in (SUBSET Sources) \ {{}}
    /\ todo \subseteq configured /\ synced \subseteq configured
    /\ confirmed \in [Sources -> Nat]
    /\ clock \in 1 .. MaxClock
    /\ faults \in 0 .. MaxFaults

\* "persiste primero el flanco, confirma el cursor después": a source forgets
\* an edge only when the database holds it, whatever is lost or restarted.
AckedIsStored == \A s \in Sources : outbox[s].acked <= db.cursor[s]

\* The last edge of an alarm among the first n of a log, or 0.
LastEdge(l, a, n) ==
    LET own == {i \in 1 .. n : l[i].alarm = a}
    IN  IF own = {} THEN 0 ELSE CHOOSE i \in own : \A j \in own : j <= i

\* The condition Alarmero holds is the one its cursor says: that of the last
\* edge up to the cursor, or an inactive baseline when there is none.  A
\* catalogue newer than the edges never gets ahead of them (db.py:306).
StateFollowsCursor ==
    \A a \in Alarms :
        LET s == SourceOf[a]
            r == db.alarm[a]
            i == LastEdge(emitted[s], a, db.cursor[s])
        IN  IF i = 0
            THEN r.lifecycle \in {"none", "inactive"}
            ELSE /\ r.lifecycle # "none"
                 /\ r.value = emitted[s][i].value
                 /\ r.since = emitted[s][i].at

\* The status of the last incident in each state of its alarm.
StatusOf ==
    [none |-> "resolved", inactive |-> "resolved", pending_start |-> "potential",
     active |-> "active", pending_end |-> "recovering"]

Consistent(r) ==
    LET n == Len(r.incidents)
    IN  /\ \A i \in 1 .. n - 1 : r.incidents[i].status = "resolved"
        /\ n > 0 => r.incidents[n].status = StatusOf[r.lifecycle]
        /\ r.incident = IF r.lifecycle \in {"none", "inactive"} THEN Null ELSE n
        /\ r.incident = Null => r.lifecycle \in {"none", "inactive"}
        /\ r.value = "on" <=> r.lifecycle \in {"pending_start", "active"}

\* The state of an alarm and its incidents tell the same story: at most one
\* incident is open, it is the last one and the one the state points to.
IncidentsMatchState == \A a \in Alarms : Consistent(db.alarm[a])

\* An incident that never became active was shorter than the activation time.
CancelledShort(c) ==
    c.resolved # Null /\ c.qualified = Null => c.resolved < c.firstSeen + Activation

\* A notice is queued for an incident that became active; its end when it is over.
Deserved(d, r) ==
    /\ d[1] \in 1 .. Len(r.incidents)
    /\ r.incidents[d[1]].qualified # Null
    /\ d[2] = "end" => r.incidents[d[1]].resolved # Null

\* No condition that lasted the activation time ends without having become active,
\* whenever its edges arrive, together or apart; and nobody is told of an incident
\* that did not become active, or of the end of one that is not over.  A shorter
\* one may become active all the same: Deadlines judges by a clock that is later
\* than the polls, and may find a condition due that ended in between.
NoLongConditionIsMissed ==
    \A a \in Alarms :
        LET r == db.alarm[a]
        IN  /\ \A i \in 1 .. Len(r.incidents) : CancelledShort(r.incidents[i])
            /\ \A d \in r.dispatches : Deserved(d, r)

\* What is settled stays as it was: a step never touches a resolved incident, takes
\* an incident or a notice away, or moves a cursor back; and no cycle changes
\* which notices the operator chose, even for an alarm that was absent for a while.
\* The alarms of a source taken out of the configuration rest as they are.
HistoryIsFinal ==
    [][/\ \A s \in Sources : db.cursor[s] <= db'.cursor[s]
       /\ \A a \in Alarms :
              LET r == db.alarm[a]
                  q == db'.alarm[a]
              IN  /\ Len(r.incidents) <= Len(q.incidents)
                  /\ \A i \in 1 .. Len(r.incidents) :
                         r.incidents[i].status = "resolved"
                             => q.incidents[i] = r.incidents[i]
                  /\ r.dispatches \subseteq q.dispatches
                  /\ SourceOf[a] \notin configured =>
                         q.incidents = r.incidents /\ q.dispatches = r.dispatches
                  /\ \/ q.sendStart = r.sendStart /\ q.sendEnd = r.sendEnd
                     \/ UNCHANGED worker]_vars

\* An edge not yet stored is older than what comes before it of its alarm: the
\* page it is in is refused in every cycle, and its source is stuck.
GoesBack(s) ==
    \E i \in DOMAIN outbox[s].events :
        LET e == outbox[s].events[i]
            r == db.alarm[e.alarm]
        IN  /\ i > db.cursor[s]
            /\ \/ r.lifecycle # "none" /\ e.at < r.since
               \/ \E j \in DOMAIN outbox[s].events :
                      /\ db.cursor[s] < j /\ j < i
                      /\ outbox[s].events[j].alarm = e.alarm
                      /\ e.at < outbox[s].events[j].at

\* Alarmero ends up with the condition every configured source observed, and with
\* no deadline missed, once requests get through and sources stop changing; of the
\* sources whose dates do not go back.
Converges ==
    <>[](\A a \in {b \in Alarms : SourceOf[b] \in configured /\ ~GoesBack(SourceOf[b])} :
             LET c == outbox[SourceOf[a]].conditions[a]
                 r == db.alarm[a]
             IN  /\ c.value # "unknown" =>
                        r.lifecycle # "none" /\ r.value = c.value /\ r.since = c.since
                 /\ ~IsDue(r, clock))
=============================================================================
