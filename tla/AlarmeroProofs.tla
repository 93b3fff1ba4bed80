---------------------------- MODULE AlarmeroProofs ----------------------------
(***************************************************************************)
(* Proofs about Alarmero's synchronization, for any alarms, sources,       *)
(* delays, page size and number of faults:                                 *)
(*                                                                         *)
(*   AInv   it confirms to a source only what its database holds           *)
(*   RInv   the row of an alarm, its incidents and its notices tell one    *)
(*          story, in the database and in a transaction under way          *)
(*   FInv   the conditions of the database are those of the edges up to    *)
(*          its cursors, and what is still to come is in the page           *)
(*   TInv   the rest of the variables                                      *)
(*   HInv   a transaction under way is ahead of the database, and only in    *)
(*          the alarms of its source                                       *)
(*                                                                         *)
(* each of them part of the next.                                          *)
(***************************************************************************)
EXTENDS Alarmero, WellFoundedInduction, TLAPS

-----------------------------------------------------------------------------
(* The invariant *)

\* The shape of a database, as far as cursors are concerned.
Shaped(d) ==
    /\ d = [cursor |-> d.cursor, alarm |-> d.alarm]
    /\ d.cursor \in [Sources -> Nat]
    /\ d.alarm = [a \in Alarms |-> d.alarm[a]]

Working == {"events", "ingest", "ack", "baseline"}

WorkerShaped ==
    /\ worker = At(worker.pc, worker.source, worker.cursor, worker.page, worker.more)
    /\ worker.pc \in Working \cup {"idle", "pick"}
    /\ worker.cursor \in Nat
    /\ worker.pc \in Working => worker.source \in Sources

\* A transaction starts from the database, which nothing changes meanwhile.
TransactionAhead ==
    worker.pc = "ingest" =>
        /\ tx = <<tx[1]>>
        /\ Shaped(tx[1])
        /\ \A s \in Sources : db.cursor[s] <= tx[1].cursor[s]

\* What is about to be confirmed is committed.
CommittedFirst == worker.pc = "ack" => worker.cursor <= db.cursor[worker.source]

OutboxShaped ==
    /\ outbox = [s \in Sources |-> outbox[s]]
    /\ \A s \in Sources : outbox[s].acked \in Nat

AInv ==
    /\ Shaped(db)
    /\ WorkerShaped
    /\ worker.pc = "ingest" <=> tx # <<>>
    /\ TransactionAhead
    /\ CommittedFirst
    /\ OutboxShaped
    /\ AckedIsStored

-----------------------------------------------------------------------------
(* What the operations of the database do to the cursors *)

LEMMA CatalogKeepsCursors ==
    ASSUME NEW d, Shaped(d), NEW s, NEW snapshot
    PROVE  Shaped(WithCatalog(d, s, snapshot)) /\ WithCatalog(d, s, snapshot).cursor = d.cursor
BY DEF Shaped, WithCatalog

LEMMA ReconciledKeepsCursors ==
    ASSUME NEW d, Shaped(d), NEW ss
    PROVE  Shaped(Reconciled(d, ss)) /\ Reconciled(d, ss).cursor = d.cursor
BY DEF Shaped, Reconciled

LEMMA BaselinesKeepCursors ==
    ASSUME NEW d, Shaped(d), NEW s
    PROVE  Shaped(WithBaselines(d, s)) /\ WithBaselines(d, s).cursor = d.cursor
BY DEF Shaped, WithBaselines

LEMMA DeadlinesKeepCursors ==
    ASSUME NEW d, Shaped(d), NEW ss, NEW now
    PROVE  Shaped(WithDeadlines(d, ss, now)) /\ WithDeadlines(d, ss, now).cursor = d.cursor
BY DEF Shaped, WithDeadlines

\* An edge that is not refused moves the cursor of its source on by one.
LEMMA EdgeMovesCursor ==
    ASSUME NEW d, Shaped(d), NEW s \in Sources, NEW i, NEW e, ~Refuses(d, s, i, e)
    PROVE  /\ Shaped(WithEdge(d, s, i, e))
           /\ WithEdge(d, s, i, e).cursor = [d.cursor EXCEPT ![s] = d.cursor[s] + 1]
<1>1. i = d.cursor[s] + 1
  BY DEF Refuses
<1> DEFINE w == WithEdge(d, s, i, e)
<1>2. w.cursor = [d.cursor EXCEPT ![s] = i]
  BY DEF WithEdge
<1>3. w = [cursor |-> w.cursor, alarm |-> w.alarm] /\ w.alarm = [a \in Alarms |-> w.alarm[a]]
  BY DEF WithEdge, Shaped
<1>4. w.cursor \in [Sources -> Nat]
  BY <1>1, <1>2 DEF Shaped
<1> QED
  BY <1>1, <1>2, <1>3, <1>4 DEF Shaped

\* observe leaves what is confirmed alone.
LEMMA ObservedKeepsAcked ==
    ASSUME NEW o, NEW a, NEW v, NEW t
    PROVE  Observed(o, a, v, t).acked = o.acked
BY DEF Observed

\* acknowledge confirms the number it is given, or nothing.
LEMMA AcknowledgedMoves ==
    ASSUME NEW o, o.acked \in Nat, NEW n \in Nat
    PROVE  Acknowledged(o, n).acked \in {o.acked, n}
BY DEF Acknowledged

-----------------------------------------------------------------------------
(* The invariant holds at the start and is kept by every step *)

LEMMA InitAInv == Init => AInv
<1> SUFFICES ASSUME Init PROVE AInv
  OBVIOUS
<1> USE DEF Init
<1>1. Shaped(db)
  BY DEF Shaped
<1>2. worker = At("idle", NoSource, 0, NoPage, FALSE) /\ worker.pc = "idle" /\ worker.cursor = 0
  BY DEF Idle, At
<1>3. WorkerShaped /\ TransactionAhead /\ CommittedFirst /\ (worker.pc = "ingest" <=> tx # <<>>)
  BY <1>2 DEF WorkerShaped, TransactionAhead, CommittedFirst, At, Working
<1>4. OutboxShaped /\ AckedIsStored
  BY DEF OutboxShaped, AckedIsStored, EmptyOutbox
<1> QED
  BY <1>1, <1>3, <1>4 DEF AInv

\* Steps of the services and of the clock: no number is confirmed.
LEMMA SourcesKeepAInv ==
    ASSUME AInv, UNCHANGED <<db, tx, worker>>, OutboxShaped',
           \A s \in Sources : outbox'[s].acked = outbox[s].acked
    PROVE  AInv'
BY DEF AInv, WorkerShaped, TransactionAhead, CommittedFirst, AckedIsStored

\* Steps that end the work on a source or the whole cycle.
LEMMA WorkerLeaves ==
    ASSUME AInv, worker' \in {Idle, Picking}, tx' = <<>>, Shaped(db'),
           db'.cursor = db.cursor, OutboxShaped', AckedIsStored'
    PROVE  AInv'
<1>1. /\ worker'.pc \in {"idle", "pick"} /\ worker'.cursor = 0
      /\ worker' = At(worker'.pc, worker'.source, worker'.cursor, worker'.page, worker'.more)
  BY DEF Idle, Picking, At
<1> QED
  BY <1>1 DEF AInv, WorkerShaped, TransactionAhead, CommittedFirst, Working

LEMMA NextAInv == SyncAssumption /\ AInv /\ [Next]_vars => AInv'
<1> SUFFICES ASSUME SyncAssumption, AInv, [Next]_vars PROVE AInv'
  OBVIOUS
<1>0. /\ Shaped(db) /\ WorkerShaped /\ (worker.pc = "ingest" <=> tx # <<>>)
      /\ TransactionAhead /\ CommittedFirst /\ OutboxShaped /\ AckedIsStored
  BY DEF AInv
<1>s. worker.pc \in Working => worker.source \in Sources
  BY <1>0 DEF WorkerShaped
<1>1. CASE (\E a \in Alarms : Register(a)) \/ (\E s \in Sources : RestartSource(s)) \/ Tick
           \/ (\E s \in Sources : CatalogFails(s)) \/ UNCHANGED vars
  <2>1. UNCHANGED <<db, tx, worker, outbox>>
    BY <1>1 DEF Register, RestartSource, Tick, CatalogFails, vars, sourceVars
  <2> QED
    BY <1>0, <2>1, SourcesKeepAInv DEF OutboxShaped
<1>2. ASSUME NEW a \in Alarms, NEW v \in Values, NEW at \in 1 .. clock, Observe(a, v, at) PROVE AInv'
  <2>1. SourceOf[a] \in Sources
    BY DEF SyncAssumption
  <2>2. PICK s \in Sources :
           /\ outbox' = [outbox EXCEPT ![s] = Observed(outbox[s], a, v, at)]
           /\ UNCHANGED <<db, tx, worker>>
    BY <1>2, <2>1 DEF Observe
  <2>3. \A r \in Sources : outbox'[r].acked = outbox[r].acked
    BY <1>0, <2>2, ObservedKeepsAcked DEF OutboxShaped
  <2>4. OutboxShaped'
    BY <1>0, <2>2, <2>3 DEF OutboxShaped
  <2> QED
    BY <2>2, <2>3, <2>4, SourcesKeepAInv
<1>3. CASE StartCycle
  <2>1. /\ worker' = Picking /\ UNCHANGED <<tx, outbox>> /\ worker.pc = "idle"
        /\ db' = Reconciled(db, configured)
    BY <1>3 DEF StartCycle, sourceVars, Idle, At
  <2>2. Shaped(db') /\ db'.cursor = db.cursor
    BY <1>0, <2>1, ReconciledKeepsCursors
  <2> QED
    BY <1>0, <2>1, <2>2, WorkerLeaves DEF AckedIsStored, OutboxShaped
<1>4. ASSUME NEW s \in Sources, SyncCatalog(s) PROVE AInv'
  <2>1. /\ worker' = At("events", s, db.cursor[s], NoPage, FALSE)
        /\ UNCHANGED <<tx, outbox>>
        /\ worker.pc = "pick"
    BY <1>4 DEF SyncCatalog, sourceVars, Picking, At
  <2>2. Shaped(db') /\ db'.cursor = db.cursor
    <3>1. \/ db' = db
          \/ \E snapshot : db' = WithCatalog(db, s, snapshot)
      BY <1>4 DEF SyncCatalog
    <3> QED
      BY <1>0, <3>1, CatalogKeepsCursors
  <2>3. /\ worker'.pc = "events" /\ worker'.source = s /\ worker'.cursor = db.cursor[s]
        /\ worker' = At(worker'.pc, worker'.source, worker'.cursor, worker'.page, worker'.more)
    BY <2>1 DEF At
  <2>4. WorkerShaped' /\ tx' = <<>>
    BY <1>0, <2>1, <2>3 DEF WorkerShaped, Working, Shaped
  <2> QED
    BY <1>0, <2>1, <2>2, <2>3, <2>4
    DEF AInv, TransactionAhead, CommittedFirst, OutboxShaped, AckedIsStored
<1>5. CASE FetchEvents
  <2>1. /\ worker.pc = "events" /\ tx' = <<db>> /\ UNCHANGED <<db, outbox>>
        /\ \E page, more : worker' = [worker EXCEPT !.pc = "ingest", !.page = page, !.more = more]
    BY <1>5 DEF FetchEvents, sourceVars
  <2>2. /\ worker'.pc = "ingest" /\ worker'.source = worker.source
        /\ worker'.cursor = worker.cursor
        /\ worker' = At(worker'.pc, worker'.source, worker'.cursor, worker'.page, worker'.more)
    BY <1>0, <2>1 DEF WorkerShaped, At
  <2>3. WorkerShaped'
    BY <1>0, <2>1, <2>2 DEF WorkerShaped, Working
  <2>4. TransactionAhead'
    BY <1>0, <2>1 DEF TransactionAhead, Shaped
  <2> QED
    BY <1>0, <2>1, <2>2, <2>3, <2>4 DEF AInv, CommittedFirst, OutboxShaped, AckedIsStored
<1>6. CASE IngestEdge
  <2>0. worker.source \in Sources
    BY <1>6, <1>s DEF IngestEdge, Working
  <2>1. PICK s, i, e :
           /\ s \in Sources /\ worker.source = s /\ worker.pc = "ingest" /\ UNCHANGED <<db, outbox>>
           /\ ~Refuses(tx[1], s, i, e)
           /\ tx' = <<WithEdge(tx[1], s, i, e)>>
           /\ \E page : worker' = [worker EXCEPT !.page = page]
    BY <1>6, <2>0 DEF IngestEdge, sourceVars
  <2>s. s \in Sources
    BY <2>1
  <2>2. Shaped(tx[1]) /\ \A r \in Sources : db.cursor[r] <= tx[1].cursor[r]
    BY <1>0, <2>1 DEF TransactionAhead
  <2>a. tx'[1] = WithEdge(tx[1], s, i, e)
    BY <2>1
  <2>b. ~Refuses(tx[1], s, i, e)
    BY <2>1
  <2>c. PICK d : d = tx[1]
    OBVIOUS
  <2>d. Shaped(d) /\ ~Refuses(d, s, i, e) /\ tx'[1] = WithEdge(d, s, i, e)
    BY <2>2, <2>a, <2>b, <2>c
  <2>e. /\ Shaped(WithEdge(d, s, i, e))
        /\ WithEdge(d, s, i, e).cursor = [d.cursor EXCEPT ![s] = d.cursor[s] + 1]
    BY <2>s, <2>d, EdgeMovesCursor
  <2>3. /\ Shaped(tx'[1])
        /\ tx'[1].cursor = [tx[1].cursor EXCEPT ![s] = tx[1].cursor[s] + 1]
    BY <2>c, <2>d, <2>e
  <2>4. \A r \in Sources : db.cursor[r] <= tx'[1].cursor[r]
    BY <1>0, <2>2, <2>3 DEF Shaped
  <2>5. /\ worker'.pc = "ingest" /\ worker'.source = s /\ worker'.cursor = worker.cursor
        /\ worker' = At(worker'.pc, worker'.source, worker'.cursor, worker'.page, worker'.more)
    BY <1>0, <2>1 DEF WorkerShaped, At
  <2>6. WorkerShaped'
    BY <1>0, <2>s, <2>2, <2>5 DEF WorkerShaped, Working
  <2>7. TransactionAhead'
    BY <2>1, <2>3, <2>4 DEF TransactionAhead
  <2> QED
    BY <1>0, <2>1, <2>5, <2>6, <2>7 DEF AInv, CommittedFirst, OutboxShaped, AckedIsStored
<1>7. CASE Commit
  <2>1. /\ worker.pc = "ingest" /\ db' = tx[1] /\ tx' = <<>> /\ UNCHANGED outbox
        /\ worker' = [worker EXCEPT !.pc = AfterCommit,
                                    !.cursor = tx[1].cursor[worker.source]]
    BY <1>7 DEF Commit, sourceVars
  <2>2. PICK s \in Sources : s = worker.source
    BY <1>s, <2>1 DEF Working
  <2>3. Shaped(db') /\ \A r \in Sources : db.cursor[r] <= db'.cursor[r]
    BY <1>0, <2>1 DEF TransactionAhead
  <2>4. /\ worker'.pc = AfterCommit /\ worker'.source = s
        /\ worker'.cursor = db'.cursor[s]
        /\ worker' = At(worker'.pc, worker'.source, worker'.cursor, worker'.page, worker'.more)
    BY <1>0, <2>1, <2>2 DEF WorkerShaped, At
  <2>5. AfterCommit \in {"ack", "events", "baseline"}
    BY DEF AfterCommit, AfterPage
  <2>6. WorkerShaped'
    BY <2>2, <2>3, <2>4, <2>5 DEF WorkerShaped, Working, Shaped
  <2>7. CommittedFirst'
    BY <2>2, <2>3, <2>4 DEF CommittedFirst, Shaped
  <2>8. AckedIsStored'
    BY <1>0, <2>1, <2>3 DEF AckedIsStored, OutboxShaped, Shaped
  <2> QED
    BY <1>0, <2>1, <2>3, <2>4, <2>5, <2>6, <2>7, <2>8
    DEF AInv, TransactionAhead, OutboxShaped
<1>8. ASSUME worker.pc = "ack",
             outbox' = [outbox EXCEPT ![worker.source] = Acknowledged(@, worker.cursor)],
             UNCHANGED db
      PROVE  OutboxShaped' /\ AckedIsStored'
  <2>1. PICK s \in Sources : s = worker.source
    BY <1>s, <1>8 DEF Working
  <2>2. worker.cursor \in Nat /\ worker.cursor <= db.cursor[s] /\ db.cursor[s] \in Nat
    BY <1>0, <1>8, <2>1 DEF WorkerShaped, CommittedFirst, Shaped
  <2>3. outbox'[s].acked \in {outbox[s].acked, worker.cursor}
    BY <1>0, <1>8, <2>1, <2>2, AcknowledgedMoves DEF OutboxShaped
  <2>4. \A r \in Sources \ {s} : outbox'[r] = outbox[r]
    BY <1>0, <1>8, <2>1 DEF OutboxShaped
  <2>5. outbox' = [r \in Sources |-> outbox'[r]]
    BY <1>0, <1>8 DEF OutboxShaped
  <2>6. OutboxShaped'
    BY <1>0, <2>2, <2>3, <2>4, <2>5 DEF OutboxShaped
  <2>7. AckedIsStored'
    BY <1>0, <1>8, <2>2, <2>3, <2>4 DEF AckedIsStored
  <2> QED
    BY <2>6, <2>7
<1>9. CASE Acknowledge
  <2>1. /\ worker.pc = "ack" /\ UNCHANGED <<db, tx>>
        /\ outbox' = [outbox EXCEPT ![worker.source] = Acknowledged(@, worker.cursor)]
        /\ worker' = [worker EXCEPT !.pc = AfterPage]
    BY <1>9 DEF Acknowledge
  <2>2. /\ worker'.pc = AfterPage /\ worker'.source = worker.source
        /\ worker'.cursor = worker.cursor
        /\ worker' = At(worker'.pc, worker'.source, worker'.cursor, worker'.page, worker'.more)
    BY <1>0, <2>1 DEF WorkerShaped, At
  <2>3. AfterPage \in {"events", "baseline"}
    BY DEF AfterPage
  <2>4. WorkerShaped'
    BY <1>0, <2>1, <2>2, <2>3 DEF WorkerShaped, Working
  <2> QED
    BY <1>0, <1>8, <2>1, <2>2, <2>3, <2>4 DEF AInv, TransactionAhead, CommittedFirst
<1>10. CASE AcknowledgeUnheard \/ RequestFails \/ RefuseEdge
  <2>1. worker' = Picking /\ tx' = <<>> /\ UNCHANGED db
    BY <1>10 DEF AcknowledgeUnheard, RequestFails, RefuseEdge, GiveUp
  <2>2. \/ UNCHANGED outbox
        \/ /\ worker.pc = "ack"
           /\ outbox' = [outbox EXCEPT ![worker.source] = Acknowledged(@, worker.cursor)]
    BY <1>10 DEF AcknowledgeUnheard, RequestFails, RefuseEdge
  <2>3. OutboxShaped' /\ AckedIsStored'
    BY <1>0, <1>8, <2>1, <2>2 DEF OutboxShaped, AckedIsStored
  <2> QED
    BY <1>0, <2>1, <2>3, WorkerLeaves
<1>11. CASE Baselines
  <2>1. /\ worker.pc = "baseline" /\ worker' = Picking /\ UNCHANGED <<tx, outbox>>
        /\ db' = WithBaselines(db, worker.source)
    BY <1>11 DEF Baselines, sourceVars
  <2>2. Shaped(db') /\ db'.cursor = db.cursor
    BY <1>0, <2>1, BaselinesKeepCursors
  <2> QED
    BY <1>0, <2>1, <2>2, WorkerLeaves DEF OutboxShaped, AckedIsStored
<1>12. CASE Deadlines
  <2>1. /\ worker.pc = "pick" /\ worker' = Idle /\ UNCHANGED <<tx, outbox>>
        /\ db' = WithDeadlines(db, synced, clock)
    BY <1>12 DEF Deadlines, sourceVars, Picking, At
  <2>2. Shaped(db') /\ db'.cursor = db.cursor
    BY <1>0, <2>1, DeadlinesKeepCursors
  <2> QED
    BY <1>0, <2>1, <2>2, WorkerLeaves DEF OutboxShaped, AckedIsStored
<1>13. CASE Restart
  <2>1. worker' = Idle /\ tx' = <<>> /\ UNCHANGED <<db, outbox>>
    BY <1>13 DEF Restart, sourceVars
  <2> QED
    BY <1>0, <2>1, WorkerLeaves DEF OutboxShaped, AckedIsStored
<1>14. CASE \E a \in Alarms, c \in Choices : UpdateSettings(a, c[1], c[2])
  <2>1. PICK a \in Alarms, c \in Choices : UpdateSettings(a, c[1], c[2])
    BY <1>14
  <2>2. /\ tx = <<>> /\ UNCHANGED <<tx, worker, outbox>>
        /\ db' = [db EXCEPT !.alarm[a].sendStart = c[1], !.alarm[a].sendEnd = c[2]]
    BY <2>1 DEF UpdateSettings, sourceVars
  <2>3. Shaped(db') /\ db'.cursor = db.cursor
    BY <1>0, <2>2 DEF Shaped
  <2>4. worker.pc # "ingest"
    BY <1>0, <2>2
  <2> QED
    BY <1>0, <2>2, <2>3, <2>4
    DEF AInv, WorkerShaped, TransactionAhead, CommittedFirst, OutboxShaped, AckedIsStored
<1> QED
  BY <1>1, <1>2, <1>3, <1>4, <1>5, <1>6, <1>7, <1>9, <1>10, <1>11, <1>12, <1>13, <1>14
  DEF Next, WorkerStep

\* "persiste primero el flanco, confirma el cursor después": ingest_events has
\* committed whatever acknowledge_events tells the source to forget.
THEOREM ConfirmedAlwaysStored == Spec => []AckedIsStored
<1>1. SyncAssumption
  BY SyncAssumption
<1>2. AInv => AckedIsStored
  BY DEF AInv
<1> QED
  BY <1>1, <1>2, InitAInv, NextAInv, PTL DEF Spec

-----------------------------------------------------------------------------
(* Rows: the state of an alarm, its incidents and its notices *)

Open == {"pending_start", "active", "pending_end"}

RowInOrder(r) ==
    /\ r.lifecycle # "none" => r.since # Null
    /\ r.lifecycle = "none" => r.value = "off"
    /\ r.shown.value # "unknown" => r.shown.since # Null
    /\ r.lifecycle = "pending_start" => r.incidents[r.incident].firstSeen = r.since

ToldInOrder(r) ==
    /\ \A i \in 1 .. Len(r.incidents) : CancelledShort(r.incidents[i])
    /\ \A i \in 1 .. Len(r.incidents) :
         r.incidents[i].status \in {"active", "recovering"} => r.incidents[i].qualified # Null
    /\ \A d \in r.dispatches : Deserved(d, r)

Story(r) == r \in Row /\ Consistent(r) /\ RowInOrder(r) /\ ToldInOrder(r)

LEMMA StatusOfEach ==
    /\ StatusOf["none"] = "resolved" /\ StatusOf["inactive"] = "resolved"
    /\ StatusOf["pending_start"] = "potential" /\ StatusOf["active"] = "active"
    /\ StatusOf["pending_end"] = "recovering"
BY DEF StatusOf

LEMMA OpenIncident ==
    ASSUME NEW r, Story(r), r.lifecycle \in Open
    PROVE  /\ r.incident = Len(r.incidents) /\ Len(r.incidents) \in Nat \ {0}
           /\ r.incidents[r.incident] \in Incident
           /\ r.incidents[r.incident].status = StatusOf[r.lifecycle]
<1>1. r.incidents \in Seq(Incident) /\ Len(r.incidents) \in Nat
  BY DEF Story, Row
<1>2. r.incident = Len(r.incidents) /\ r.incident # Null
  BY <1>1 DEF Story, Consistent, Open, Null
<1>3. Len(r.incidents) > 0
  BY <1>1, <1>2 DEF Null
<1> QED
  BY <1>1, <1>2, <1>3 DEF Story, Consistent

\* q is r after a step of its open incident, which became c: the states agree.
Turned(r, q, c) ==
    /\ q \in Row /\ c \in Incident
    /\ q.shown = r.shown
    /\ q.incidents = [r.incidents EXCEPT ![r.incident] = c]
    /\ q.lifecycle \in {"inactive", "active", "pending_end"}
    /\ q.since # Null
    /\ q.incident = IF q.lifecycle = "inactive" THEN Null ELSE r.incident
    /\ q.value = IF q.lifecycle = "active" THEN "on" ELSE "off"
    /\ c.status = StatusOf[q.lifecycle]

\* ... and the incident and the notices of it agree.
Told(r, q, c) ==
    /\ CancelledShort(c)
    /\ c.status \in {"active", "recovering"} => c.qualified # Null
    /\ r.incidents[r.incident].qualified # Null => c.qualified # Null
    /\ r.incidents[r.incident].resolved # Null => c.resolved # Null
    /\ \A d \in q.dispatches \ r.dispatches :
          d[1] = r.incident /\ c.qualified # Null /\ (d[2] = "end" => c.resolved # Null)

LEMMA TurnedStory ==
    ASSUME NEW r, Story(r), r.lifecycle \in Open, NEW q, NEW c, Turned(r, q, c), Told(r, q, c)
    PROVE  Story(q)
<1>1. /\ r.incident = Len(r.incidents) /\ Len(r.incidents) \in Nat \ {0}
      /\ r.incidents \in Seq(Incident)
  BY OpenIncident DEF Story, Row
<1>2. /\ Len(q.incidents) = Len(r.incidents) /\ q.incidents[r.incident] = c
      /\ \A i \in 1 .. Len(r.incidents) : i # r.incident => q.incidents[i] = r.incidents[i]
  BY <1>1 DEF Turned
<1>3. Consistent(q)
  <2> DEFINE n == Len(r.incidents)
  <2>1. n \in Nat \ {0} /\ Len(q.incidents) = n /\ r.incident = n /\ q.incidents[n] = c
    BY <1>1, <1>2
  <2>2. \A i \in 1 .. n - 1 : q.incidents[i].status = "resolved"
    BY <1>1, <1>2 DEF Story, Consistent
  <2>3. q.incidents[n].status = StatusOf[q.lifecycle]
    BY <2>1 DEF Turned
  <2>4. q.incident = IF q.lifecycle \in {"none", "inactive"} THEN Null ELSE n
    BY <2>1 DEF Turned
  <2>5. q.incident = Null => q.lifecycle \in {"none", "inactive"}
    BY <2>1, <2>4 DEF Null
  <2>6. q.value = "on" <=> q.lifecycle \in {"pending_start", "active"}
    BY DEF Turned
  <2> HIDE DEF n
  <2> QED
    BY <2>1, <2>2, <2>3, <2>4, <2>5, <2>6 DEF Consistent
<1>4. RowInOrder(q)
  BY DEF Story, RowInOrder, Turned
<1>5. ToldInOrder(q)
  <2>1. \A i \in 1 .. Len(q.incidents) : /\ CancelledShort(q.incidents[i])
                                         /\ q.incidents[i].status \in {"active", "recovering"}
                                                => q.incidents[i].qualified # Null
    BY <1>1, <1>2 DEF Story, ToldInOrder, Told
  <2>2. \A d \in q.dispatches : Deserved(d, q)
    BY <1>1, <1>2 DEF Story, ToldInOrder, Deserved, Told
  <2> QED
    BY <2>1, <2>2 DEF ToldInOrder
<1> QED
  BY <1>3, <1>4, <1>5 DEF Story, Turned

LEMMA CancelledStory ==
    ASSUME NEW r, Story(r), r.lifecycle = "pending_start", NEW at \in Nat \ {Null}, at < r.since + Activation
    PROVE  Story(Cancelled(r, at))
<1> DEFINE q == Cancelled(r, at)
           b == r.incidents[r.incident]
           c == [b EXCEPT !.status = "resolved", !.resolved = at]
<1>1. /\ r.incident = Len(r.incidents) /\ Len(r.incidents) \in Nat \ {0}
      /\ b \in Incident /\ b.status = StatusOf["pending_start"]
      /\ r.lifecycle \in Open
  BY OpenIncident DEF Open
<1>2. /\ r \in Row /\ r.incidents \in Seq(Incident) /\ r.since \in Nat \ {Null}
      /\ r.value = "on"
      /\ r.dispatches \in SUBSET (Nat \X {"start", "end"})
  BY DEF Story, RowInOrder, Consistent, Row, Null
<1>3. at \in Nat \ {Null}
  BY <1>2, DelaysAssumption DEF Null
<1>4. b.status \in {"active", "recovering"} => b.qualified # Null
  BY <1>1, <1>2 DEF Story, ToldInOrder
<1>5. /\ c \in Incident
      /\ c.status = "resolved" /\ c.resolved = at /\ c.resolved # Null
      /\ c.firstSeen = b.firstSeen /\ c.qualified = b.qualified
  BY <1>1, <1>3, <1>4, StatusOfEach DEF Incident, Null
<1>6. q = [r EXCEPT !.lifecycle = "inactive", !.value = "off", !.since = at,
                 !.incident = Null, !.incidents[r.incident] = c]
  BY DEF Cancelled
<1> HIDE DEF c, b
<1>7. q.dispatches = r.dispatches
  BY <1>2, <1>6 DEF Row
<1>8. /\ q.shown = r.shown /\ q.lifecycle = "inactive" /\ q.since # Null
      /\ q.value = "off"
      /\ q.incident = Null
      /\ q.incidents = [r.incidents EXCEPT ![r.incident] = c]
  BY <1>2, <1>6 DEF Row
<1>9. q \in Row
  <2>1. [r.incidents EXCEPT ![r.incident] = c] \in Seq(Incident) /\ r.incident \in Nat
    BY <1>1, <1>2, <1>5
  <2>2. q.dispatches \in SUBSET (Nat \X {"start", "end"})
    BY <1>1, <1>2, <1>7
  <2>3. Null \in Nat /\ at \in Nat
    BY <1>3 DEF Null
  <2>4. q = [r EXCEPT !.lifecycle = "inactive", !.value = "off", !.since = at,
                 !.incident = Null, !.incidents = [r.incidents EXCEPT ![r.incident] = c]]
    BY <1>2, <1>6 DEF Row
  <2> DEFINE is == [r.incidents EXCEPT ![r.incident] = c]
             ds == q.dispatches
  <2>5. is \in Seq(Incident) /\ ds \in SUBSET (Nat \X {"start", "end"})
    BY <2>1, <2>2
  <2>6. q = [r EXCEPT !.lifecycle = "inactive", !.value = "off", !.since = at,
                 !.incident = Null, !.incidents = is]
    BY <1>7, <2>4
  <2> HIDE DEF q, is, ds
  <2> QED
    BY <1>2, <2>1, <2>3, <2>5, <2>6 DEF Row
<1>10. Turned(r, q, c)
  BY <1>5, <1>8, <1>9, StatusOfEach DEF Turned
<1>11. CancelledShort(c)
  BY <1>1, <1>2, <1>5, StatusOfEach, DelaysAssumption DEF CancelledShort, Story, RowInOrder, ToldInOrder, Null, b
<1>12. Told(r, q, c)
  BY <1>5, <1>7, <1>11, StatusOfEach DEF Told, b
<1> QED
  BY <1>1, <1>10, <1>12, TurnedStory

LEMMA RecoveringStory ==
    ASSUME NEW r, Story(r), r.lifecycle = "active", NEW at \in Nat \ {Null}
    PROVE  Story(Recovering(r, at))
<1> DEFINE q == Recovering(r, at)
           b == r.incidents[r.incident]
           c == [b EXCEPT !.status = "recovering", !.recovering = at]
<1>1. /\ r.incident = Len(r.incidents) /\ Len(r.incidents) \in Nat \ {0}
      /\ b \in Incident /\ b.status = StatusOf["active"]
      /\ r.lifecycle \in Open
  BY OpenIncident DEF Open
<1>2. /\ r \in Row /\ r.incidents \in Seq(Incident) /\ r.since \in Nat \ {Null}
      /\ r.value = "on"
      /\ r.dispatches \in SUBSET (Nat \X {"start", "end"})
  BY DEF Story, RowInOrder, Consistent, Row, Null
<1>3. at \in Nat \ {Null}
  BY <1>2, DelaysAssumption DEF Null
<1>4. b.status \in {"active", "recovering"} => b.qualified # Null
  BY <1>1, <1>2 DEF Story, ToldInOrder
<1>5. /\ c \in Incident
      /\ c.status = "recovering" /\ c.resolved = b.resolved
      /\ c.firstSeen = b.firstSeen /\ c.qualified = b.qualified /\ c.qualified # Null
  BY <1>1, <1>3, <1>4, StatusOfEach DEF Incident, Null
<1>6. q = [r EXCEPT !.lifecycle = "pending_end", !.value = "off", !.since = at,
                 !.incidents[r.incident] = c]
  BY DEF Recovering
<1> HIDE DEF c, b
<1>7. q.dispatches = r.dispatches
  BY <1>2, <1>6 DEF Row
<1>8. /\ q.shown = r.shown /\ q.lifecycle = "pending_end" /\ q.since # Null
      /\ q.value = "off"
      /\ q.incident = r.incident
      /\ q.incidents = [r.incidents EXCEPT ![r.incident] = c]
  BY <1>2, <1>6 DEF Row
<1>9. q \in Row
  <2>1. [r.incidents EXCEPT ![r.incident] = c] \in Seq(Incident) /\ r.incident \in Nat
    BY <1>1, <1>2, <1>5
  <2>2. q.dispatches \in SUBSET (Nat \X {"start", "end"})
    BY <1>1, <1>2, <1>7
  <2>3. Null \in Nat /\ at \in Nat
    BY <1>3 DEF Null
  <2>4. q = [r EXCEPT !.lifecycle = "pending_end", !.value = "off", !.since = at,
                 !.incidents = [r.incidents EXCEPT ![r.incident] = c]]
    BY <1>2, <1>6 DEF Row
  <2> DEFINE is == [r.incidents EXCEPT ![r.incident] = c]
             ds == q.dispatches
  <2>5. is \in Seq(Incident) /\ ds \in SUBSET (Nat \X {"start", "end"})
    BY <2>1, <2>2
  <2>6. q = [r EXCEPT !.lifecycle = "pending_end", !.value = "off", !.since = at,
                 !.incidents = is]
    BY <1>7, <2>4
  <2> HIDE DEF q, is, ds
  <2> QED
    BY <1>2, <2>1, <2>3, <2>5, <2>6 DEF Row
<1>10. Turned(r, q, c)
  BY <1>5, <1>8, <1>9, StatusOfEach DEF Turned
<1>11. CancelledShort(c)
  BY <1>1, <1>2, <1>5, StatusOfEach, DelaysAssumption DEF CancelledShort, Story, RowInOrder, ToldInOrder, Null, b
<1>12. Told(r, q, c)
  BY <1>5, <1>7, <1>11, StatusOfEach DEF Told, b
<1> QED
  BY <1>1, <1>10, <1>12, TurnedStory

LEMMA ActiveAgainStory ==
    ASSUME NEW r, Story(r), r.lifecycle = "pending_end", NEW at \in Nat \ {Null}
    PROVE  Story(ActiveAgain(r, at))
<1> DEFINE q == ActiveAgain(r, at)
           b == r.incidents[r.incident]
           c == [b EXCEPT !.status = "active", !.recovering = Null]
<1>1. /\ r.incident = Len(r.incidents) /\ Len(r.incidents) \in Nat \ {0}
      /\ b \in Incident /\ b.status = StatusOf["pending_end"]
      /\ r.lifecycle \in Open
  BY OpenIncident DEF Open
<1>2. /\ r \in Row /\ r.incidents \in Seq(Incident) /\ r.since \in Nat \ {Null}
      /\ r.value = "off"
      /\ r.dispatches \in SUBSET (Nat \X {"start", "end"})
  BY DEF Story, RowInOrder, Consistent, Row, Null
<1>3. at \in Nat \ {Null}
  BY <1>2, DelaysAssumption DEF Null
<1>4. b.status \in {"active", "recovering"} => b.qualified # Null
  BY <1>1, <1>2 DEF Story, ToldInOrder
<1>5. /\ c \in Incident
      /\ c.status = "active" /\ c.resolved = b.resolved
      /\ c.firstSeen = b.firstSeen /\ c.qualified = b.qualified /\ c.qualified # Null
  BY <1>1, <1>3, <1>4, StatusOfEach DEF Incident, Null
<1>6. q = [r EXCEPT !.lifecycle = "active", !.value = "on", !.since = at,
                 !.incidents[r.incident] = c]
  BY DEF ActiveAgain
<1> HIDE DEF c, b
<1>7. q.dispatches = r.dispatches
  BY <1>2, <1>6 DEF Row
<1>8. /\ q.shown = r.shown /\ q.lifecycle = "active" /\ q.since # Null
      /\ q.value = "on"
      /\ q.incident = r.incident
      /\ q.incidents = [r.incidents EXCEPT ![r.incident] = c]
  BY <1>2, <1>6 DEF Row
<1>9. q \in Row
  <2>1. [r.incidents EXCEPT ![r.incident] = c] \in Seq(Incident) /\ r.incident \in Nat
    BY <1>1, <1>2, <1>5
  <2>2. q.dispatches \in SUBSET (Nat \X {"start", "end"})
    BY <1>1, <1>2, <1>7
  <2>3. Null \in Nat /\ at \in Nat
    BY <1>3 DEF Null
  <2>4. q = [r EXCEPT !.lifecycle = "active", !.value = "on", !.since = at,
                 !.incidents = [r.incidents EXCEPT ![r.incident] = c]]
    BY <1>2, <1>6 DEF Row
  <2> DEFINE is == [r.incidents EXCEPT ![r.incident] = c]
             ds == q.dispatches
  <2>5. is \in Seq(Incident) /\ ds \in SUBSET (Nat \X {"start", "end"})
    BY <2>1, <2>2
  <2>6. q = [r EXCEPT !.lifecycle = "active", !.value = "on", !.since = at,
                 !.incidents = is]
    BY <1>7, <2>4
  <2> HIDE DEF q, is, ds
  <2> QED
    BY <1>2, <2>1, <2>3, <2>5, <2>6 DEF Row
<1>10. Turned(r, q, c)
  BY <1>5, <1>8, <1>9, StatusOfEach DEF Turned
<1>11. CancelledShort(c)
  BY <1>1, <1>2, <1>5, StatusOfEach, DelaysAssumption DEF CancelledShort, Story, RowInOrder, ToldInOrder, Null, b
<1>12. Told(r, q, c)
  BY <1>5, <1>7, <1>11, StatusOfEach DEF Told, b
<1> QED
  BY <1>1, <1>10, <1>12, TurnedStory

LEMMA ActivatedStory ==
    ASSUME NEW r, Story(r), r.lifecycle = "pending_start"
    PROVE  Story(Activated(r))
<1> DEFINE q == Activated(r)
           b == r.incidents[r.incident]
           c == [b EXCEPT !.status = "active", !.qualified = r.since + Activation]
<1>1. /\ r.incident = Len(r.incidents) /\ Len(r.incidents) \in Nat \ {0}
      /\ b \in Incident /\ b.status = StatusOf["pending_start"]
      /\ r.lifecycle \in Open
  BY OpenIncident DEF Open
<1>2. /\ r \in Row /\ r.incidents \in Seq(Incident) /\ r.since \in Nat \ {Null}
      /\ r.value = "on"
      /\ r.dispatches \in SUBSET (Nat \X {"start", "end"})
  BY DEF Story, RowInOrder, Consistent, Row, Null
<1>3. r.since + Activation \in Nat \ {Null}
  BY <1>2, DelaysAssumption DEF Null
<1>4. b.status \in {"active", "recovering"} => b.qualified # Null
  BY <1>1, <1>2 DEF Story, ToldInOrder
<1>5. /\ c \in Incident
      /\ c.status = "active" /\ c.resolved = b.resolved
      /\ c.firstSeen = b.firstSeen /\ c.qualified # Null
  BY <1>1, <1>3, <1>4, StatusOfEach DEF Incident, Null
<1>6. q = [r EXCEPT !.lifecycle = "active", !.incidents[r.incident] = c,
                 !.dispatches = IF r.sendStart THEN r.dispatches \cup {<<r.incident, "start">>} ELSE r.dispatches]
  BY DEF Activated
<1> HIDE DEF c, b
<1>7. q.dispatches = IF r.sendStart THEN r.dispatches \cup {<<r.incident, "start">>} ELSE r.dispatches
  BY <1>2, <1>6 DEF Row
<1>8. /\ q.shown = r.shown /\ q.lifecycle = "active" /\ q.since # Null
      /\ q.value = "on"
      /\ q.incident = r.incident
      /\ q.incidents = [r.incidents EXCEPT ![r.incident] = c]
  BY <1>2, <1>6 DEF Row
<1>9. q \in Row
  <2>1. [r.incidents EXCEPT ![r.incident] = c] \in Seq(Incident) /\ r.incident \in Nat
    BY <1>1, <1>2, <1>5
  <2>2. q.dispatches \in SUBSET (Nat \X {"start", "end"})
    BY <1>1, <1>2, <1>7
  <2>3. Null \in Nat
    BY  DEF Null
  <2>4. q = [r EXCEPT !.lifecycle = "active", !.incidents = [r.incidents EXCEPT ![r.incident] = c],
                 !.dispatches = IF r.sendStart THEN r.dispatches \cup {<<r.incident, "start">>} ELSE r.dispatches]
    BY <1>2, <1>6 DEF Row
  <2> DEFINE is == [r.incidents EXCEPT ![r.incident] = c]
             ds == q.dispatches
  <2>5. is \in Seq(Incident) /\ ds \in SUBSET (Nat \X {"start", "end"})
    BY <2>1, <2>2
  <2>6. q = [r EXCEPT !.lifecycle = "active", !.incidents = is, !.dispatches = ds]
    BY <1>7, <2>4
  <2> HIDE DEF q, is, ds
  <2> QED
    BY <1>2, <2>1, <2>3, <2>5, <2>6 DEF Row
<1>10. Turned(r, q, c)
  BY <1>5, <1>8, <1>9, StatusOfEach DEF Turned
<1>11. CancelledShort(c)
  BY <1>1, <1>2, <1>5, StatusOfEach, DelaysAssumption DEF CancelledShort, Story, RowInOrder, ToldInOrder, Null, b
<1>12. Told(r, q, c)
  BY <1>5, <1>7, <1>11, StatusOfEach DEF Told, b
<1> QED
  BY <1>1, <1>10, <1>12, TurnedStory

LEMMA ResolvedStory ==
    ASSUME NEW r, Story(r), r.lifecycle = "pending_end"
    PROVE  Story(Resolved(r))
<1> DEFINE q == Resolved(r)
           b == r.incidents[r.incident]
           c == [b EXCEPT !.status = "resolved", !.resolved = r.since + Recovery]
<1>1. /\ r.incident = Len(r.incidents) /\ Len(r.incidents) \in Nat \ {0}
      /\ b \in Incident /\ b.status = StatusOf["pending_end"]
      /\ r.lifecycle \in Open
  BY OpenIncident DEF Open
<1>2. /\ r \in Row /\ r.incidents \in Seq(Incident) /\ r.since \in Nat \ {Null}
      /\ r.value = "off"
      /\ r.dispatches \in SUBSET (Nat \X {"start", "end"})
  BY DEF Story, RowInOrder, Consistent, Row, Null
<1>3. r.since + Recovery \in Nat \ {Null}
  BY <1>2, DelaysAssumption DEF Null
<1>4. b.status \in {"active", "recovering"} => b.qualified # Null
  BY <1>1, <1>2 DEF Story, ToldInOrder
<1>5. /\ c \in Incident
      /\ c.status = "resolved" /\ c.resolved # Null
      /\ c.firstSeen = b.firstSeen /\ c.qualified = b.qualified /\ c.qualified # Null
  BY <1>1, <1>3, <1>4, StatusOfEach DEF Incident, Null
<1>6. q = [r EXCEPT !.lifecycle = "inactive", !.incident = Null, !.incidents[r.incident] = c,
                 !.dispatches = IF r.sendEnd THEN r.dispatches \cup {<<r.incident, "end">>} ELSE r.dispatches]
  BY DEF Resolved
<1> HIDE DEF c, b
<1>7. q.dispatches = IF r.sendEnd THEN r.dispatches \cup {<<r.incident, "end">>} ELSE r.dispatches
  BY <1>2, <1>6 DEF Row
<1>8. /\ q.shown = r.shown /\ q.lifecycle = "inactive" /\ q.since # Null
      /\ q.value = "off"
      /\ q.incident = Null
      /\ q.incidents = [r.incidents EXCEPT ![r.incident] = c]
  BY <1>2, <1>6 DEF Row
<1>9. q \in Row
  <2>1. [r.incidents EXCEPT ![r.incident] = c] \in Seq(Incident) /\ r.incident \in Nat
    BY <1>1, <1>2, <1>5
  <2>2. q.dispatches \in SUBSET (Nat \X {"start", "end"})
    BY <1>1, <1>2, <1>7
  <2>3. Null \in Nat
    BY  DEF Null
  <2>4. q = [r EXCEPT !.lifecycle = "inactive", !.incident = Null, !.incidents = [r.incidents EXCEPT ![r.incident] = c],
                 !.dispatches = IF r.sendEnd THEN r.dispatches \cup {<<r.incident, "end">>} ELSE r.dispatches]
    BY <1>2, <1>6 DEF Row
  <2> DEFINE is == [r.incidents EXCEPT ![r.incident] = c]
             ds == q.dispatches
  <2>5. is \in Seq(Incident) /\ ds \in SUBSET (Nat \X {"start", "end"})
    BY <2>1, <2>2
  <2>6. q = [r EXCEPT !.lifecycle = "inactive", !.incident = Null, !.incidents = is, !.dispatches = ds]
    BY <1>7, <2>4
  <2> HIDE DEF q, is, ds
  <2> QED
    BY <1>2, <2>1, <2>3, <2>5, <2>6 DEF Row
<1>10. Turned(r, q, c)
  BY <1>5, <1>8, <1>9, StatusOfEach DEF Turned
<1>11. CancelledShort(c)
  BY <1>1, <1>2, <1>5, StatusOfEach, DelaysAssumption DEF CancelledShort, Story, RowInOrder, ToldInOrder, Null, b
<1>12. Told(r, q, c)
  BY <1>5, <1>7, <1>11, StatusOfEach DEF Told, b
<1> QED
  BY <1>1, <1>10, <1>12, TurnedStory

LEMMA StartedStory ==
    ASSUME NEW r, Story(r), r.lifecycle \in {"none", "inactive"}, NEW at \in Nat \ {Null}
    PROVE  Story(Started(r, at))
<1> DEFINE q == Started(r, at)
           n == Len(r.incidents)
           c == Potential(at)
           is == Append(r.incidents, c)
<1>1. /\ r \in Row /\ r.incidents \in Seq(Incident) /\ n \in Nat /\ at \in Nat
      /\ r.dispatches \in SUBSET (Nat \X {"start", "end"})
  BY DEF Story, Row
<1>2. /\ c \in Incident /\ c.status = "potential" /\ c.firstSeen = at
      /\ c.qualified = Null /\ c.resolved = Null
  BY DEF Potential, Incident, Null
<1>3. q = [r EXCEPT !.lifecycle = "pending_start", !.value = "on", !.since = at,
                    !.incident = n + 1, !.incidents = is]
  BY <1>1 DEF Started, Row
<1> HIDE DEF c
<1>4. /\ is \in Seq(Incident) /\ Len(is) = n + 1 /\ is[n + 1] = c
      /\ \A i \in 1 .. n : is[i] = r.incidents[i]
  BY <1>1, <1>2
<1> HIDE DEF q, is, n
<1>5. /\ q.shown = r.shown /\ q.lifecycle = "pending_start" /\ q.value = "on" /\ q.since = at
      /\ q.incident = n + 1 /\ q.incidents = is /\ q.dispatches = r.dispatches
  BY <1>1, <1>3 DEF Row
<1>6. q \in Row
  <2>1. PICK k : k = n + 1
    OBVIOUS
  <2>2. k \in Nat
    BY <1>1, <2>1
  <2>3. q = [r EXCEPT !.lifecycle = "pending_start", !.value = "on", !.since = at,
                      !.incident = k, !.incidents = is]
    BY <1>3, <2>1
  <2> QED
    BY <1>1, <1>4, <2>2, <2>3 DEF Row
<1>7. \A i \in 1 .. n : r.incidents[i].status = "resolved"
  BY <1>1, StatusOfEach DEF Story, Consistent, n
<1>8. Consistent(q)
  <2>1. \A i \in 1 .. Len(q.incidents) - 1 : q.incidents[i].status = "resolved"
    BY <1>1, <1>4, <1>5, <1>7
  <2>2. q.incidents[Len(q.incidents)].status = StatusOf[q.lifecycle]
    BY <1>2, <1>4, <1>5, StatusOfEach
  <2>3. q.incident = Len(q.incidents) /\ q.incident # Null
    BY <1>1, <1>4, <1>5 DEF Null
  <2> QED
    BY <1>5, <2>1, <2>2, <2>3 DEF Consistent
<1>9. RowInOrder(q)
  <2>1. q.incidents[q.incident].firstSeen = at
    BY <1>2, <1>4, <1>5
  <2> QED
    BY <1>5, <2>1 DEF RowInOrder, Story
<1>10. ToldInOrder(q)
  <2>1. \A i \in 1 .. n : /\ CancelledShort(q.incidents[i])
                          /\ q.incidents[i].status \in {"active", "recovering"}
                                 => q.incidents[i].qualified # Null
    BY <1>4, <1>5 DEF Story, ToldInOrder, n
  <2>2. CancelledShort(c)
    BY <1>2 DEF CancelledShort
  <2>3. \A i \in 1 .. n + 1 : i \in 1 .. n \/ i = n + 1
    BY <1>1
  <2>4. \A i \in 1 .. Len(q.incidents) :
            /\ CancelledShort(q.incidents[i])
            /\ q.incidents[i].status \in {"active", "recovering"}
                   => q.incidents[i].qualified # Null
    BY <1>2, <1>4, <1>5, <2>1, <2>2, <2>3
  <2>5. \A d \in q.dispatches : Deserved(d, q)
    <3> SUFFICES ASSUME NEW d \in r.dispatches PROVE Deserved(d, q)
      BY <1>5
    <3>1. Deserved(d, r)
      BY DEF Story, ToldInOrder
    <3>2. d[1] \in 1 .. n /\ q.incidents[d[1]] = r.incidents[d[1]]
      BY <1>4, <1>5, <3>1 DEF Deserved, n
    <3> QED
      BY <1>1, <1>4, <1>5, <3>1, <3>2 DEF Deserved
  <2> QED
    BY <2>4, <2>5 DEF ToldInOrder
<1> QED
  BY <1>6, <1>8, <1>9, <1>10 DEF Story, q

\* A row whose incidents and notices stay: enough that the state agrees with them.
LEMMA QuietStory ==
    ASSUME NEW r, Story(r), NEW q, q \in Row, q.incidents = r.incidents,
           q.dispatches = r.dispatches, q.incident = r.incident, q.value = r.value,
           q.lifecycle \in {"none", "inactive"} <=> r.lifecycle \in {"none", "inactive"},
           q.lifecycle \in Open => q.lifecycle = r.lifecycle /\ q.since = r.since,
           q.lifecycle = "inactive" => q.since # Null,
           q.shown.value # "unknown" => q.shown.since # Null
    PROVE  Story(q)
<1>1. q.lifecycle \in Open \cup {"none", "inactive"} /\ r.lifecycle \in Open \cup {"none", "inactive"}
  BY DEF Row, Open, Story
<1>2. StatusOf[q.lifecycle] = StatusOf[r.lifecycle]
  BY <1>1, StatusOfEach DEF Open
<1>3. Consistent(q)
  <2>1. q.value = "on" <=> q.lifecycle \in {"pending_start", "active"}
    BY <1>1 DEF Consistent, Story, Open
  <2> QED
    BY <1>2, <2>1 DEF Consistent, Story
<1>4. RowInOrder(q)
  <2>1. q.lifecycle = "none" => q.value = "off"
    BY DEF Story, Row, Consistent
  <2>2. q.lifecycle = "pending_start" => q.incidents[q.incident].firstSeen = q.since
    BY DEF Story, RowInOrder, Open
  <2>3. q.lifecycle # "none" => q.since # Null
    BY <1>1 DEF Story, RowInOrder, Open
  <2> QED
    BY <2>1, <2>2, <2>3 DEF RowInOrder
<1>5. ToldInOrder(q)
  BY DEF ToldInOrder, Story, Deserved
<1> QED
  BY <1>3, <1>4, <1>5 DEF Story

LEMMA BaselineStory ==
    ASSUME NEW r, Story(r), r.lifecycle = "none", NEW at \in Nat \ {Null}
    PROVE  Story(BaselineInactive(r, at))
<1> DEFINE q == BaselineInactive(r, at)
<1>1. r \in Row /\ r.value = "off"
  BY DEF Story, RowInOrder
<1>2. q = [r EXCEPT !.lifecycle = "inactive", !.value = "off", !.since = at]
  BY DEF BaselineInactive
<1>3. q \in Row
  BY <1>1, <1>2 DEF Row
<1>4. /\ q.incidents = r.incidents /\ q.dispatches = r.dispatches /\ q.incident = r.incident
      /\ q.value = r.value /\ q.lifecycle = "inactive" /\ q.since = at /\ q.shown = r.shown
  BY <1>1, <1>2 DEF Row
<1>5. r.shown.value # "unknown" => r.shown.since # Null
  BY DEF Story, RowInOrder
<1> HIDE DEF q
<1>6. Story(q)
  BY <1>3, <1>4, <1>5, QuietStory DEF Open
<1> QED
  BY <1>6 DEF q

\* The rows ingest_catalog, the operator and the history of conditions leave.
LEMMA ListedStory ==
    ASSUME NEW r, Story(r), NEW c \in Condition, c.value # "unknown" => c.since # Null
    PROVE  Story(Listed(r, c))
<1> DEFINE q == Listed(r, c)
<1>1. r \in Row /\ c \in [value : {"unknown", "off", "on"}, since : Nat]
  BY DEF Story, Condition, Values
<1>2. q = [r EXCEPT !.listed = "yes", !.shown = c]
  BY DEF Listed
<1>3. q \in Row
  BY <1>1, <1>2 DEF Row
<1>4. /\ q.incidents = r.incidents /\ q.dispatches = r.dispatches /\ q.incident = r.incident
      /\ q.value = r.value /\ q.lifecycle = r.lifecycle /\ q.since = r.since /\ q.shown = c
  BY <1>1, <1>2 DEF Row
<1>5. r.lifecycle # "none" => r.since # Null
  BY DEF Story, RowInOrder
<1> HIDE DEF q
<1>6. Story(q)
  BY <1>3, <1>4, <1>5, QuietStory
<1> QED
  BY <1>6 DEF q

LEMMA ShownStory ==
    ASSUME NEW r, Story(r), NEW v \in Values, NEW at \in Nat \ {Null}
    PROVE  Story([r EXCEPT !.shown = [value |-> v, since |-> at]])
<1> DEFINE c == [value |-> v, since |-> at]
           q == [r EXCEPT !.shown = c]
<1>1. r \in Row /\ c \in [value : {"unknown", "off", "on"}, since : Nat] /\ c.since # Null
  BY DEF Story, Values
<1> HIDE DEF c
<1>3. q \in Row
  BY <1>1 DEF Row
<1>4. /\ q.incidents = r.incidents /\ q.dispatches = r.dispatches /\ q.incident = r.incident
      /\ q.value = r.value /\ q.lifecycle = r.lifecycle /\ q.since = r.since /\ q.shown = c
  BY <1>1 DEF Row
<1>5. r.lifecycle # "none" => r.since # Null
  BY DEF Story, RowInOrder
<1>6. Story(q)
  <2> HIDE DEF q
  <2> QED
    BY <1>1, <1>3, <1>4, <1>5, QuietStory
<1> QED
  BY <1>6 DEF q, c

LEMMA UnlistedStory ==
    ASSUME NEW r, Story(r)
    PROVE  Story(Unlisted(r))
<1> DEFINE q == [r EXCEPT !.listed = "no"]
<1>1. r \in Row
  BY DEF Story
<1>3. q \in Row
  BY <1>1 DEF Row
<1>4. /\ q.incidents = r.incidents /\ q.dispatches = r.dispatches /\ q.incident = r.incident
      /\ q.value = r.value /\ q.lifecycle = r.lifecycle /\ q.since = r.since /\ q.shown = r.shown
  BY <1>1 DEF Row
<1>5. /\ r.lifecycle # "none" => r.since # Null
      /\ r.shown.value # "unknown" => r.shown.since # Null
  BY DEF Story, RowInOrder
<1>6. Story(q)
  <2> HIDE DEF q
  <2> QED
    BY <1>3, <1>4, <1>5, QuietStory
<1> QED
  BY <1>6 DEF Unlisted

LEMMA ChosenStory ==
    ASSUME NEW r, Story(r), NEW start \in BOOLEAN, NEW end \in BOOLEAN
    PROVE  Story([r EXCEPT !.sendStart = start, !.sendEnd = end])
<1> DEFINE q == [r EXCEPT !.sendStart = start, !.sendEnd = end]
<1>1. r \in Row
  BY DEF Story
<1>3. q \in Row
  BY <1>1 DEF Row
<1>4. /\ q.incidents = r.incidents /\ q.dispatches = r.dispatches /\ q.incident = r.incident
      /\ q.value = r.value /\ q.lifecycle = r.lifecycle /\ q.since = r.since /\ q.shown = r.shown
  BY <1>1 DEF Row
<1>5. /\ r.lifecycle # "none" => r.since # Null
      /\ r.shown.value # "unknown" => r.shown.since # Null
  BY DEF Story, RowInOrder
<1>6. Story(q)
  <2> HIDE DEF q
  <2> QED
    BY <1>3, <1>4, <1>5, QuietStory
<1> QED
  BY <1>6 DEF q

\* _process_due_transitions: a row that is due is no longer pending afterwards.
LEMMA DeadlineStory ==
    ASSUME NEW r, Story(r), NEW now \in Nat
    PROVE  /\ Story(AfterDeadlines(r, now))
           /\ AfterDeadlines(r, now).listed = r.listed
           /\ AfterDeadlines(r, now).value = r.value
           /\ AfterDeadlines(r, now).since = r.since
           /\ AfterDeadlines(r, now).shown = r.shown
           /\ AfterDeadlines(r, now).lifecycle \in {"none", "inactive"} \/ r.lifecycle \in Open
           /\ AfterDeadlines(r, now).lifecycle = "none" <=> r.lifecycle = "none"
           /\ AfterDeadlines(r, now).listed = "yes" /\ AfterDeadlines(r, now).lifecycle = "pending_start"
                => now < AfterDeadlines(r, now).since + Activation
<1> DEFINE q == AfterDeadlines(r, now)
<1>1. r \in Row /\ r.since \in Nat /\ r.lifecycle \in Open \cup {"none", "inactive"}
  BY DEF Story, Row, Open
<1>2. CASE r.listed = "yes" /\ IsDue(r, now) /\ r.lifecycle = "pending_start"
  <2>1. q = Activated(r) /\ Story(q)
    BY <1>2, ActivatedStory DEF AfterDeadlines
  <2>2. q.listed = r.listed /\ q.value = r.value /\ q.since = r.since /\ q.shown = r.shown /\ q.lifecycle = "active"
    BY <1>1, <2>1 DEF Activated, Row
  <2> HIDE DEF q
  <2>3. Story(q) /\ r.lifecycle \in Open
    BY <1>2, <2>1 DEF Open
  <2> QED
    BY <1>2, <2>2, <2>3 DEF q
<1>3. CASE r.listed = "yes" /\ IsDue(r, now) /\ r.lifecycle # "pending_start"
  <2>0. r.lifecycle = "pending_end"
    BY <1>3 DEF IsDue
  <2>1. q = Resolved(r) /\ Story(q)
    BY <1>3, <2>0, ResolvedStory DEF AfterDeadlines
  <2>2. q.listed = r.listed /\ q.value = r.value /\ q.since = r.since /\ q.shown = r.shown /\ q.lifecycle = "inactive"
    BY <1>1, <2>1 DEF Resolved, Row
  <2> HIDE DEF q
  <2>3. Story(q) /\ r.lifecycle \in Open
    BY <2>0, <2>1 DEF Open
  <2> QED
    BY <2>0, <2>2, <2>3 DEF q
<1>4. CASE ~(r.listed = "yes" /\ IsDue(r, now))
  <2>1. q = r
    BY <1>4 DEF AfterDeadlines
  <2> HIDE DEF q
  <2>2. q.listed = "yes" /\ q.lifecycle = "pending_start" => now < q.since + Activation
    BY <1>1, <1>4, <2>1, DelaysAssumption DEF IsDue
  <2> QED
    BY <1>1, <2>1, <2>2 DEF q
<1> QED
  BY <1>2, <1>3, <1>4

\* _apply_condition, for a condition it accepts and a row whose deadline is not due.
LEMMA AppliedStory ==
    ASSUME NEW r, Story(r), NEW v \in Values, NEW at \in Nat \ {Null}, Accepts(r, v, at),
           r.lifecycle = "pending_start" => at < r.since + Activation
    PROVE  Story(Applied(r, v, at))
<1>1. r.lifecycle \in {"none", "inactive", "pending_start", "active", "pending_end"}
      /\ r.value \in Values /\ (r.value = "on" <=> r.lifecycle \in {"pending_start", "active"})
  BY DEF Story, Row, Consistent, Values
<1>2. CASE r.lifecycle = "none"
  <2>1. Applied(r, v, at) = IF v = "on" THEN Started(r, at) ELSE BaselineInactive(r, at)
    BY <1>2 DEF Applied
  <2> QED
    BY <1>2, <2>1, StartedStory, BaselineStory
<1>3. CASE r.lifecycle # "none" /\ r.value = v
  <2>1. Applied(r, v, at) = r
    BY <1>3 DEF Applied
  <2> QED
    BY <2>1
<1>4. CASE r.lifecycle = "inactive" /\ r.value # v
  <2>1. Applied(r, v, at) = Started(r, at)
    BY <1>4 DEF Applied
  <2> QED
    BY <1>4, <2>1, StartedStory
<1>5. CASE r.lifecycle = "pending_start" /\ r.value # v
  <2>1. Applied(r, v, at) = Cancelled(r, at)
    BY <1>5 DEF Applied
  <2> QED
    BY <1>5, <2>1, CancelledStory
<1>6. CASE r.lifecycle = "active" /\ r.value # v
  <2>1. Applied(r, v, at) = Recovering(r, at)
    BY <1>6 DEF Applied
  <2> QED
    BY <1>6, <2>1, RecoveringStory
<1>7. CASE r.lifecycle = "pending_end" /\ r.value # v
  <2>1. Applied(r, v, at) = ActiveAgain(r, at)
    BY <1>7 DEF Applied
  <2> QED
    BY <1>7, <2>1, ActiveAgainStory
<1> QED
  BY <1>1, <1>2, <1>3, <1>4, <1>5, <1>6, <1>7

LEMMA NewStory == Story(NewRow)
<1>1. NewRow \in Row
  BY DEF NewRow, Row, Null
<1>2. Len(NewRow.incidents) = 0
  BY DEF NewRow
<1> QED
  BY <1>1, <1>2 DEF NewRow, Story, Consistent, RowInOrder, ToldInOrder, Null

-----------------------------------------------------------------------------
(* Databases: every row tells one story *)

\* A set of numbers has a smallest one.
LEMMA Smallest == ASSUME NEW T, T \subseteq Nat, T # {} PROVE \E x \in T : \A y \in T : x <= y
<1>1. IsWellFoundedOn(OpToRel(<, Nat), Nat)
  BY NatLessThanWellFounded
<1>2. \E x \in T : \A y \in T : ~ (<<y, x>> \in OpToRel(<, Nat))
  BY <1>1, WFMin
<1>3. PICK x \in T : \A y \in T : ~ (<<y, x>> \in OpToRel(<, Nat))
  BY <1>2
<1>4. ASSUME NEW y \in T PROVE x <= y
  <2>1. ~(y < x)
    <3>1. SUFFICES ASSUME y < x PROVE <<y, x>> \in OpToRel(<, Nat)
      BY <1>3
    <3> DEFINE p == <<y, x>>
    <3>2. p \in Nat \X Nat /\ p[1] < p[2]
      BY <3>1
    <3> HIDE DEF p
    <3>3. p \in OpToRel(<, Nat)
      BY <3>2 DEF OpToRel
    <3> QED
      BY <3>3 DEF p
  <2> QED
    BY <2>1
<1> QED
  BY <1>4

\* An edge, or a condition of a catalogue, has an instant.
Dated(e) == e.alarm \in Alarms /\ e.value \in Values /\ e.at \in Nat \ {Null}

OutboxDated(o) ==
    /\ o.next \in Nat
    /\ o.conditions \in [Alarms -> Condition]
    /\ \A a \in Alarms : o.conditions[a].value # "unknown" => o.conditions[a].since # Null
    /\ DOMAIN o.events \subseteq Nat
    /\ \A i \in DOMAIN o.events : Dated(o.events[i])

PageDated(p) ==
    /\ p = [i \in DOMAIN p |-> p[i]]
    /\ DOMAIN p \subseteq Nat
    /\ \A i \in DOMAIN p : Dated(p[i])

Stories(d) == \A a \in Alarms : Story(d.alarm[a])

RInv ==
    /\ AInv
    /\ clock \in Nat \ {Null}
    /\ \A s \in Sources : OutboxDated(outbox[s])
    /\ Stories(db)
    /\ worker.pc = "ingest" => Stories(tx[1]) /\ PageDated(worker.page)

-----------------------------------------------------------------------------
LEMMA ReconciledStories ==
    ASSUME NEW d, Stories(d), NEW ss PROVE Stories(Reconciled(d, ss))
<1> SUFFICES ASSUME NEW a \in Alarms PROVE Story(Reconciled(d, ss).alarm[a])
  BY DEF Stories
<1>1. Reconciled(d, ss).alarm[a] = IF SourceOf[a] \in ss THEN d.alarm[a] ELSE Unlisted(d.alarm[a])
  BY DEF Reconciled
<1>2. PICK r : r = d.alarm[a] /\ Story(r)
  BY DEF Stories
<1> QED
  BY <1>1, <1>2, UnlistedStory

LEMMA CatalogStories ==
    ASSUME NEW d, Stories(d), NEW o, OutboxDated(o), NEW s, NEW as
    PROVE  Stories(WithCatalog(d, s, CatalogSnapshot(as, o)))
<1> SUFFICES ASSUME NEW a \in Alarms PROVE Story(WithCatalog(d, s, CatalogSnapshot(as, o)).alarm[a])
  BY DEF Stories
<1>1. WithCatalog(d, s, CatalogSnapshot(as, o)).alarm[a] \in
          {d.alarm[a], Listed(d.alarm[a], o.conditions[a]), Unlisted(d.alarm[a])}
  BY DEF WithCatalog, CatalogSnapshot
<1>2. PICK r : r = d.alarm[a] /\ Story(r)
  BY DEF Stories
<1>3. PICK c \in Condition : c = o.conditions[a] /\ (c.value # "unknown" => c.since # Null)
  BY DEF OutboxDated
<1> QED
  BY <1>1, <1>2, <1>3, UnlistedStory, ListedStory

LEMMA BaselinesStories ==
    ASSUME NEW d, Stories(d), NEW s PROVE Stories(WithBaselines(d, s))
<1> SUFFICES ASSUME NEW a \in Alarms PROVE Story(WithBaselines(d, s).alarm[a])
  BY DEF Stories
<1>1. PICK r : r = d.alarm[a] /\ Story(r)
  BY DEF Stories
<1>2. WithBaselines(d, s).alarm[a] = IF SourceOf[a] = s /\ NeedsBaseline(r)
                                     THEN Applied(r, r.shown.value, r.shown.since) ELSE r
  BY <1>1 DEF WithBaselines
<1>3. ASSUME NeedsBaseline(r) PROVE Story(Applied(r, r.shown.value, r.shown.since))
  <2>1. PICK v, t : v = r.shown.value /\ t = r.shown.since
    OBVIOUS
  <2>2. v \in Values /\ t \in Nat \ {Null}
    BY <1>1, <1>3, <2>1 DEF Story, RowInOrder, NeedsBaseline, Row, Values
  <2>3. Accepts(r, v, t) /\ r.lifecycle = "none"
    BY <1>3 DEF Accepts, NeedsBaseline
  <2> QED
    BY <1>1, <2>1, <2>2, <2>3, AppliedStory
<1> QED
  BY <1>1, <1>2, <1>3

LEMMA DeadlinesStories ==
    ASSUME NEW d, Stories(d), NEW ss, NEW now \in Nat PROVE Stories(WithDeadlines(d, ss, now))
<1> SUFFICES ASSUME NEW a \in Alarms PROVE Story(WithDeadlines(d, ss, now).alarm[a])
  BY DEF Stories
<1>1. PICK r : r = d.alarm[a] /\ Story(r)
  BY DEF Stories
<1>2. WithDeadlines(d, ss, now).alarm[a] = IF SourceOf[a] \in ss THEN AfterDeadlines(r, now) ELSE r
  BY <1>1 DEF WithDeadlines
<1> QED
  BY <1>1, <1>2, DeadlineStory

LEMMA EdgeStories ==
    ASSUME NEW d, Shaped(d), Stories(d), NEW s, NEW i, NEW e, Dated(e), ~Refuses(d, s, i, e)
    PROVE  Stories(WithEdge(d, s, i, e))
<1>1. PICK b \in Alarms : b = e.alarm
  BY DEF Dated
<1>2. PICK r : r = d.alarm[b] /\ Story(r)
  BY DEF Stories
<1>3. PICK q : q = AfterDeadlines(r, e.at)
  OBVIOUS
<1>4. PICK v \in Values : v = e.value
  BY DEF Dated
<1>5. PICK t \in Nat \ {Null} : t = e.at
  BY DEF Dated
<1>6. Accepts(q, v, t)
  BY <1>1, <1>2, <1>3, <1>4, <1>5 DEF Refuses, AtEdge
<1>7. Story(q) /\ (q.listed = "yes" /\ q.lifecycle = "pending_start" => t < q.since + Activation)
  BY <1>2, <1>3, <1>5, DeadlineStory
<1>8. Story(Applied(q, v, t))
  BY <1>6, <1>7, AppliedStory DEF Accepts
<1>9. Story([Applied(q, v, t) EXCEPT !.shown = [value |-> v, since |-> t]])
  BY <1>8, ShownStory
<1>10. WithEdge(d, s, i, e).alarm = [d.alarm EXCEPT ![b] =
            [Applied(q, v, t) EXCEPT !.shown = [value |-> v, since |-> t]]]
  BY <1>1, <1>2, <1>3, <1>4, <1>5 DEF WithEdge, AtEdge
<1>11. d.alarm = [a \in Alarms |-> d.alarm[a]]
  BY DEF Shaped
<1> QED
  BY <1>9, <1>10, <1>11 DEF Stories

-----------------------------------------------------------------------------
LEMMA InitRInv == Init => RInv
<1> SUFFICES ASSUME Init PROVE RInv
  OBVIOUS
<1>1. Stories(db)
  <2>1. \A a \in Alarms : db.alarm[a] = NewRow
    BY DEF Init
  <2> QED
    BY <2>1, NewStory DEF Stories
<1>2. \A s \in Sources : OutboxDated(outbox[s])
  BY DEF Init, OutboxDated, EmptyOutbox, Condition, Values
<1>3. clock \in Nat \ {Null} /\ worker.pc = "idle"
  BY DEF Init, Idle, At, Null
<1> QED
  BY <1>1, <1>2, <1>3, InitAInv DEF RInv

\* An observation is dated by the clock.
LEMMA ObservedDated ==
    ASSUME NEW o, OutboxDated(o), NEW a \in Alarms, NEW v \in Values, NEW t \in Nat \ {Null}
    PROVE  OutboxDated(Observed(o, a, v, t))
<1>1. CASE o.conditions[a].value = v
  BY <1>1 DEF Observed
<1>2. CASE o.conditions[a].value # v
  <2> DEFINE q == Observed(o, a, v, t)
             c == [value |-> v, since |-> t]
  <2>1. /\ q.conditions = [o.conditions EXCEPT ![a] = c]
        /\ q.next \in {o.next, o.next + 1}
    BY <1>2 DEF Observed
  <2>2. c \in Condition /\ c.since # Null
    BY DEF Condition
  <2>3. /\ q.conditions \in [Alarms -> Condition]
        /\ \A b \in Alarms : q.conditions[b].value # "unknown" => q.conditions[b].since # Null
    BY <2>1, <2>2 DEF OutboxDated
  <2>4. \/ q.events = o.events
        \/ q.events = [i \in DOMAIN o.events \cup {o.next} |->
                          IF i = o.next THEN [alarm |-> a, value |-> v, at |-> t] ELSE o.events[i]]
    BY <1>2 DEF Observed
  <2>5. Dated([alarm |-> a, value |-> v, at |-> t])
    BY DEF Dated
  <2>6. DOMAIN q.events \subseteq Nat /\ \A i \in DOMAIN q.events : Dated(q.events[i])
    BY <2>4, <2>5 DEF OutboxDated
  <2> HIDE DEF q, c
  <2>7. OutboxDated(q)
    BY <2>1, <2>3, <2>6 DEF OutboxDated
  <2> QED
    BY <2>7 DEF q
<1> QED
  BY <1>1, <1>2

LEMMA AcknowledgedDated ==
    ASSUME NEW o, OutboxDated(o), NEW n PROVE OutboxDated(Acknowledged(o, n))
BY DEF OutboxDated, Acknowledged

LEMMA PageOfOutbox ==
    ASSUME NEW o, OutboxDated(o), NEW n, NEW limit
    PROVE  PageDated(EventsAfter(o, n, limit).events)
<1>1. PICK D : D \subseteq DOMAIN o.events /\ EventsAfter(o, n, limit).events = [i \in D |-> o.events[i]]
  BY DEF EventsAfter
<1> QED
  BY <1>1 DEF OutboxDated, PageDated


\* The page under way: its lowest identifier and the edge there.
LEMMA NextOfPage ==
    ASSUME PageDated(worker.page), worker.page # NoPage
    PROVE  NextId \in DOMAIN worker.page /\ Dated(NextEdge)
<1>1. PICK D : D = DOMAIN worker.page
  OBVIOUS
<1>2. D \subseteq Nat /\ D # {}
  BY <1>1 DEF PageDated, NoPage
<1>3. \E i \in D : \A j \in D : i <= j
  BY <1>2, Smallest
<1>4. NextId \in D
  BY <1>1, <1>3 DEF NextId
<1> QED
  BY <1>1, <1>4 DEF PageDated, NextEdge

\* Steps that leave the rows of the database and of the transaction alone.
LEMMA RowsUntouched ==
    ASSUME RInv, AInv', db'.alarm = db.alarm, clock' \in Nat \ {Null},
           \A s \in Sources : OutboxDated(outbox'[s]),
           worker'.pc = "ingest" => worker.pc = "ingest" /\ tx' = tx /\ worker'.page = worker.page
    PROVE  RInv'
BY DEF RInv, Stories

LEMMA NextRInv == SyncAssumption /\ RInv /\ [Next]_vars => RInv'
<1> SUFFICES ASSUME SyncAssumption, RInv, [Next]_vars PROVE RInv'
  OBVIOUS
<1>0. /\ AInv /\ clock \in Nat \ {Null} /\ Stories(db)
      /\ \A s \in Sources : OutboxDated(outbox[s])
      /\ worker.pc = "ingest" => Stories(tx[1]) /\ PageDated(worker.page)
      /\ Shaped(db) /\ OutboxShaped /\ WorkerShaped
      /\ worker.pc = "ingest" <=> tx # <<>>
  BY DEF RInv, AInv
<1>a. AInv'
  BY <1>0, NextAInv
<1>s. worker.pc \in Working => worker.source \in Sources
  BY <1>0 DEF WorkerShaped
<1>l. Idle.pc = "idle" /\ Picking.pc = "pick"
  BY DEF Idle, Picking, At
<1>1. CASE (\E a \in Alarms : Register(a)) \/ (\E s \in Sources : RestartSource(s)) \/ Tick
           \/ (\E s \in Sources : CatalogFails(s)) \/ UNCHANGED vars
  <2>1. UNCHANGED <<db, tx, worker, outbox>>
    BY <1>1 DEF Register, RestartSource, Tick, CatalogFails, vars, sourceVars
  <2>2. clock' \in {clock, clock + 1}
    BY <1>1 DEF Register, RestartSource, Tick, CatalogFails, vars
  <2>3. clock' \in Nat \ {Null}
    BY <1>0, <2>2 DEF Null
  <2> QED
    BY <1>0, <1>a, <2>1, <2>3, RowsUntouched
<1>2. ASSUME NEW a \in Alarms, NEW v \in Values, NEW at \in 1 .. clock, Observe(a, v, at) PROVE RInv'
  <2>1. PICK s \in Sources : s = SourceOf[a]
    BY DEF SyncAssumption
  <2>2. /\ outbox' = [outbox EXCEPT ![s] = Observed(outbox[s], a, v, at)]
        /\ UNCHANGED <<db, tx, worker, clock>>
    BY <1>2, <2>1 DEF Observe
  <2>3. OutboxDated(Observed(outbox[s], a, v, at))
    <3>1. PICK o, t : o = outbox[s] /\ t = at
      OBVIOUS
    <3>2. OutboxDated(o)
      BY <1>0, <3>1
    <3>3. t \in Nat \ {Null}
      BY <1>0, <3>1 DEF Null
    <3> QED
      BY <3>1, <3>2, <3>3, ObservedDated
  <2>4. \A r \in Sources : OutboxDated(outbox'[r])
    BY <1>0, <2>2, <2>3 DEF OutboxShaped
  <2> QED
    BY <1>0, <1>a, <2>2, <2>4, RowsUntouched
<1>3. CASE StartCycle
  <2>1. /\ worker' = Picking /\ UNCHANGED <<outbox, clock>> /\ db' = Reconciled(db, configured)
    BY <1>3 DEF StartCycle, sourceVars
  <2>2. Stories(db')
    BY <1>0, <2>1, ReconciledStories
  <2> QED
    BY <1>0, <1>a, <1>l, <2>1, <2>2 DEF RInv
<1>4. ASSUME NEW s \in Sources, SyncCatalog(s) PROVE RInv'
  <2>1. /\ worker' = At("events", s, db.cursor[s], NoPage, FALSE)
        /\ UNCHANGED <<outbox, clock>>
        /\ \/ db' = db
           \/ db' = WithCatalog(db, s, CatalogSnapshot(registered \cap OfSource(s), outbox[s]))
    BY <1>4 DEF SyncCatalog, sourceVars
  <2>2. Stories(db')
    <3>1. PICK o : o = outbox[s] /\ OutboxDated(o)
      BY <1>0
    <3> QED
      BY <1>0, <2>1, <3>1, CatalogStories
  <2>3. worker'.pc = "events"
    BY <2>1 DEF At
  <2> QED
    BY <1>0, <1>a, <2>1, <2>2, <2>3 DEF RInv
<1>5. CASE FetchEvents
  <2>1. PICK s \in Sources : s = worker.source
    BY <1>5, <1>s DEF FetchEvents, Working
  <2>2. /\ tx' = <<db>> /\ UNCHANGED <<db, outbox, clock>>
        /\ \E more : worker' = [worker EXCEPT !.pc = "ingest",
                 !.page = EventsAfter(outbox[s], worker.cursor, PageLimit).events, !.more = more]
    BY <1>5, <2>1 DEF FetchEvents, sourceVars
  <2>3. worker'.page = EventsAfter(outbox[s], worker.cursor, PageLimit).events
    BY <1>0, <2>2 DEF WorkerShaped, At
  <2>4. PageDated(worker'.page)
    <3>1. PICK o : o = outbox[s] /\ OutboxDated(o)
      BY <1>0
    <3> QED
      BY <2>3, <3>1, PageOfOutbox
  <2> QED
    BY <1>0, <1>a, <2>2, <2>4 DEF RInv
<1>6. CASE IngestEdge
  <2>1. /\ worker.pc = "ingest" /\ worker.page # NoPage /\ UNCHANGED <<db, outbox, clock>>
        /\ ~Refuses(tx[1], worker.source, NextId, NextEdge)
        /\ tx' = <<WithEdge(tx[1], worker.source, NextId, NextEdge)>>
        /\ worker' = [worker EXCEPT
                         !.page = [i \in DOMAIN worker.page \ {NextId} |-> worker.page[i]]]
    BY <1>6 DEF IngestEdge, sourceVars
  <2>2. PageDated(worker.page) /\ Dated(NextEdge)
    BY <1>0, <2>1, NextOfPage
  <2>3. PICK d, s, i, e : d = tx[1] /\ s = worker.source /\ i = NextId /\ e = NextEdge
    OBVIOUS
  <2>4. Shaped(d) /\ Stories(d) /\ Dated(e) /\ ~Refuses(d, s, i, e)
    BY <1>0, <2>1, <2>2, <2>3 DEF AInv, TransactionAhead
  <2>5. Stories(tx'[1])
    BY <2>1, <2>3, <2>4, EdgeStories
  <2>6. worker'.page = [j \in DOMAIN worker.page \ {i} |-> worker.page[j]]
    BY <1>0, <2>1, <2>3 DEF WorkerShaped, At
  <2>7. PageDated(worker'.page)
    BY <2>2, <2>6 DEF PageDated
  <2> QED
    BY <1>0, <1>a, <2>1, <2>5, <2>7 DEF RInv
<1>7. CASE Commit
  <2>1. /\ worker.pc = "ingest" /\ db' = tx[1] /\ UNCHANGED <<outbox, clock>> /\ tx' = <<>>
    BY <1>7 DEF Commit, sourceVars
  <2>2. worker'.pc # "ingest"
    BY <1>a, <2>1 DEF AInv
  <2> QED
    BY <1>0, <1>a, <2>1, <2>2 DEF RInv
<1>8. CASE Acknowledge \/ AcknowledgeUnheard \/ RequestFails \/ RefuseEdge \/ Restart
  <2>1. /\ UNCHANGED <<db, clock>> /\ tx' \in {tx, <<>>}
        /\ worker.pc = "ack" \/ tx' = <<>>
    BY <1>8 DEF Acknowledge, AcknowledgeUnheard, RequestFails, RefuseEdge, GiveUp, Restart
  <2>2. worker'.pc # "ingest"
    BY <1>0, <1>a, <2>1 DEF AInv
  <2>3. \/ UNCHANGED outbox
        \/ /\ worker.pc = "ack"
           /\ outbox' = [outbox EXCEPT ![worker.source] = Acknowledged(@, worker.cursor)]
    BY <1>8 DEF Acknowledge, AcknowledgeUnheard, RequestFails, RefuseEdge, Restart, sourceVars
  <2>4. \A s \in Sources : OutboxDated(outbox'[s])
    BY <1>0, <2>3, AcknowledgedDated DEF OutboxShaped
  <2> QED
    BY <1>0, <1>a, <2>1, <2>2, <2>4 DEF RInv
<1>9. CASE Baselines
  <2>1. /\ worker' = Picking /\ UNCHANGED <<outbox, clock>> /\ db' = WithBaselines(db, worker.source)
    BY <1>9 DEF Baselines, sourceVars
  <2>2. Stories(db')
    BY <1>0, <2>1, BaselinesStories
  <2> QED
    BY <1>0, <1>a, <1>l, <2>1, <2>2 DEF RInv
<1>10. CASE Deadlines
  <2>1. /\ worker' = Idle /\ UNCHANGED <<outbox, clock>> /\ db' = WithDeadlines(db, synced, clock)
    BY <1>10 DEF Deadlines, sourceVars
  <2>2. Stories(db')
    BY <1>0, <2>1, DeadlinesStories
  <2> QED
    BY <1>0, <1>a, <1>l, <2>1, <2>2 DEF RInv
<1>11. CASE \E a \in Alarms, c \in Choices : UpdateSettings(a, c[1], c[2])
  <2>1. PICK a \in Alarms, c \in Choices : UpdateSettings(a, c[1], c[2])
    BY <1>11
  <2>2. PICK start \in BOOLEAN, end \in BOOLEAN : start = c[1] /\ end = c[2]
    BY DEF SyncAssumption
  <2>3. /\ tx = <<>> /\ UNCHANGED <<tx, worker, outbox, clock>>
        /\ db' = [db EXCEPT !.alarm[a].sendStart = start, !.alarm[a].sendEnd = end]
    BY <2>1, <2>2 DEF UpdateSettings, sourceVars
  <2>4. PICK r : r = db.alarm[a] /\ Story(r)
    BY <1>0 DEF Stories
  <2>5. /\ db'.alarm[a] = [r EXCEPT !.sendStart = start, !.sendEnd = end]
        /\ \A b \in Alarms \ {a} : db'.alarm[b] = db.alarm[b]
    BY <1>0, <2>3, <2>4 DEF Shaped
  <2>6. Stories(db')
    <3>1. Story([r EXCEPT !.sendStart = start, !.sendEnd = end])
      BY <2>4, ChosenStory
    <3>2. Story(db'.alarm[a]) /\ \A b \in Alarms \ {a} : Story(db'.alarm[b])
      BY <1>0, <2>5, <3>1 DEF Stories
    <3> QED
      BY <3>2 DEF Stories
  <2>7. worker'.pc # "ingest"
    BY <1>0, <2>3
  <2> QED
    BY <1>0, <1>a, <2>3, <2>6, <2>7 DEF RInv
<1> QED
  BY <1>1, <1>2, <1>3, <1>4, <1>5, <1>6, <1>7, <1>8, <1>9, <1>10, <1>11 DEF Next, WorkerStep

\* Each incident is in the state its alarm says, and only the last one is open: the
\* writes of _apply_condition and _process_due_transitions go together.
THEOREM IncidentsAlwaysMatch == Spec => []IncidentsMatchState
<1>1. SyncAssumption
  BY SyncAssumption
<1>2. RInv => IncidentsMatchState
  BY DEF RInv, Stories, Story, IncidentsMatchState
<1> QED
  BY <1>1, <1>2, InitRInv, NextRInv, PTL DEF Spec

\* Whatever the order in which edges and deadlines come, an incident cancelled before
\* its activation is short, and has no notice.
THEOREM LongNeverMissed == Spec => []NoLongConditionIsMissed
<1>1. SyncAssumption
  BY SyncAssumption
<1>2. RInv => NoLongConditionIsMissed
  BY DEF RInv, Stories, Story, ToldInOrder, NoLongConditionIsMissed
<1> QED
  BY <1>1, <1>2, InitRInv, NextRInv, PTL DEF Spec

-----------------------------------------------------------------------------
(* Logs: the edges of a source, and what its outbox keeps of them *)

\* The last edge of an alarm is one, if it has any, and no later one is its own.
LEMMA LastEdgeIsOne ==
    ASSUME NEW l, NEW a, NEW n \in Nat
    PROVE  /\ LastEdge(l, a, n) \in 0 .. n
           /\ LastEdge(l, a, n) = 0 <=> \A i \in 1 .. n : l[i].alarm # a
           /\ LastEdge(l, a, n) # 0 => l[LastEdge(l, a, n)].alarm = a
<1> DEFINE own == {i \in 1 .. n : l[i].alarm = a}
<1>1. CASE own = {}
  BY <1>1 DEF LastEdge
<1>2. CASE own # {}
  <2> DEFINE T == {n - i : i \in own}
  <2>1. T \subseteq Nat /\ T # {}
    BY <1>2
  <2>2. \E x \in T : \A y \in T : x <= y
    <3> HIDE DEF T
    <3> QED
      BY <2>1, Smallest
  <2>3. \E i \in own : \A j \in own : j <= i
    <3>1. PICK x \in T : \A y \in T : x <= y
      BY <2>2
    <3>2. PICK i \in own : x = n - i
      BY <3>1
    <3>3. ASSUME NEW j \in own PROVE j <= i
      <4>1. n - j \in T
        OBVIOUS
      <4>2. n - i <= n - j
        BY <3>1, <3>2, <4>1
      <4>3. i \in Nat /\ j \in Nat
        OBVIOUS
      <4> HIDE DEF own, T
      <4> QED
        BY <4>2, <4>3
    <3> QED
      BY <3>3
  <2>4. LastEdge(l, a, n) = CHOOSE i \in own : \A j \in own : j <= i
    BY <1>2 DEF LastEdge
  <2>5. LastEdge(l, a, n) \in own
    <3> HIDE DEF own
    <3> QED
      BY <2>3, <2>4
  <2> QED
    BY <1>2, <2>5
<1> QED
  BY <1>1, <1>2

LEMMA SameOwn ==
    ASSUME NEW l, NEW m, NEW a, NEW n, NEW k,
           {i \in 1 .. n : l[i].alarm = a} = {i \in 1 .. k : m[i].alarm = a}
    PROVE  LastEdge(l, a, n) = LastEdge(m, a, k)
<1>1. PICK S : S = {i \in 1 .. n : l[i].alarm = a}
  OBVIOUS
<1>2. LastEdge(l, a, n) = IF S = {} THEN 0 ELSE CHOOSE i \in S : \A j \in S : j <= i
  BY <1>1 DEF LastEdge
<1>m. S = {i \in 1 .. k : m[i].alarm = a}
  BY <1>1
<1>3. LastEdge(m, a, k) = IF S = {} THEN 0 ELSE CHOOSE i \in S : \A j \in S : j <= i
  BY <1>m DEF LastEdge
<1> QED
  BY <1>2, <1>3

LEMMA LastEdgeNext ==
    ASSUME NEW l, NEW a, NEW n \in Nat
    PROVE  LastEdge(l, a, n + 1) = IF l[n + 1].alarm = a THEN n + 1 ELSE LastEdge(l, a, n)
<1>1. CASE l[n + 1].alarm # a
  <2>1. {i \in 1 .. n + 1 : l[i].alarm = a} = {i \in 1 .. n : l[i].alarm = a}
    BY <1>1
  <2>2. LastEdge(l, a, n + 1) = LastEdge(l, a, n)
    BY <2>1, SameOwn
  <2> QED
    BY <1>1, <2>2
<1>2. CASE l[n + 1].alarm = a
  <2> DEFINE own == {i \in 1 .. n + 1 : l[i].alarm = a}
  <2>1. n + 1 \in own /\ \A j \in own : j <= n + 1 /\ j \in Nat
    BY <1>2
  <2>2. LastEdge(l, a, n + 1) = CHOOSE i \in own : \A j \in own : j <= i
    BY <2>1 DEF LastEdge
  <2> HIDE DEF own
  <2>3. LastEdge(l, a, n + 1) \in own /\ \A j \in own : j <= LastEdge(l, a, n + 1)
    BY <2>1, <2>2
  <2>4. LastEdge(l, a, n + 1) = n + 1
    BY <2>1, <2>3
  <2> QED
    BY <1>2, <2>4
<1> QED
  BY <1>1, <1>2

\* A later edge does not change which edge was the last among the first n.
LEMMA LastEdgeAppend ==
    ASSUME NEW l \in Seq(Edge), NEW x \in Edge, NEW a, NEW n \in 0 .. Len(l)
    PROVE  LastEdge(Append(l, x), a, n) = LastEdge(l, a, n)
<1> DEFINE m == Append(l, x)
<1>1. \A i \in 1 .. n : m[i] = l[i]
  OBVIOUS
<1> HIDE DEF m
<1>2. {i \in 1 .. n : m[i].alarm = a} = {i \in 1 .. n : l[i].alarm = a}
  BY <1>1
<1>3. LastEdge(m, a, n) = LastEdge(l, a, n)
  BY <1>2, SameOwn
<1> QED
  BY <1>3 DEF m

-----------------------------------------------------------------------------
\* The edges of an alarm alternate and begin with "on".
Alternates(l) ==
    \A i \in 1 .. Len(l) :
        LET p == LastEdge(l, l[i].alarm, i - 1)
        IN  l[i].value # IF p = 0 THEN "off" ELSE l[p].value

\* An outbox keeps the tail of the log that is not confirmed, and its conditions
\* are those of the last edges.
Logged(o, l) ==
    /\ l \in Seq(Edge)
    /\ o.next = Len(l) + 1
    /\ o.acked \in 0 .. Len(l)
    /\ o.events = [i \in (o.acked + 1) .. Len(l) |-> l[i]]
    /\ o.conditions \in [Alarms -> Condition]
    /\ \A a \in Alarms :
          LET i == LastEdge(l, a, Len(l))
          IN  IF i = 0 THEN o.conditions[a].value \in {"unknown", "off"}
              ELSE o.conditions[a].value = l[i].value

LEMMA LoggedLoadable == ASSUME NEW o, NEW l, Logged(o, l) PROVE Loadable(o)
<1>1. Len(l) \in Nat /\ \A i \in 1 .. Len(l) : l[i] \in Edge
  BY DEF Logged
<1> QED
  BY <1>1 DEF Logged, Loadable

LEMMA EmptyLogged == Logged(EmptyOutbox, <<>>) /\ Alternates(<<>>)
<1>1. \A a : LastEdge(<<>>, a, 0) = 0
  BY LastEdgeIsOne
<1> QED
  BY <1>1 DEF Logged, Alternates, EmptyOutbox, Condition, Values

LEMMA AcknowledgedLogged ==
    ASSUME NEW o, NEW l, Logged(o, l), NEW n \in Nat, AckAccepted(o, n)
    PROVE  Logged(Acknowledged(o, n), l)
<1>1. CASE n <= o.acked
  BY <1>1 DEF Acknowledged
<1>2. CASE ~(n <= o.acked)
  <2> DEFINE q == Acknowledged(o, n)
  <2>1. /\ q.next = o.next /\ q.acked = n /\ q.conditions = o.conditions
        /\ q.events = [i \in {j \in DOMAIN o.events : j > n} |-> o.events[i]]
    BY <1>2 DEF Acknowledged
  <2>2. {j \in DOMAIN o.events : j > n} = (n + 1) .. Len(l) /\ n \in 0 .. Len(l)
    BY <1>2 DEF Logged, AckAccepted
  <2>3. q.events = [i \in (q.acked + 1) .. Len(l) |-> l[i]]
    BY <1>2, <2>1, <2>2 DEF Logged
  <2> HIDE DEF q
  <2>4. Logged(q, l)
    BY <2>1, <2>2, <2>3 DEF Logged
  <2> QED
    BY <2>4 DEF q
<1> QED
  BY <1>1, <1>2

\* An observation that is no edge: only the condition changes.
LEMMA BaselineLogged ==
    ASSUME NEW o, NEW l, Logged(o, l), NEW a \in Alarms, NEW v \in Values, NEW t \in Nat,
           o.conditions[a].value # v, ~IsEdge(o, a, v)
    PROVE  Logged(Observed(o, a, v, t), l)
<1> DEFINE q == Observed(o, a, v, t)
           c == [value |-> v, since |-> t]
<1>1. /\ q.next = o.next /\ q.acked = o.acked /\ q.events = o.events
      /\ q.conditions = [o.conditions EXCEPT ![a] = c]
  BY DEF Observed
<1>2. c \in Condition /\ c.value = "off" /\ o.conditions[a].value = "unknown"
  BY DEF Condition, IsEdge, Values
<1> HIDE DEF q, c
<1>3. LastEdge(l, a, Len(l)) = 0
  <2>1. Len(l) \in Nat /\ l \in Seq(Edge)
    BY DEF Logged
  <2>2. LastEdge(l, a, Len(l)) \in 0 .. Len(l)
    BY <2>1, LastEdgeIsOne
  <2>3. \A i \in 1 .. Len(l) : l[i].value # "unknown"
    <3> SUFFICES ASSUME NEW i \in 1 .. Len(l) PROVE l[i].value # "unknown"
      OBVIOUS
    <3>1. l[i] \in Edge
      BY <2>1
    <3> QED
      BY <3>1 DEF Edge, Values
  <2> QED
    BY <1>2, <2>1, <2>2, <2>3 DEF Logged
<1>4. Logged(q, l)
  BY <1>1, <1>2, <1>3 DEF Logged
<1> QED
  BY <1>4 DEF q

\* An edge is appended to the log.
LEMMA EdgeLogged ==
    ASSUME NEW o, NEW l, Logged(o, l), Alternates(l), NEW a \in Alarms, NEW v \in Values,
           NEW t \in Nat, IsEdge(o, a, v)
    PROVE  /\ Logged(Observed(o, a, v, t), Append(l, [alarm |-> a, value |-> v, at |-> t]))
           /\ Alternates(Append(l, [alarm |-> a, value |-> v, at |-> t]))
<1> DEFINE q == Observed(o, a, v, t)
           c == [value |-> v, since |-> t]
           x == [alarm |-> a, value |-> v, at |-> t]
           m == Append(l, x)
           n == Len(l)
<1>1. /\ q.next = o.next + 1 /\ q.acked = o.acked
      /\ q.conditions = [o.conditions EXCEPT ![a] = c]
      /\ q.events = [i \in DOMAIN o.events \cup {o.next} |->
                        IF i = o.next THEN x ELSE o.events[i]]
  BY DEF Observed, IsEdge
<1>2. /\ c \in Condition /\ c.value = v /\ x \in Edge /\ x.alarm = a /\ x.value = v
      /\ l \in Seq(Edge) /\ n \in Nat /\ o.next = n + 1
  BY DEF Condition, Edge, Logged
<1> HIDE DEF q, c, x
<1>3. /\ m \in Seq(Edge) /\ Len(m) = n + 1 /\ m[n + 1] = x
      /\ \A i \in 1 .. n : m[i] = l[i]
  BY <1>2
<1>4. \A b, k : k \in 0 .. n => LastEdge(m, b, k) = LastEdge(l, b, k)
  <2> SUFFICES ASSUME NEW b, NEW k \in 0 .. n PROVE LastEdge(m, b, k) = LastEdge(l, b, k)
    OBVIOUS
  <2> QED
    BY <1>2, LastEdgeAppend
<1> HIDE DEF m
<1>5. \A b : LastEdge(m, b, n + 1) = IF b = a THEN n + 1 ELSE LastEdge(l, b, n)
  <2> TAKE b
  <2>1. LastEdge(m, b, n + 1) = IF m[n + 1].alarm = b THEN n + 1 ELSE LastEdge(m, b, n)
    BY <1>2, LastEdgeNext
  <2>2. LastEdge(m, b, n) = LastEdge(l, b, n)
    BY <1>2, <1>4
  <2> QED
    BY <1>2, <1>3, <2>1, <2>2
<1>6. \A b, k : k \in Nat => LastEdge(l, b, k) \in 0 .. k
  BY LastEdgeIsOne
<1>7. \A b \in Alarms :
          LET i == LastEdge(m, b, Len(m))
          IN  IF i = 0 THEN q.conditions[b].value \in {"unknown", "off"}
              ELSE q.conditions[b].value = m[i].value
  <2> SUFFICES ASSUME NEW b \in Alarms
               PROVE  LET i == LastEdge(m, b, n + 1)
                      IN  IF i = 0 THEN q.conditions[b].value \in {"unknown", "off"}
                          ELSE q.conditions[b].value = m[i].value
    BY <1>3
  <2>1. CASE b = a
    BY <1>1, <1>2, <1>3, <1>5, <2>1 DEF Logged
  <2>2. CASE b # a
    <3>1. PICK k : k = LastEdge(l, b, n) /\ k \in 0 .. n
      BY <1>2, <1>6
    <3>2. q.conditions[b] = o.conditions[b] /\ LastEdge(m, b, n + 1) = k
      BY <1>1, <1>5, <2>2, <3>1 DEF Logged
    <3>3. IF k = 0 THEN o.conditions[b].value \in {"unknown", "off"}
          ELSE o.conditions[b].value = l[k].value
      BY <3>1 DEF Logged
    <3> QED
      BY <1>2, <1>3, <3>1, <3>2, <3>3
  <2> QED
    BY <2>1, <2>2
<1>8. q.events = [i \in (q.acked + 1) .. Len(m) |-> m[i]]
  <2>1. DOMAIN o.events \cup {o.next} = (q.acked + 1) .. Len(m)
    BY <1>1, <1>2, <1>3 DEF Logged
  <2>2. \A i \in DOMAIN o.events : o.events[i] = m[i] /\ i # o.next
    BY <1>2, <1>3 DEF Logged
  <2> QED
    BY <1>1, <1>2, <1>3, <2>1, <2>2
<1>9. Logged(q, m)
  <2>1. q.conditions \in [Alarms -> Condition]
    BY <1>1, <1>2 DEF Logged
  <2>2. q.next = Len(m) + 1 /\ q.acked \in 0 .. Len(m)
    BY <1>1, <1>2, <1>3 DEF Logged
  <2> QED
    BY <1>3, <1>7, <1>8, <2>1, <2>2 DEF Logged
<1>10. Alternates(m)
  <2> SUFFICES ASSUME NEW i \in 1 .. n + 1
               PROVE  LET p == LastEdge(m, m[i].alarm, i - 1)
                      IN  m[i].value # IF p = 0 THEN "off" ELSE m[p].value
    BY <1>3 DEF Alternates
  <2>1. PICK b, p : b = m[i].alarm /\ p = LastEdge(l, b, i - 1) /\ p \in 0 .. i - 1
    BY <1>2, <1>6
  <2>2. LastEdge(m, b, i - 1) = p /\ (p # 0 => m[p] = l[p])
    BY <1>2, <1>3, <1>4, <2>1
  <2>3. CASE i \in 1 .. n
    <3>1. m[i].value # IF p = 0 THEN "off" ELSE l[p].value
      BY <1>3, <2>1, <2>3 DEF Alternates
    <3> QED
      BY <2>1, <2>2, <3>1
  <2>4. CASE i = n + 1
    <3>1. b = a /\ m[i].value = v /\ p = LastEdge(l, a, n)
      BY <1>2, <1>3, <2>1, <2>4
    <3>2. v # IF p = 0 THEN "off" ELSE l[p].value
      BY <3>1 DEF Logged, IsEdge, Values
    <3> QED
      BY <2>1, <2>2, <3>1, <3>2
  <2> QED
    BY <1>2, <2>3, <2>4
<1> QED
  BY <1>9, <1>10 DEF q, m, x

-----------------------------------------------------------------------------
(* Databases and logs: the conditions follow the cursor *)

\* The condition of a row is that of the last of the first n edges, if there is one.
FollowsRow(r, l, a, n) ==
    LET i == LastEdge(l, a, n)
    IN  IF i = 0
        THEN r.lifecycle \in {"none", "inactive"}
        ELSE /\ r.lifecycle # "none"
             /\ r.value = l[i].value
             /\ r.since = l[i].at

\* q says of the condition what r says.
SameCondition(q, r) ==
    /\ q.value = r.value /\ q.since = r.since
    /\ q.lifecycle = "none" <=> r.lifecycle = "none"
    /\ r.lifecycle \in {"none", "inactive"} => q.lifecycle \in {"none", "inactive"}

LEMMA SameFollows ==
    ASSUME NEW q, NEW r, SameCondition(q, r), NEW l, NEW a, NEW n, FollowsRow(r, l, a, n)
    PROVE  FollowsRow(q, l, a, n)
BY DEF SameCondition, FollowsRow

LEMMA ListedSame ==
    ASSUME NEW r \in Row, NEW c
    PROVE  SameCondition(Listed(r, c), r) /\ Listed(r, c).shown = c
<1> DEFINE q == Listed(r, c)
<1>1. /\ q.value = r.value /\ q.since = r.since /\ q.lifecycle = r.lifecycle /\ q.shown = c
  BY DEF Listed, Row
<1> HIDE DEF q
<1>2. SameCondition(q, r) /\ q.shown = c
  BY <1>1 DEF SameCondition
<1> QED
  BY <1>2 DEF q

LEMMA UnlistedSame ==
    ASSUME NEW r \in Row
    PROVE  SameCondition(Unlisted(r), r) /\ Unlisted(r).shown = r.shown
<1> DEFINE q == Unlisted(r)
<1>1. /\ q.value = r.value /\ q.since = r.since /\ q.lifecycle = r.lifecycle /\ q.shown = r.shown
  BY DEF Unlisted, Row
<1> HIDE DEF q
<1>2. SameCondition(q, r) /\ q.shown = r.shown
  BY <1>1 DEF SameCondition
<1> QED
  BY <1>2 DEF q

LEMMA DeadlineSame ==
    ASSUME NEW r, Story(r), NEW now \in Nat
    PROVE  SameCondition(AfterDeadlines(r, now), r) /\ AfterDeadlines(r, now).shown = r.shown
<1> DEFINE q == AfterDeadlines(r, now)
<1>1. /\ q.value = r.value /\ q.since = r.since /\ q.shown = r.shown
      /\ q.lifecycle = "none" <=> r.lifecycle = "none"
      /\ q.lifecycle \in {"none", "inactive"} \/ r.lifecycle \in Open
  BY DeadlineStory
<1> HIDE DEF q
<1>2. SameCondition(q, r) /\ q.shown = r.shown
  BY <1>1 DEF SameCondition, Open
<1> QED
  BY <1>2 DEF q

\* A condition that is new to the row becomes the row's, with its instant.
LEMMA AppliedCondition ==
    ASSUME NEW r, Story(r), NEW v \in Values, NEW at, r.value # v
    PROVE  /\ Applied(r, v, at).lifecycle # "none"
           /\ Applied(r, v, at).value = v
           /\ Applied(r, v, at).since = at
<1>1. /\ r \in Row /\ r.value \in Values
      /\ r.lifecycle \in {"none", "inactive", "pending_start", "active", "pending_end"}
      /\ r.lifecycle \in {"none", "inactive"} => r.value = "off"
      /\ r.value = "on" <=> r.lifecycle \in {"pending_start", "active"}
  BY DEF Story, Row, Consistent, Values
<1>2. CASE r.lifecycle \in {"none", "inactive"}
  <2>1. v = "on"
    BY <1>1, <1>2 DEF Values
  <2>2. Applied(r, v, at) = Started(r, at)
    BY <1>2, <2>1 DEF Applied
  <2> QED
    BY <1>1, <2>1, <2>2 DEF Started, Row
<1>3. CASE r.lifecycle = "pending_start"
  <2>1. Applied(r, v, at) = Cancelled(r, at) /\ v = "off"
    BY <1>1, <1>3 DEF Applied, Values
  <2> QED
    BY <1>1, <2>1 DEF Cancelled, Row
<1>4. CASE r.lifecycle = "active"
  <2>1. Applied(r, v, at) = Recovering(r, at) /\ v = "off"
    BY <1>1, <1>4 DEF Applied, Values
  <2> QED
    BY <1>1, <2>1 DEF Recovering, Row
<1>5. CASE r.lifecycle = "pending_end"
  <2>1. Applied(r, v, at) = ActiveAgain(r, at) /\ v = "on"
    BY <1>1, <1>5 DEF Applied, Values
  <2> QED
    BY <1>1, <2>1 DEF ActiveAgain, Row
<1> QED
  BY <1>1, <1>2, <1>3, <1>4, <1>5

-----------------------------------------------------------------------------
(* A database and the logs of the sources *)

HasEdge(l, a, n) == \E i \in 1 .. n : l[i].alarm = a

\* e is the history of edges by source.
Fits(d, e) ==
    /\ \A s \in Sources : d.cursor[s] \in 0 .. Len(e[s])
    /\ \A a \in Alarms :
          /\ FollowsRow(d.alarm[a], e[SourceOf[a]], a, d.cursor[SourceOf[a]])
          /\ d.alarm[a].shown.value = "on" =>
                HasEdge(e[SourceOf[a]], a, Len(e[SourceOf[a]]))

\* No condition of the catalogue of s is ahead of its cursor.
CaughtUp(d, e, s) ==
    \A a \in OfSource(s) : d.alarm[a].shown.value = "on" => HasEdge(e[s], a, d.cursor[s])

\* Rows that say the same of the conditions fit as well.
LEMMA SameFits ==
    ASSUME NEW d, NEW e, Fits(d, e), NEW p, p.cursor = d.cursor,
           \A a \in Alarms :
              /\ SameCondition(p.alarm[a], d.alarm[a])
              /\ p.alarm[a].shown.value = "on" =>
                    d.alarm[a].shown.value = "on"
                    \/ HasEdge(e[SourceOf[a]], a, Len(e[SourceOf[a]]))
    PROVE  Fits(p, e)
<1> SUFFICES ASSUME NEW a \in Alarms
             PROVE  /\ FollowsRow(p.alarm[a], e[SourceOf[a]], a, p.cursor[SourceOf[a]])
                    /\ p.alarm[a].shown.value = "on" =>
                          HasEdge(e[SourceOf[a]], a, Len(e[SourceOf[a]]))
  BY DEF Fits
<1>1. PICK q, r, l, n : /\ q = p.alarm[a] /\ r = d.alarm[a] /\ l = e[SourceOf[a]]
                        /\ n = d.cursor[SourceOf[a]]
  OBVIOUS
<1>2. SameCondition(q, r) /\ FollowsRow(r, l, a, n)
  BY <1>1 DEF Fits
<1>3. FollowsRow(q, l, a, n)
  BY <1>2, SameFollows
<1> QED
  BY <1>1, <1>3 DEF Fits

LEMMA ReconciledFits ==
    ASSUME NEW d, NEW e, Fits(d, e), Stories(d), NEW ss
    PROVE  Fits(Reconciled(d, ss), e)
<1> DEFINE p == Reconciled(d, ss)
<1>1. p.cursor = d.cursor
  BY DEF Reconciled
<1>2. ASSUME NEW a \in Alarms
      PROVE  SameCondition(p.alarm[a], d.alarm[a]) /\ p.alarm[a].shown = d.alarm[a].shown
  <2>1. PICK r : r = d.alarm[a] /\ r \in Row
    BY DEF Stories, Story
  <2>2. p.alarm[a] = IF SourceOf[a] \in ss THEN r ELSE Unlisted(r)
    BY <2>1 DEF Reconciled
  <2> QED
    BY <2>1, <2>2, UnlistedSame DEF SameCondition
<1> HIDE DEF p
<1>3. Fits(p, e)
  BY <1>1, <1>2, SameFits
<1> QED
  BY <1>3 DEF p

LEMMA DeadlinesFit ==
    ASSUME NEW d, NEW e, Fits(d, e), Stories(d), NEW ss, NEW now \in Nat
    PROVE  Fits(WithDeadlines(d, ss, now), e)
<1> DEFINE p == WithDeadlines(d, ss, now)
<1>1. p.cursor = d.cursor
  BY DEF WithDeadlines
<1>2. ASSUME NEW a \in Alarms
      PROVE  SameCondition(p.alarm[a], d.alarm[a]) /\ p.alarm[a].shown = d.alarm[a].shown
  <2>1. PICK r : r = d.alarm[a] /\ Story(r)
    BY DEF Stories
  <2>2. p.alarm[a] = IF SourceOf[a] \in ss THEN AfterDeadlines(r, now) ELSE r
    BY <2>1 DEF WithDeadlines
  <2> QED
    BY <2>1, <2>2, DeadlineSame DEF SameCondition
<1> HIDE DEF p
<1>3. Fits(p, e)
  BY <1>1, <1>2, SameFits
<1> QED
  BY <1>3 DEF p

\* A catalogue shows "on" only what the history has.
LEMMA CatalogFits ==
    ASSUME NEW d, NEW e, Fits(d, e), Stories(d), NEW s, NEW o, Logged(o, e[s]), NEW as
    PROVE  Fits(WithCatalog(d, s, CatalogSnapshot(as, o)), e)
<1> DEFINE p == WithCatalog(d, s, CatalogSnapshot(as, o))
<1>1. p.cursor = d.cursor
  BY DEF WithCatalog
<1>2. ASSUME NEW a \in Alarms
      PROVE  /\ SameCondition(p.alarm[a], d.alarm[a])
             /\ p.alarm[a].shown.value = "on" =>
                   d.alarm[a].shown.value = "on"
                   \/ HasEdge(e[SourceOf[a]], a, Len(e[SourceOf[a]]))
  <2>1. PICK r, c : r = d.alarm[a] /\ r \in Row /\ c = o.conditions[a]
    BY DEF Stories, Story
  <2>2. \/ p.alarm[a] = r
        \/ p.alarm[a] = Unlisted(r)
        \/ p.alarm[a] = Listed(r, c) /\ SourceOf[a] = s
    <3>1. PICK snapshot : snapshot = CatalogSnapshot(as, o)
      OBVIOUS
    <3>2. a \in DOMAIN snapshot => snapshot[a] = c
      BY <2>1, <3>1 DEF CatalogSnapshot
    <3>3. p.alarm[a] = IF SourceOf[a] # s THEN r
                       ELSE IF a \in DOMAIN snapshot THEN Listed(r, snapshot[a]) ELSE Unlisted(r)
      BY <2>1, <3>1 DEF WithCatalog
    <3> QED
      BY <3>2, <3>3
  <2>3. c.value = "on" => HasEdge(e[s], a, Len(e[s]))
    <3>1. Len(e[s]) \in Nat
      BY DEF Logged
    <3>2. c.value = "on" => LastEdge(e[s], a, Len(e[s])) # 0
      BY <2>1 DEF Logged
    <3> QED
      BY <3>1, <3>2, LastEdgeIsOne DEF HasEdge
  <2>4. CASE p.alarm[a] = r
    BY <2>1, <2>4 DEF SameCondition
  <2>5. CASE p.alarm[a] = Unlisted(r)
    BY <2>1, <2>5, UnlistedSame
  <2>6. CASE p.alarm[a] = Listed(r, c) /\ SourceOf[a] = s
    <3>1. SameCondition(p.alarm[a], r) /\ p.alarm[a].shown = c
      BY <2>1, <2>6, ListedSame
    <3> QED
      BY <2>1, <2>3, <2>6, <3>1
  <2> QED
    BY <2>2, <2>4, <2>5, <2>6
<1> HIDE DEF p
<1>3. Fits(p, e)
  BY <1>1, <1>2, SameFits
<1> QED
  BY <1>3 DEF p

\* initialize_catalog_baselines: no condition without a state is "on" by then.
LEMMA BaselinesFit ==
    ASSUME NEW d, NEW e, Fits(d, e), Stories(d), NEW s \in Sources, CaughtUp(d, e, s)
    PROVE  Fits(WithBaselines(d, s), e)
<1> DEFINE p == WithBaselines(d, s)
<1>1. p.cursor = d.cursor
  BY DEF WithBaselines
<1>2. ASSUME NEW a \in Alarms
      PROVE  /\ FollowsRow(p.alarm[a], e[SourceOf[a]], a, p.cursor[SourceOf[a]])
             /\ p.alarm[a].shown = d.alarm[a].shown
  <2>1. PICK r, l, n : /\ r = d.alarm[a] /\ Story(r) /\ l = e[SourceOf[a]]
                       /\ n = d.cursor[SourceOf[a]] /\ FollowsRow(r, l, a, n)
    BY DEF Stories, Fits
  <2>2. CASE ~(SourceOf[a] = s /\ NeedsBaseline(r))
    BY <1>1, <2>1, <2>2 DEF WithBaselines
  <2>3. CASE SourceOf[a] = s /\ NeedsBaseline(r)
    <3>0. n \in Nat
      BY <2>1, <2>3 DEF Fits
    <3>1. LastEdge(l, a, n) = 0
      BY <2>1, <2>3 DEF FollowsRow, NeedsBaseline
    <3>2. ~HasEdge(l, a, n)
      BY <3>0, <3>1, LastEdgeIsOne DEF HasEdge
    <3>3. r.shown.value # "on"
      BY <2>1, <2>3, <3>2 DEF CaughtUp, OfSource
    <3>4. r.lifecycle = "none" /\ r.shown.value = "off"
      BY <2>1, <2>3, <3>3 DEF NeedsBaseline, Story, Row
    <3>5. p.alarm[a] = BaselineInactive(r, r.shown.since)
      BY <2>1, <2>3, <3>4 DEF WithBaselines, Applied
    <3>6. p.alarm[a].lifecycle = "inactive" /\ p.alarm[a].shown = r.shown
      BY <2>1, <3>5 DEF BaselineInactive, Story, Row
    <3> QED
      BY <1>1, <2>1, <3>1, <3>6 DEF FollowsRow
  <2> QED
    BY <2>2, <2>3
<1> HIDE DEF p
<1>3. Fits(p, e)
  BY <1>1, <1>2 DEF Fits
<1> QED
  BY <1>3 DEF p

\* The next edge of the log takes the cursor and the condition of its alarm on.
LEMMA EdgeFits ==
    ASSUME SyncAssumption, NEW d, NEW e, Shaped(d), Fits(d, e), Stories(d), NEW s \in Sources,
           e[s] \in Seq(Edge), Alternates(e[s]), NEW i \in 1 .. Len(e[s]), Dated(e[s][i]),
           SourceOf[e[s][i].alarm] = s, ~Refuses(d, s, i, e[s][i])
    PROVE  Fits(WithEdge(d, s, i, e[s][i]), e)
<1>1. PICK l : l = e[s] /\ l \in Seq(Edge)
  OBVIOUS
<1>2. PICK b \in Alarms, v \in Values, t \in Nat : b = l[i].alarm /\ v = l[i].value /\ t = l[i].at
  BY <1>1 DEF Dated
<1>3. PICK n \in Nat : n = d.cursor[s] /\ i = n + 1
  <2>1. d.cursor[s] \in Nat
    BY <1>1 DEF Fits
  <2>2. i = d.cursor[s] + 1
    BY DEF Refuses
  <2> QED
    BY <2>1, <2>2
<1>4. PICK r : r = d.alarm[b] /\ Story(r) /\ FollowsRow(r, l, b, n)
  BY <1>1, <1>2, <1>3 DEF Stories, Fits
<1>5. PICK q : q = AfterDeadlines(r, t) /\ Story(q) /\ SameCondition(q, r)
  BY <1>2, <1>4, DeadlineStory, DeadlineSame
<1>6. q.value # v
  <2>1. PICK k : k = LastEdge(l, b, n)
    OBVIOUS
  <2>2. v # IF k = 0 THEN "off" ELSE l[k].value
    BY <1>1, <1>2, <1>3, <2>1 DEF Alternates
  <2>3. q.value = IF k = 0 THEN "off" ELSE l[k].value
    <3>1. q.lifecycle \in {"none", "inactive"} => q.value = "off"
      BY <1>5 DEF Story, Consistent, Row
    <3> QED
      BY <1>4, <1>5, <2>1, <3>1 DEF FollowsRow, SameCondition
  <2> QED
    BY <2>2, <2>3
<1>7. PICK z : z = Applied(q, v, t) /\ z.lifecycle # "none" /\ z.value = v /\ z.since = t
  BY <1>5, <1>6, AppliedCondition
<1>8. PICK p : p = WithEdge(d, s, i, l[i])
  OBVIOUS
<1>9. /\ p.cursor = [d.cursor EXCEPT ![s] = i]
      /\ p.alarm = [d.alarm EXCEPT ![b] = [z EXCEPT !.shown = [value |-> v, since |-> t]]]
  BY <1>2, <1>4, <1>5, <1>7, <1>8 DEF WithEdge, AtEdge
<1>10. z \in Row
  <2>1. PICK c : c = Applied(q, v, t)
    OBVIOUS
  <2>2. Story(c)
    <3>1. Accepts(q, v, t)
      BY <1>1, <1>2, <1>4, <1>5 DEF Refuses, AtEdge
    <3>2. q.lifecycle = "pending_start" => t < q.since + Activation
      BY <1>2, <1>4, <1>5, <3>1, DeadlineStory DEF Accepts
    <3>3. t \in Nat \ {Null}
      BY <1>1, <1>2 DEF Dated
    <3> QED
      BY <1>5, <2>1, <3>1, <3>2, <3>3, AppliedStory
  <2> QED
    BY <1>7, <2>1, <2>2 DEF Story
<1>11. /\ p.alarm[b].lifecycle # "none" /\ p.alarm[b].value = v /\ p.alarm[b].since = t
       /\ \A a \in Alarms \ {b} : p.alarm[a] = d.alarm[a]
       /\ p.cursor[s] = n + 1 /\ \A r2 \in Sources \ {s} : p.cursor[r2] = d.cursor[r2]
  <2>1. d.alarm = [a \in Alarms |-> d.alarm[a]] /\ d.cursor \in [Sources -> Nat]
    BY DEF Shaped
  <2>2. p.alarm[b] = [z EXCEPT !.shown = [value |-> v, since |-> t]]
    BY <1>9, <2>1
  <2>3. [z EXCEPT !.shown = [value |-> v, since |-> t]].lifecycle = z.lifecycle
        /\ [z EXCEPT !.shown = [value |-> v, since |-> t]].value = z.value
        /\ [z EXCEPT !.shown = [value |-> v, since |-> t]].since = z.since
    BY <1>10 DEF Row
  <2>4. \A a \in Alarms \ {b} : p.alarm[a] = d.alarm[a]
    BY <1>9, <2>1
  <2>5. p.cursor[s] = n + 1 /\ \A r2 \in Sources \ {s} : p.cursor[r2] = d.cursor[r2]
    BY <1>3, <1>9, <2>1
  <2> QED
    BY <1>7, <2>2, <2>3, <2>4, <2>5
<1>12. \A a : LastEdge(l, a, n + 1) = IF b = a THEN n + 1 ELSE LastEdge(l, a, n)
  <2> TAKE a
  <2>1. LastEdge(l, a, n + 1) = IF l[n + 1].alarm = a THEN n + 1 ELSE LastEdge(l, a, n)
    BY LastEdgeNext
  <2>2. l[n + 1].alarm = b
    BY <1>2, <1>3
  <2> QED
    BY <2>1, <2>2
<1>13. ASSUME NEW a \in Alarms
       PROVE  /\ FollowsRow(p.alarm[a], e[SourceOf[a]], a, p.cursor[SourceOf[a]])
              /\ p.alarm[a].shown.value = "on" =>
                    HasEdge(e[SourceOf[a]], a, Len(e[SourceOf[a]]))
  <2>1. CASE a = b
    <3>1. FollowsRow(p.alarm[b], l, b, n + 1)
      <4>1. LastEdge(l, b, n + 1) = n + 1 /\ n + 1 # 0
        BY <1>3, <1>12
      <4>2. l[n + 1].value = v /\ l[n + 1].at = t
        BY <1>2, <1>3
      <4> QED
        BY <1>11, <4>1, <4>2 DEF FollowsRow
    <3>2. HasEdge(l, b, Len(l))
      BY <1>1, <1>2 DEF HasEdge
    <3> QED
      BY <1>1, <1>2, <1>11, <2>1, <3>1, <3>2
  <2>2. CASE a # b
    <3>1. p.alarm[a] = d.alarm[a]
      BY <1>11, <2>2
    <3>2. FollowsRow(d.alarm[a], e[SourceOf[a]], a, d.cursor[SourceOf[a]])
      BY DEF Fits
    <3>3. LastEdge(e[SourceOf[a]], a, p.cursor[SourceOf[a]]) = LastEdge(e[SourceOf[a]], a, d.cursor[SourceOf[a]])
      <4>1. SourceOf[a] \in Sources
        BY DEF SyncAssumption
      <4>2. CASE SourceOf[a] = s
        BY <1>1, <1>3, <1>11, <1>12, <2>2, <4>2
      <4>3. CASE SourceOf[a] # s
        BY <1>11, <4>1, <4>3
      <4> QED
        BY <4>2, <4>3
    <3>4. FollowsRow(p.alarm[a], e[SourceOf[a]], a, p.cursor[SourceOf[a]])
      BY <3>1, <3>2, <3>3 DEF FollowsRow
    <3> QED
      BY <3>1, <3>4 DEF Fits
  <2> QED
    BY <2>1, <2>2
<1>14. \A r2 \in Sources : p.cursor[r2] \in 0 .. Len(e[r2])
  <2>1. p.cursor[s] = i /\ i \in 0 .. Len(e[s])
    BY <1>3, <1>11
  <2>2. \A r2 \in Sources \ {s} : p.cursor[r2] \in 0 .. Len(e[r2])
    BY <1>11 DEF Fits
  <2> QED
    BY <2>1, <2>2
<1>15. Fits(p, e)
  BY <1>13, <1>14 DEF Fits
<1> QED
  BY <1>1, <1>8, <1>15

\* The page under way is a piece of the log.
PageOfLog(page, l) ==
    DOMAIN page \subseteq 1 .. Len(l) /\ \A i \in DOMAIN page : page[i] = l[i]

\* What no condition of the catalogue is ahead of once the page is applied.
Coming(d, e, s, page) ==
    \A a \in OfSource(s) : d.alarm[a].shown.value = "on" =>
        \E i \in 1 .. Len(e[s]) :
            (i <= d.cursor[s] \/ i \in DOMAIN page) /\ e[s][i].alarm = a

History(o, e) ==
    /\ e = [s \in Sources |-> e[s]]
    /\ \A s \in Sources :
          /\ Logged(o[s], e[s])
          /\ Alternates(e[s])
          /\ \A i \in 1 .. Len(e[s]) : SourceOf[e[s][i].alarm] = s

FInv ==
    /\ RInv
    /\ worker.more \in BOOLEAN
    /\ History(outbox, emitted)
    /\ Fits(db, emitted)
    /\ worker.pc \in {"events", "ack"} => worker.cursor = db.cursor[worker.source]
    /\ worker.pc = "ingest" =>
          /\ Fits(tx[1], emitted)
          /\ PageOfLog(worker.page, emitted[worker.source])
          /\ worker.more = FALSE => Coming(tx[1], emitted, worker.source, worker.page)
    /\ worker.pc = "ack" /\ worker.more = FALSE => CaughtUp(db, emitted, worker.source)
    /\ worker.pc = "baseline" => CaughtUp(db, emitted, worker.source)

LEMMA EdgeComing ==
    ASSUME SyncAssumption, NEW d, NEW e, Shaped(d), NEW s \in Sources, e[s] \in Seq(Edge),
           NEW i \in 1 .. Len(e[s]), SourceOf[e[s][i].alarm] = s,
           ~Refuses(d, s, i, e[s][i]), NEW page, Coming(d, e, s, page),
           NEW rest, DOMAIN rest = DOMAIN page \ {i}
    PROVE  Coming(WithEdge(d, s, i, e[s][i]), e, s, rest)
<1>1. PICK l : l = e[s] /\ l \in Seq(Edge)
  OBVIOUS
<1>2. PICK b : b = l[i].alarm
  OBVIOUS
<1>3. PICK p : p = WithEdge(d, s, i, l[i])
  OBVIOUS
<1>4. PICK n \in Nat : n = d.cursor[s] /\ i = n + 1
  BY DEF Shaped, Refuses
<1>5. /\ p.cursor[s] = n + 1
      /\ \A a \in Alarms \ {b} : p.alarm[a] = d.alarm[a]
  <2>1. d.alarm = [a \in Alarms |-> d.alarm[a]] /\ d.cursor \in [Sources -> Nat]
    BY DEF Shaped
  <2>2. /\ p.cursor = [d.cursor EXCEPT ![s] = i]
        /\ \E z : p.alarm = [d.alarm EXCEPT ![b] = z]
    BY <1>2, <1>3 DEF WithEdge
  <2> QED
    BY <1>4, <2>1, <2>2
<1>6. ASSUME NEW a \in OfSource(s), p.alarm[a].shown.value = "on"
      PROVE  \E j \in 1 .. Len(l) : (j <= n + 1 \/ j \in DOMAIN rest) /\ l[j].alarm = a
  <2>1. CASE a = b
    BY <1>1, <1>2, <1>4, <2>1
  <2>2. CASE a # b
    <3>1. d.alarm[a].shown.value = "on"
      BY <1>5, <1>6, <2>2 DEF OfSource
    <3>2. PICK j \in 1 .. Len(l) : (j <= n \/ j \in DOMAIN page) /\ l[j].alarm = a
      BY <1>1, <1>4, <3>1 DEF Coming
    <3>3. j <= n + 1 \/ j \in DOMAIN rest
      BY <1>4, <3>2
    <3> QED
      BY <3>2, <3>3
  <2> QED
    BY <2>1, <2>2
<1>7. Coming(p, e, s, rest)
  BY <1>1, <1>5, <1>6 DEF Coming
<1> QED
  BY <1>1, <1>3, <1>7

\* A page without a successor holds all that the cursor has not reached.
LEMMA LastPageComing ==
    ASSUME NEW d, NEW e, NEW o, NEW s \in Sources, SyncAssumption, Fits(d, e), Logged(o, e[s]),
           o.acked <= d.cursor[s],
           EventsAfter(o, d.cursor[s], PageLimit).has_more = FALSE
    PROVE  Coming(d, e, s, EventsAfter(o, d.cursor[s], PageLimit).events)
<1>1. PICK l, n : l = e[s] /\ n = d.cursor[s] /\ l \in Seq(Edge) /\ n \in 0 .. Len(l)
  BY DEF Logged, Fits
<1>2. PICK page : page = EventsAfter(o, n, PageLimit).events
  OBVIOUS
<1>3. DOMAIN page = {i \in DOMAIN o.events : i > n}
  BY <1>1, <1>2 DEF EventsAfter
<1>4. \A i \in 1 .. Len(l) : i <= n \/ i \in DOMAIN page
  BY <1>1, <1>3 DEF Logged
<1>5. ASSUME NEW a \in OfSource(s), d.alarm[a].shown.value = "on"
      PROVE  \E i \in 1 .. Len(l) : (i <= n \/ i \in DOMAIN page) /\ l[i].alarm = a
  <2>1. HasEdge(l, a, Len(l))
    BY <1>1, <1>5 DEF Fits, OfSource
  <2> QED
    BY <1>4, <2>1 DEF HasEdge
<1> QED
  BY <1>1, <1>2, <1>5 DEF Coming

LEMMA PagesAreOfLog ==
    ASSUME NEW o, NEW l, Logged(o, l), NEW n, NEW limit
    PROVE  /\ PageOfLog(EventsAfter(o, n, limit).events, l)
           /\ EventsAfter(o, n, limit).has_more \in BOOLEAN
<1>1. PICK D : D \subseteq DOMAIN o.events /\ EventsAfter(o, n, limit).events = [i \in D |-> o.events[i]]
  BY DEF EventsAfter
<1>2. EventsAfter(o, n, limit).has_more \in BOOLEAN
  BY DEF EventsAfter
<1> QED
  BY <1>1, <1>2 DEF Logged, PageOfLog

-----------------------------------------------------------------------------
\* Another edge of some source.
Longer(e, f, s) ==
    /\ \A r \in Sources \ {s} : f[r] = e[r]
    /\ e[s] \in Seq(Edge)
    /\ \E x \in Edge : f[s] = Append(e[s], x)

LEMMA LongerPrefix ==
    ASSUME NEW e, NEW f, NEW s \in Sources, Longer(e, f, s), NEW r \in Sources,
           Len(e[r]) \in Nat
    PROVE  /\ Len(e[r]) <= Len(f[r]) /\ Len(f[r]) \in Nat
           /\ \A i \in 1 .. Len(e[r]) : f[r][i] = e[r][i]
<1>1. CASE r # s
  BY <1>1 DEF Longer
<1>2. CASE r = s
  <2>1. PICK x \in Edge, l \in Seq(Edge) : f[r] = Append(l, x) /\ e[r] = l
    BY <1>2 DEF Longer
  <2> QED
    BY <2>1
<1> QED
  BY <1>1, <1>2

LEMMA LongerLast ==
    ASSUME NEW e, NEW f, NEW s \in Sources, Longer(e, f, s), NEW r \in Sources,
           NEW a, NEW n \in 0 .. Len(e[r])
    PROVE  LastEdge(f[r], a, n) = LastEdge(e[r], a, n)
<1>1. CASE r # s
  BY <1>1 DEF Longer
<1>2. CASE r = s
  <2>1. PICK x \in Edge, l \in Seq(Edge) : f[r] = Append(l, x) /\ e[r] = l
    BY <1>2 DEF Longer
  <2>2. LastEdge(Append(l, x), a, n) = LastEdge(l, a, n)
    BY <2>1, LastEdgeAppend
  <2> QED
    BY <2>1, <2>2
<1> QED
  BY <1>1, <1>2

LEMMA LongerFits ==
    ASSUME SyncAssumption, NEW d, NEW e, NEW f, NEW s \in Sources, Longer(e, f, s), Fits(d, e),
           \A r \in Sources : Len(e[r]) \in Nat
    PROVE  Fits(d, f)
<1>1. \A r \in Sources : d.cursor[r] \in 0 .. Len(f[r])
  BY LongerPrefix DEF Fits
<1>2. ASSUME NEW a \in Alarms
      PROVE  /\ FollowsRow(d.alarm[a], f[SourceOf[a]], a, d.cursor[SourceOf[a]])
             /\ d.alarm[a].shown.value = "on" =>
                   HasEdge(f[SourceOf[a]], a, Len(f[SourceOf[a]]))
  <2>1. PICK r \in Sources : r = SourceOf[a]
    BY DEF SyncAssumption
  <2>2. PICK l, m, n, q : l = e[r] /\ m = f[r] /\ n = d.cursor[r] /\ q = d.alarm[a]
    OBVIOUS
  <2>3. /\ Len(l) \in Nat /\ Len(m) \in Nat /\ Len(l) <= Len(m) /\ n \in 0 .. Len(l)
        /\ \A i \in 1 .. Len(l) : m[i] = l[i]
        /\ LastEdge(m, a, n) = LastEdge(l, a, n)
    <3>1. Len(l) \in Nat /\ n \in 0 .. Len(l)
      BY <2>2 DEF Fits
    <3>2. /\ Len(e[r]) <= Len(f[r]) /\ Len(f[r]) \in Nat
          /\ \A i \in 1 .. Len(e[r]) : f[r][i] = e[r][i]
      BY LongerPrefix
    <3>3. LastEdge(f[r], a, n) = LastEdge(e[r], a, n)
      <4>1. n \in 0 .. Len(e[r])
        BY <2>2, <3>1
      <4> QED
        BY <4>1, LongerLast
    <3> QED
      BY <2>2, <3>1, <3>2, <3>3
  <2>4. FollowsRow(q, l, a, n) /\ (q.shown.value = "on" => HasEdge(l, a, Len(l)))
    BY <2>1, <2>2 DEF Fits
  <2>5. FollowsRow(q, m, a, n)
    <3>1. LastEdge(l, a, n) \in 0 .. n
      BY <2>3, LastEdgeIsOne
    <3>2. LastEdge(l, a, n) # 0 => m[LastEdge(l, a, n)] = l[LastEdge(l, a, n)]
      BY <2>3, <3>1
    <3> QED
      BY <2>3, <2>4, <3>2 DEF FollowsRow
  <2>6. HasEdge(l, a, Len(l)) => HasEdge(m, a, Len(m))
    BY <2>3 DEF HasEdge
  <2> QED
    BY <2>1, <2>2, <2>4, <2>5, <2>6
<1> QED
  BY <1>1, <1>2 DEF Fits

LEMMA LongerRest ==
    ASSUME NEW d, NEW e, NEW f, NEW s \in Sources, Longer(e, f, s), Fits(d, e),
           \A r \in Sources : Len(e[r]) \in Nat, NEW r \in Sources, NEW page
    PROVE  /\ PageOfLog(page, e[r]) => PageOfLog(page, f[r])
           /\ Coming(d, e, r, page) => Coming(d, f, r, page)
           /\ CaughtUp(d, e, r) => CaughtUp(d, f, r)
<1>1. PICK l, m, n : l = e[r] /\ m = f[r] /\ n = d.cursor[r]
  OBVIOUS
<1>2. /\ Len(l) \in Nat /\ Len(m) \in Nat /\ Len(l) <= Len(m) /\ n \in 0 .. Len(l)
      /\ \A i \in 1 .. Len(l) : m[i] = l[i]
  BY <1>1, LongerPrefix DEF Fits
<1>3. PageOfLog(page, l) => PageOfLog(page, m)
  BY <1>2 DEF PageOfLog
<1>4. Coming(d, e, r, page) => Coming(d, f, r, page)
  <2> SUFFICES ASSUME Coming(d, e, r, page), NEW a \in OfSource(r), d.alarm[a].shown.value = "on"
               PROVE  \E i \in 1 .. Len(m) : (i <= n \/ i \in DOMAIN page) /\ m[i].alarm = a
    BY <1>1 DEF Coming
  <2>1. PICK i \in 1 .. Len(l) : (i <= n \/ i \in DOMAIN page) /\ l[i].alarm = a
    BY <1>1 DEF Coming
  <2> QED
    BY <1>2, <2>1
<1>5. CaughtUp(d, e, r) => CaughtUp(d, f, r)
  <2>1. \A a : HasEdge(l, a, n) => HasEdge(m, a, n)
    BY <1>2 DEF HasEdge
  <2> QED
    BY <1>1, <2>1 DEF CaughtUp
<1> QED
  BY <1>1, <1>3, <1>4, <1>5

-----------------------------------------------------------------------------
\* Steps that keep the database, the thread and its transaction.
LEMMA HistoryUntouched ==
    ASSUME FInv, RInv', UNCHANGED <<db, tx, worker, emitted>>, History(outbox', emitted)
    PROVE  FInv'
BY DEF FInv

\* Steps that leave the thread without a source.
LEMMA SourceLeft ==
    ASSUME FInv, RInv', UNCHANGED emitted, worker' \in {Idle, Picking}, Fits(db', emitted),
           History(outbox', emitted)
    PROVE  FInv'
<1>1. worker'.pc \in {"idle", "pick"} /\ worker'.more = FALSE
  BY DEF Idle, Picking, At
<1> QED
  BY <1>1 DEF FInv

LEMMA InitFInv == SyncAssumption /\ Init => FInv
<1> SUFFICES ASSUME SyncAssumption, Init PROVE FInv
  OBVIOUS
<1>1. \A s \in Sources : emitted[s] = <<>> /\ outbox[s] = EmptyOutbox
  BY DEF Init
<1>2. History(outbox, emitted)
  <2>1. emitted = [s \in Sources |-> emitted[s]]
    BY DEF Init
  <2>2. \A i \in 1 .. Len(<<>>) : FALSE
    OBVIOUS
  <2> QED
    BY <1>1, <2>1, <2>2, EmptyLogged DEF History
<1>3. Fits(db, emitted)
  <2>1. \A a \in Alarms : db.alarm[a] = NewRow /\ SourceOf[a] \in Sources
    BY DEF Init, SyncAssumption
  <2>2. \A s \in Sources : db.cursor[s] = 0
    BY DEF Init
  <2>3. \A a : LastEdge(<<>>, a, 0) = 0
    BY LastEdgeIsOne
  <2>4. \A a : FollowsRow(NewRow, <<>>, a, 0)
    BY <2>3 DEF FollowsRow, NewRow
  <2>5. NewRow.shown.value # "on"
    BY DEF NewRow
  <2> QED
    BY <1>1, <2>1, <2>2, <2>4, <2>5 DEF Fits
<1>4. worker.pc = "idle" /\ worker.more \in BOOLEAN
  BY DEF Init, Idle, At
<1> QED
  BY <1>2, <1>3, <1>4, InitRInv DEF FInv

LEMMA NextFInv == SyncAssumption /\ FInv /\ [Next]_vars => FInv'
<1> SUFFICES ASSUME SyncAssumption, FInv, [Next]_vars PROVE FInv'
  OBVIOUS
<1>0. /\ RInv /\ AInv /\ History(outbox, emitted) /\ Fits(db, emitted) /\ Stories(db)
      /\ Shaped(db) /\ OutboxShaped /\ WorkerShaped /\ clock \in Nat
      /\ worker.pc = "ingest" <=> tx # <<>>
      /\ worker.more \in BOOLEAN
  BY DEF FInv, RInv, AInv
<1>r. RInv'
  BY <1>0, NextRInv
<1>s. worker.pc \in Working => worker.source \in Sources
  BY <1>0 DEF WorkerShaped
<1>n. \A s \in Sources : emitted[s] \in Seq(Edge) /\ Len(emitted[s]) \in Nat
  <2> SUFFICES ASSUME NEW s \in Sources PROVE emitted[s] \in Seq(Edge) /\ Len(emitted[s]) \in Nat
    OBVIOUS
  <2>1. emitted[s] \in Seq(Edge)
    BY <1>0 DEF History, Logged
  <2> QED
    BY <2>1
<1>1. CASE (\E a \in Alarms : Register(a)) \/ (\E s \in Sources : RestartSource(s)) \/ Tick
           \/ (\E s \in Sources : CatalogFails(s)) \/ UNCHANGED vars
  <2>1. UNCHANGED <<db, tx, worker, outbox, emitted>>
    BY <1>1 DEF Register, RestartSource, Tick, CatalogFails, vars, sourceVars
  <2> QED
    BY <1>0, <1>r, <2>1, HistoryUntouched
<1>2. ASSUME NEW a \in Alarms, NEW v \in Values, NEW at \in 1 .. clock, Observe(a, v, at) PROVE FInv'
  <2>1. PICK s \in Sources : s = SourceOf[a]
    BY DEF SyncAssumption
  <2>2. /\ outbox[s].conditions[a].value # v
        /\ outbox' = [outbox EXCEPT ![s] = Observed(outbox[s], a, v, at)]
        /\ emitted' = IF IsEdge(outbox[s], a, v)
                      THEN [emitted EXCEPT ![s] =
                                Append(emitted[s], [alarm |-> a, value |-> v, at |-> at])]
                      ELSE emitted
        /\ UNCHANGED <<db, tx, worker>>
    BY <1>2, <2>1 DEF Observe
  <2>0. at \in Nat
    BY <1>0
  <2>3. PICK o, l, t : /\ o = outbox[s] /\ l = emitted[s] /\ t = at
                       /\ Logged(o, l) /\ Alternates(l) /\ t \in Nat
    BY <1>0, <2>0 DEF History
  <2>4. CASE ~IsEdge(o, a, v)
    <3>1. Logged(Observed(o, a, v, t), l)
      BY <2>2, <2>3, <2>4, BaselineLogged
    <3>2. emitted' = emitted
      BY <2>2, <2>3, <2>4
    <3>3. History(outbox', emitted)
      BY <1>0, <2>2, <2>3, <3>1 DEF History, OutboxShaped
    <3> QED
      BY <1>r, <2>2, <3>2, <3>3, HistoryUntouched
  <2>5. CASE IsEdge(o, a, v)
    <3>1. PICK x : x = [alarm |-> a, value |-> v, at |-> t]
      OBVIOUS
    <3>2. x \in Edge /\ x.alarm = a
      BY <2>3, <3>1 DEF Edge
    <3>3. Logged(Observed(o, a, v, t), Append(l, x)) /\ Alternates(Append(l, x))
      BY <2>3, <2>5, <3>1, EdgeLogged
    <3>4. emitted' = [emitted EXCEPT ![s] = Append(l, x)]
      BY <2>2, <2>3, <2>5, <3>1
    <3>5. Longer(emitted, emitted', s)
      BY <1>0, <1>n, <2>3, <3>2, <3>4 DEF Longer, History
    <3>6. History(outbox', emitted')
      <4>1. \A r \in Sources \ {s} : emitted'[r] = emitted[r] /\ outbox'[r] = outbox[r]
        BY <1>0, <2>2, <3>4 DEF History, OutboxShaped
      <4>2. emitted'[s] = Append(l, x) /\ outbox'[s] = Observed(o, a, v, t)
        BY <1>0, <2>2, <2>3, <3>4 DEF History, OutboxShaped
      <4>3. \A i \in 1 .. Len(Append(l, x)) : SourceOf[Append(l, x)[i].alarm] = s
        <5>1. l \in Seq(Edge) /\ \A i \in 1 .. Len(l) : SourceOf[l[i].alarm] = s
          BY <1>0, <2>3 DEF History, Logged
        <5> QED
          BY <2>1, <3>2, <5>1
      <4>4. emitted' = [r \in Sources |-> emitted'[r]]
        BY <1>0, <3>4 DEF History
      <4> QED
        <5>1. \A r \in Sources : /\ Logged(outbox'[r], emitted'[r])
                                 /\ Alternates(emitted'[r])
                                 /\ \A i \in 1 .. Len(emitted'[r]) :
                                        SourceOf[emitted'[r][i].alarm] = r
          <6>1. ASSUME NEW r \in Sources, r # s
                PROVE  /\ Logged(outbox'[r], emitted'[r])
                       /\ Alternates(emitted'[r])
                       /\ \A i \in 1 .. Len(emitted'[r]) : SourceOf[emitted'[r][i].alarm] = r
            BY <1>0, <4>1, <6>1 DEF History
          <6> QED
            BY <3>3, <4>2, <4>3, <6>1
        <5> QED
          BY <4>4, <5>1 DEF History
    <3>7. Fits(db, emitted')
      BY <1>0, <1>n, <3>5, LongerFits
    <3>8. worker.pc = "ingest" =>
             /\ Fits(tx[1], emitted')
             /\ PageOfLog(worker.page, emitted'[worker.source])
             /\ worker.more = FALSE => Coming(tx[1], emitted', worker.source, worker.page)
      <4> SUFFICES ASSUME worker.pc = "ingest"
                   PROVE  /\ Fits(tx[1], emitted')
                          /\ PageOfLog(worker.page, emitted'[worker.source])
                          /\ worker.more = FALSE =>
                                Coming(tx[1], emitted', worker.source, worker.page)
        OBVIOUS
      <4>1. PICK d, r, page : d = tx[1] /\ r = worker.source /\ page = worker.page /\ r \in Sources
        BY <1>s DEF Working
      <4>2. /\ Fits(d, emitted) /\ PageOfLog(page, emitted[r])
            /\ worker.more = FALSE => Coming(d, emitted, r, page)
        BY <4>1 DEF FInv
      <4>3. Fits(d, emitted')
        BY <1>n, <3>5, <4>2, LongerFits
      <4>4. /\ PageOfLog(page, emitted[r]) => PageOfLog(page, emitted'[r])
            /\ Coming(d, emitted, r, page) => Coming(d, emitted', r, page)
        BY <1>n, <3>5, <4>1, <4>2, LongerRest
      <4> QED
        BY <4>1, <4>2, <4>3, <4>4
    <3>9. worker.pc \in {"ack", "baseline"} /\ CaughtUp(db, emitted, worker.source)
             => CaughtUp(db, emitted', worker.source)
      BY <1>0, <1>n, <1>s, <3>5, LongerRest DEF Working
    <3> QED
      BY <1>r, <2>2, <3>6, <3>7, <3>8, <3>9 DEF FInv
  <2> QED
    BY <2>4, <2>5
<1>3. CASE StartCycle
  <2>1. /\ worker' = Picking /\ UNCHANGED <<outbox, emitted>> /\ db' = Reconciled(db, configured)
    BY <1>3 DEF StartCycle, sourceVars
  <2>2. Fits(db', emitted)
    BY <1>0, <2>1, ReconciledFits
  <2> QED
    BY <1>0, <1>r, <2>1, <2>2, SourceLeft
<1>4. ASSUME NEW s \in Sources, SyncCatalog(s) PROVE FInv'
  <2>1. /\ worker' = At("events", s, db.cursor[s], NoPage, FALSE)
        /\ UNCHANGED <<outbox, emitted>>
        /\ \/ db' = db
           \/ db' = WithCatalog(db, s, CatalogSnapshot(registered \cap OfSource(s), outbox[s]))
    BY <1>4 DEF SyncCatalog, sourceVars
  <2>2. Fits(db', emitted)
    <3>1. PICK o : o = outbox[s] /\ Logged(o, emitted[s])
      BY <1>0 DEF History
    <3>2. PICK as : as = registered \cap OfSource(s)
      OBVIOUS
    <3>3. Fits(WithCatalog(db, s, CatalogSnapshot(as, o)), emitted)
      BY <1>0, <3>1, CatalogFits
    <3> QED
      BY <1>0, <2>1, <3>1, <3>2, <3>3
  <2>3. db'.cursor = db.cursor
    BY <1>0, <2>1, CatalogKeepsCursors
  <2>4. /\ worker'.pc = "events" /\ worker'.source = s /\ worker'.cursor = db.cursor[s]
        /\ worker'.more = FALSE
    BY <2>1 DEF At
  <2> QED
    BY <1>0, <1>r, <2>1, <2>2, <2>3, <2>4 DEF FInv
<1>5. CASE FetchEvents
  <2>1. PICK s \in Sources : s = worker.source
    BY <1>5, <1>s DEF FetchEvents, Working
  <2>2. /\ worker.pc = "events" /\ tx' = <<db>> /\ UNCHANGED <<db, outbox, emitted>>
        /\ worker' = [worker EXCEPT !.pc = "ingest",
              !.page = EventsAfter(outbox[s], worker.cursor, PageLimit).events,
              !.more = EventsAfter(outbox[s], worker.cursor, PageLimit).has_more]
    BY <1>5, <2>1 DEF FetchEvents, sourceVars
  <2>3. PICK o, n : /\ o = outbox[s] /\ n = db.cursor[s] /\ Logged(o, emitted[s])
                    /\ o.acked <= n /\ worker.cursor = n
    BY <1>0, <2>1, <2>2 DEF History, FInv, AInv, AckedIsStored
  <2>4. PICK reply : reply = EventsAfter(o, n, PageLimit)
    OBVIOUS
  <2>5. /\ worker'.page = reply.events /\ worker'.more = reply.has_more /\ worker'.source = s
        /\ worker'.pc = "ingest"
    BY <1>0, <2>1, <2>2, <2>3, <2>4 DEF WorkerShaped, At
  <2>6. PageOfLog(reply.events, emitted[s]) /\ reply.has_more \in BOOLEAN
    BY <2>3, <2>4, PagesAreOfLog
  <2>7. reply.has_more = FALSE => Coming(db, emitted, s, reply.events)
    BY <1>0, <2>3, <2>4, LastPageComing
  <2> QED
    BY <1>0, <1>r, <2>2, <2>5, <2>6, <2>7 DEF FInv
<1>6. CASE IngestEdge
  <2>1. /\ worker.pc = "ingest" /\ worker.page # NoPage /\ UNCHANGED <<db, outbox, emitted>>
        /\ ~Refuses(tx[1], worker.source, NextId, NextEdge)
        /\ tx' = <<WithEdge(tx[1], worker.source, NextId, NextEdge)>>
        /\ worker' = [worker EXCEPT
                         !.page = [j \in DOMAIN worker.page \ {NextId} |-> worker.page[j]]]
    BY <1>6 DEF IngestEdge, sourceVars
  <2>2. NextId \in DOMAIN worker.page /\ Dated(NextEdge)
    BY <1>0, <2>1, NextOfPage DEF RInv
  <2>3. PICK d, s, i, page : /\ d = tx[1] /\ s = worker.source /\ i = NextId
                             /\ page = worker.page /\ s \in Sources
    BY <1>s, <2>1 DEF Working
  <2>4. /\ Shaped(d) /\ Stories(d) /\ Fits(d, emitted) /\ PageOfLog(page, emitted[s])
        /\ worker.more = FALSE => Coming(d, emitted, s, page)
    BY <1>0, <2>1, <2>3 DEF FInv, RInv, AInv, TransactionAhead
  <2>5. NextEdge = emitted[s][i] /\ i \in 1 .. Len(emitted[s]) /\ i \in DOMAIN page
    BY <2>2, <2>3, <2>4 DEF PageOfLog, NextEdge
  <2>6. /\ Dated(emitted[s][i]) /\ SourceOf[emitted[s][i].alarm] = s /\ Alternates(emitted[s])
        /\ ~Refuses(d, s, i, emitted[s][i]) /\ emitted[s] \in Seq(Edge)
    BY <1>0, <1>n, <2>1, <2>2, <2>3, <2>5 DEF History
  <2>7. tx'[1] = WithEdge(d, s, i, emitted[s][i])
    BY <2>1, <2>3, <2>5
  <2>8. Fits(tx'[1], emitted)
    BY <2>3, <2>4, <2>5, <2>6, <2>7, EdgeFits
  <2>9. PICK rest : rest = [j \in DOMAIN page \ {i} |-> page[j]]
    OBVIOUS
  <2>10. worker.more = FALSE => Coming(tx'[1], emitted, s, rest)
    <3>1. DOMAIN rest = DOMAIN page \ {i}
      BY <2>9
    <3> SUFFICES ASSUME worker.more = FALSE PROVE Coming(tx'[1], emitted, s, rest)
      OBVIOUS
    <3>2. Coming(WithEdge(d, s, i, emitted[s][i]), emitted, s, rest)
      BY <2>3, <2>4, <2>5, <2>6, <3>1, EdgeComing
    <3> QED
      BY <2>7, <3>2
  <2>11. PageOfLog(rest, emitted[s])
    BY <2>4, <2>9 DEF PageOfLog
  <2>12. /\ worker'.page = rest /\ worker'.source = s /\ worker'.pc = "ingest"
         /\ worker'.more = worker.more
    BY <1>0, <2>1, <2>3, <2>9 DEF WorkerShaped, At
  <2> QED
    BY <1>0, <1>r, <2>1, <2>8, <2>10, <2>11, <2>12 DEF FInv
<1>7. CASE Commit
  <2>1. /\ worker.pc = "ingest" /\ worker.page = NoPage /\ db' = tx[1] /\ UNCHANGED <<outbox, emitted>>
        /\ worker' = [worker EXCEPT !.pc = AfterCommit,
                                    !.cursor = tx[1].cursor[worker.source]]
    BY <1>7 DEF Commit, sourceVars
  <2>2. PICK s \in Sources : s = worker.source
    BY <1>s, <2>1 DEF Working
  <2>3. /\ worker'.pc = AfterCommit /\ worker'.source = s /\ worker'.cursor = db'.cursor[s]
        /\ worker'.more = worker.more
    BY <1>0, <2>1, <2>2 DEF WorkerShaped, At
  <2>4. AfterCommit \in {"ack", "events", "baseline"} /\ (AfterCommit = "baseline" => worker.more = FALSE)
    BY <1>0 DEF AfterCommit, AfterPage
  <2>5. Fits(db', emitted)
    BY <2>1 DEF FInv
  <2>6. worker.more = FALSE => CaughtUp(db', emitted, s)
    <3>1. DOMAIN NoPage = {}
      BY DEF NoPage
    <3>2. worker.more = FALSE => Coming(db', emitted, s, NoPage)
      BY <2>1, <2>2 DEF FInv
    <3>3. db'.cursor[s] \in Nat
      BY <1>n, <2>5 DEF Fits
    <3> QED
      BY <1>n, <3>1, <3>2, <3>3 DEF Coming, CaughtUp, HasEdge
  <2> QED
    BY <1>0, <1>r, <2>1, <2>3, <2>4, <2>5, <2>6 DEF FInv
<1>8. ASSUME worker.pc = "ack", AckAccepted(outbox[worker.source], worker.cursor),
             outbox' = [outbox EXCEPT ![worker.source] = Acknowledged(@, worker.cursor)]
      PROVE  History(outbox', emitted)
  <2>1. PICK s \in Sources : s = worker.source
    BY <1>s, <1>8 DEF Working
  <2>2. PICK o, n : o = outbox[s] /\ n = worker.cursor /\ n \in Nat /\ Logged(o, emitted[s])
    BY <1>0 DEF WorkerShaped, History
  <2>3. Logged(Acknowledged(o, n), emitted[s])
    BY <1>8, <2>1, <2>2, AcknowledgedLogged
  <2> QED
    BY <1>0, <1>8, <2>1, <2>2, <2>3 DEF History, OutboxShaped
<1>9. CASE Acknowledge
  <2>1. /\ worker.pc = "ack" /\ UNCHANGED <<db, tx, emitted>>
        /\ AckAccepted(outbox[worker.source], worker.cursor)
        /\ outbox' = [outbox EXCEPT ![worker.source] = Acknowledged(@, worker.cursor)]
        /\ worker' = [worker EXCEPT !.pc = AfterPage]
    BY <1>9 DEF Acknowledge
  <2>2. /\ worker'.pc = AfterPage /\ worker'.source = worker.source
        /\ worker'.cursor = worker.cursor /\ worker'.more = worker.more
    BY <1>0, <2>1 DEF WorkerShaped, At
  <2>3. AfterPage \in {"events", "baseline"} /\ (AfterPage = "baseline" => worker.more = FALSE)
    BY <1>0 DEF AfterPage
  <2>4. History(outbox', emitted)
    BY <1>8, <2>1
  <2> QED
    BY <1>0, <1>r, <2>1, <2>2, <2>3, <2>4 DEF FInv
<1>10. CASE AcknowledgeUnheard \/ RequestFails \/ RefuseEdge
  <2>1. worker' = Picking /\ UNCHANGED <<db, emitted>>
    BY <1>10 DEF AcknowledgeUnheard, RequestFails, RefuseEdge, GiveUp
  <2>2. \/ UNCHANGED outbox
        \/ /\ worker.pc = "ack" /\ AckAccepted(outbox[worker.source], worker.cursor)
           /\ outbox' = [outbox EXCEPT ![worker.source] = Acknowledged(@, worker.cursor)]
    BY <1>10 DEF AcknowledgeUnheard, RequestFails, RefuseEdge
  <2>3. History(outbox', emitted)
    BY <1>0, <1>8, <2>2
  <2> QED
    BY <1>0, <1>r, <2>1, <2>3, SourceLeft
<1>11. CASE Baselines
  <2>1. /\ worker.pc = "baseline" /\ worker' = Picking /\ UNCHANGED <<outbox, emitted>>
        /\ db' = WithBaselines(db, worker.source)
    BY <1>11 DEF Baselines, sourceVars
  <2>2. PICK s \in Sources : s = worker.source /\ CaughtUp(db, emitted, s)
    BY <1>s, <2>1 DEF Working, FInv
  <2>3. Fits(db', emitted)
    BY <1>0, <2>1, <2>2, BaselinesFit
  <2> QED
    BY <1>0, <1>r, <2>1, <2>3, SourceLeft
<1>12. CASE Deadlines
  <2>1. /\ worker' = Idle /\ UNCHANGED <<outbox, emitted>> /\ db' = WithDeadlines(db, synced, clock)
    BY <1>12 DEF Deadlines, sourceVars
  <2>2. Fits(db', emitted)
    BY <1>0, <2>1, DeadlinesFit
  <2> QED
    BY <1>0, <1>r, <2>1, <2>2, SourceLeft
<1>13. CASE Restart
  <2>1. worker' = Idle /\ UNCHANGED <<db, outbox, emitted>>
    BY <1>13 DEF Restart, sourceVars
  <2> QED
    BY <1>0, <1>r, <2>1, SourceLeft
<1>14. CASE \E a \in Alarms, c \in Choices : UpdateSettings(a, c[1], c[2])
  <2>1. PICK a \in Alarms, c \in Choices : UpdateSettings(a, c[1], c[2])
    BY <1>14
  <2>2. PICK start, end : start = c[1] /\ end = c[2]
    OBVIOUS
  <2>3. /\ tx = <<>> /\ UNCHANGED <<tx, worker, outbox, emitted>>
        /\ db' = [db EXCEPT !.alarm[a].sendStart = start, !.alarm[a].sendEnd = end]
    BY <2>1, <2>2 DEF UpdateSettings, sourceVars
  <2>4. PICK r : r = db.alarm[a] /\ r \in Row
    BY <1>0 DEF Stories, Story
  <2>5. /\ db'.alarm[a] = [r EXCEPT !.sendStart = start, !.sendEnd = end]
        /\ \A b \in Alarms \ {a} : db'.alarm[b] = db.alarm[b]
        /\ db'.cursor = db.cursor
    BY <1>0, <2>3, <2>4 DEF Shaped
  <2>6. \A b \in Alarms : SameCondition(db'.alarm[b], db.alarm[b])
                          /\ db'.alarm[b].shown = db.alarm[b].shown
    <3>1. SameCondition(db'.alarm[a], r) /\ db'.alarm[a].shown = r.shown
      <4>1. PICK q : q = [r EXCEPT !.sendStart = start, !.sendEnd = end]
        OBVIOUS
      <4>2. q.value = r.value /\ q.since = r.since /\ q.lifecycle = r.lifecycle /\ q.shown = r.shown
        BY <2>4, <4>1 DEF Row
      <4>3. SameCondition(q, r)
        BY <4>2 DEF SameCondition
      <4> QED
        BY <2>5, <4>1, <4>2, <4>3
    <3>2. \A b \in Alarms \ {a} : SameCondition(db'.alarm[b], db.alarm[b])
                                  /\ db'.alarm[b].shown = db.alarm[b].shown
      BY <2>5 DEF SameCondition
    <3> QED
      BY <2>4, <3>1, <3>2
  <2>7. Fits(db', emitted)
    BY <1>0, <2>5, <2>6, SameFits
  <2>8. \A s : CaughtUp(db, emitted, s) => CaughtUp(db', emitted, s)
    BY <2>5, <2>6 DEF CaughtUp, OfSource
  <2>9. worker.pc # "ingest"
    BY <1>0, <2>3
  <2> QED
    BY <1>0, <1>r, <2>3, <2>5, <2>7, <2>8, <2>9 DEF FInv
<1> QED
  BY <1>1, <1>2, <1>3, <1>4, <1>5, <1>6, <1>7, <1>9, <1>10, <1>11, <1>12, <1>13, <1>14
  DEF Next, WorkerStep

\* The state of an alarm is that of the last edge the cursor of its source has
\* passed: no edge is applied twice or left out, and no baseline overtakes one.
THEOREM AlwaysFollows == Spec => []StateFollowsCursor
<1>1. SyncAssumption
  BY SyncAssumption
<1>2. FInv => StateFollowsCursor
  BY DEF FInv, Fits, FollowsRow, StateFollowsCursor
<1> QED
  BY <1>1, <1>2, InitFInv, NextFInv, PTL DEF Spec

-----------------------------------------------------------------------------
(* The rest of the variables *)

\* What TypeOK says of the rest of the variables, and the source under way.
CycleShaped ==
    /\ registered \subseteq Alarms
    /\ configured \subseteq Sources /\ configured # {}
    /\ todo \subseteq configured /\ synced \subseteq configured
    /\ worker.pc \in Working => worker.source \in configured
    /\ confirmed \in [Sources -> Nat]
    /\ clock \in 1 .. MaxClock
    /\ faults \in 0 .. MaxFaults

TInv == FInv /\ CycleShaped

LEMMA InitTInv == SyncAssumption /\ Init => TInv
<1> SUFFICES ASSUME SyncAssumption, Init PROVE TInv
  OBVIOUS
<1>1. worker.pc = "idle"
  BY DEF Init, Idle, At
<1>2. CycleShaped
  BY <1>1 DEF SyncAssumption, Init, CycleShaped, Working
<1> QED
  BY <1>2, InitFInv DEF TInv

LEMMA NextTInv == SyncAssumption /\ TInv /\ [Next]_vars => TInv'
<1> SUFFICES ASSUME SyncAssumption, TInv, [Next]_vars PROVE TInv'
  OBVIOUS
<1>0. FInv /\ RInv /\ AInv /\ CycleShaped /\ WorkerShaped
  BY DEF TInv, FInv, RInv, AInv
<1>f. FInv'
  BY <1>0, NextFInv
<1> SUFFICES CycleShaped'
  BY <1>f DEF TInv
<1>w. Idle.pc = "idle" /\ Picking.pc = "pick"
  BY DEF Idle, Picking, At
<1> USE <1>0 DEF CycleShaped
<1>1. ASSUME NEW a \in Alarms, Register(a) PROVE CycleShaped'
  BY <1>1 DEF Register, cycleVars, memoryVars
<1>2. ASSUME NEW a \in Alarms, NEW v \in Values, NEW at \in 1 .. clock, Observe(a, v, at) PROVE CycleShaped'
  BY <1>2 DEF Observe, cycleVars, memoryVars
<1>3. ASSUME NEW s \in Sources, RestartSource(s) PROVE CycleShaped'
  BY <1>3 DEF RestartSource, Fault, cycleVars, memoryVars, SyncAssumption
<1>4. CASE Tick
  BY <1>4 DEF Tick, sourceVars, cycleVars, memoryVars, SyncAssumption
<1>5. CASE StartCycle
  <2>1. worker'.pc = "pick"
    BY <1>5, <1>w DEF StartCycle
  <2> QED
    BY <1>5, <2>1 DEF StartCycle, sourceVars, memoryVars, Working
<1>6. ASSUME NEW s \in Sources, SyncCatalog(s) PROVE CycleShaped'
  <2>1. /\ s \in todo /\ worker' = At("events", s, db.cursor[s], NoPage, FALSE)
        /\ UNCHANGED <<registered, configured, todo, synced, confirmed, clock, faults>>
    BY <1>6 DEF SyncCatalog, sourceVars, cycleVars
  <2>2. worker'.source = s
    BY <2>1 DEF At
  <2> QED
    BY <2>1, <2>2
<1>7. CASE FetchEvents \/ IngestEdge \/ Commit
  <2>1. /\ worker.pc \in Working
        /\ UNCHANGED <<registered, configured, todo, synced, confirmed, clock, faults>>
    BY <1>7 DEF FetchEvents, IngestEdge, Commit, sourceVars, cycleVars, memoryVars, Working
  <2>2. worker'.source = worker.source
    BY <1>7 DEF FetchEvents, IngestEdge, Commit, WorkerShaped, At
  <2> QED
    BY <2>1, <2>2
<1>8. CASE Acknowledge
  <2>1. /\ worker.pc = "ack"
        /\ confirmed' = [confirmed EXCEPT ![worker.source] = worker.cursor]
        /\ UNCHANGED <<registered, configured, todo, synced, clock, faults>>
        /\ worker' = [worker EXCEPT !.pc = AfterPage]
    BY <1>8 DEF Acknowledge, cycleVars
  <2>2. worker'.source = worker.source /\ worker.cursor \in Nat
    BY <2>1 DEF WorkerShaped, At
  <2> QED
    BY <2>1, <2>2 DEF Working
<1>9. CASE AcknowledgeUnheard \/ RequestFails \/ RefuseEdge
  <2>1. /\ worker' = Picking /\ todo' \subseteq todo
        /\ UNCHANGED <<configured, synced, registered, confirmed, clock>>
        /\ Fault \/ faults' = faults
    BY <1>9 DEF AcknowledgeUnheard, RequestFails, RefuseEdge, GiveUp
  <2>2. worker'.pc = "pick"
    BY <1>w, <2>1
  <2> QED
    BY <2>1, <2>2 DEF Fault, Working, SyncAssumption
<1>10. ASSUME NEW s \in Sources, CatalogFails(s) PROVE CycleShaped'
  BY <1>10 DEF CatalogFails, Fault, sourceVars, memoryVars, SyncAssumption
<1>11. CASE Baselines
  <2>1. /\ worker' = Picking /\ worker.pc = "baseline" /\ todo' \subseteq todo
        /\ synced' = synced \cup {worker.source}
        /\ UNCHANGED <<configured, registered, confirmed, clock, faults>>
    BY <1>11 DEF Baselines, sourceVars, memoryVars
  <2>2. worker'.pc = "pick" /\ worker.source \in configured
    BY <1>w, <2>1 DEF Working
  <2> QED
    BY <2>1, <2>2 DEF Working
<1>12. CASE Deadlines
  <2>1. worker'.pc = "idle"
    BY <1>12, <1>w DEF Deadlines
  <2> QED
    BY <1>12, <2>1 DEF Deadlines, sourceVars, memoryVars, Working
<1>13. CASE Restart
  <2>1. worker'.pc = "idle"
    BY <1>13, <1>w DEF Restart
  <2>2. confirmed' \in [Sources -> Nat]
    BY <1>13 DEF Restart
  <2> QED
    BY <1>13, <2>1, <2>2 DEF Restart, Fault, sourceVars, Working, SyncAssumption
<1>14. ASSUME NEW a \in Alarms, NEW c \in Choices, UpdateSettings(a, c[1], c[2])
       PROVE  CycleShaped'
  BY <1>14 DEF UpdateSettings, sourceVars, cycleVars, memoryVars
<1>15. CASE UNCHANGED vars
  BY <1>15 DEF vars
<1> QED
  BY <1>f, <1>1, <1>2, <1>3, <1>4, <1>5, <1>6, <1>7, <1>8, <1>9, <1>10, <1>11, <1>12, <1>13,
     <1>14, <1>15 DEF Next, WorkerStep

LEMMA DatabaseTyped ==
    ASSUME NEW d, Shaped(d), Stories(d)
    PROVE  d \in [cursor : [Sources -> Nat], alarm : [Alarms -> Row]]
<1>1. \A a \in Alarms : d.alarm[a] \in Row
  BY DEF Stories, Story
<1>2. d.alarm \in [Alarms -> Row]
  BY <1>1 DEF Shaped
<1> QED
  BY <1>2 DEF Shaped

\* Every variable of the thread and of the database keeps to its kind of value.
THEOREM AlarmeroTypeCorrect == Spec => []TypeOK
<1>1. SyncAssumption
  BY SyncAssumption
<1>2. TInv => TypeOK
  <2> SUFFICES ASSUME TInv PROVE TypeOK
    OBVIOUS
  <2>0. FInv /\ RInv /\ AInv /\ CycleShaped /\ History(outbox, emitted)
    BY DEF TInv, FInv, RInv
  <2>1. \A s \in Sources : Loadable(outbox[s])
    BY <2>0, LoggedLoadable DEF History
  <2>2. emitted \in [Sources -> Seq(Edge)]
    <3>1. \A s \in Sources : emitted[s] \in Seq(Edge)
      BY <2>0 DEF History, Logged
    <3> QED
      BY <2>0, <3>1 DEF History
  <2>3. db \in [cursor : [Sources -> Nat], alarm : [Alarms -> Row]]
    BY <2>0, DatabaseTyped DEF RInv, AInv
  <2>4. tx = <<>> \/ tx[1] \in [cursor : [Sources -> Nat], alarm : [Alarms -> Row]]
    BY <2>0, DatabaseTyped DEF RInv, AInv, TransactionAhead
  <2>5. /\ worker.pc \in {"idle", "pick", "events", "ingest", "ack", "baseline"}
        /\ worker.pc = "ingest" <=> tx # <<>>
    BY <2>0 DEF AInv, WorkerShaped, Working
  <2>6. configured \in (SUBSET Sources) \ {{}}
    BY <2>0 DEF CycleShaped
  <2> QED
    BY <2>0, <2>1, <2>2, <2>3, <2>4, <2>5, <2>6 DEF TypeOK, CycleShaped
<1> QED
  BY <1>1, <1>2, InitTInv, NextTInv, PTL DEF Spec

-----------------------------------------------------------------------------
(* What is settled stays: the action property *)

\* From the row r to the row q nothing that was settled is touched, nor a choice of
\* the operator.
Advances(r, q) ==
    /\ Len(r.incidents) <= Len(q.incidents)
    /\ \A i \in 1 .. Len(r.incidents) :
         r.incidents[i].status = "resolved" => q.incidents[i] = r.incidents[i]
    /\ r.dispatches \subseteq q.dispatches
    /\ q.sendStart = r.sendStart /\ q.sendEnd = r.sendEnd

SameTale(r, q) == q.incidents = r.incidents /\ q.dispatches = r.dispatches

LEMMA QuietAdvances ==
    ASSUME NEW r \in Row, NEW q, SameTale(r, q), q.sendStart = r.sendStart, q.sendEnd = r.sendEnd
    PROVE  Advances(r, q)
<1>1. r.incidents \in Seq(Incident) /\ Len(r.incidents) \in Nat
  BY DEF Row
<1> QED
  BY <1>1 DEF Advances, SameTale

LEMMA ThenAdvances ==
    ASSUME NEW r \in Row, NEW p \in Row, NEW q, Advances(r, p), Advances(p, q),
           Len(q.incidents) \in Nat
    PROVE  Advances(r, q)
<1>1. Len(r.incidents) \in Nat /\ Len(p.incidents) \in Nat
  BY DEF Row
<1>2. \A i \in 1 .. Len(r.incidents) : i \in 1 .. Len(p.incidents)
  BY <1>1 DEF Advances
<1> QED
  BY <1>1, <1>2 DEF Advances

\* The open incident is not resolved, so its own writes leave the resolved alone.
LEMMA OpenAdvances ==
    ASSUME NEW r, Story(r), r.lifecycle \in Open, NEW q, NEW c,
           q.incidents = [r.incidents EXCEPT ![r.incident] = c],
           r.dispatches \subseteq q.dispatches,
           q.sendStart = r.sendStart, q.sendEnd = r.sendEnd
    PROVE  Advances(r, q)
<1>1. r.incidents \in Seq(Incident) /\ Len(r.incidents) \in Nat
  BY DEF Story, Row
<1>2. r.incidents[r.incident].status # "resolved"
  BY OpenIncident, StatusOfEach DEF Open
<1>3. Len(q.incidents) = Len(r.incidents)
  BY <1>1
<1>4. \A i \in 1 .. Len(r.incidents) : i # r.incident => q.incidents[i] = r.incidents[i]
  BY <1>1
<1> QED
  BY <1>1, <1>2, <1>3, <1>4 DEF Advances

LEMMA StartedAdvances ==
    ASSUME NEW r, Story(r), NEW at
    PROVE  Advances(r, Started(r, at))
<1> DEFINE q == Started(r, at)
           is == Append(r.incidents, Potential(at))
<1>1. r \in Row /\ r.incidents \in Seq(Incident) /\ Len(r.incidents) \in Nat
  BY DEF Story, Row
<1>2. /\ q.incidents = is /\ q.dispatches = r.dispatches
      /\ q.sendStart = r.sendStart /\ q.sendEnd = r.sendEnd
  BY <1>1 DEF Started, Row
<1>3. Len(is) = Len(r.incidents) + 1 /\ \A i \in 1 .. Len(r.incidents) : is[i] = r.incidents[i]
  BY <1>1
<1> HIDE DEF q, is
<1>4. Advances(r, q)
  BY <1>1, <1>2, <1>3 DEF Advances
<1> QED
  BY <1>4 DEF q

LEMMA BaselineAdvances ==
    ASSUME NEW r, Story(r), NEW at
    PROVE  Advances(r, BaselineInactive(r, at))
<1> DEFINE q == BaselineInactive(r, at)
<1>1. r \in Row
  BY DEF Story
<1>2. /\ SameTale(r, q) /\ q.sendStart = r.sendStart /\ q.sendEnd = r.sendEnd
  BY <1>1 DEF BaselineInactive, Row, SameTale
<1> HIDE DEF q
<1>3. Advances(r, q)
  BY <1>1, <1>2, QuietAdvances
<1> QED
  BY <1>3 DEF q

LEMMA CancelledAdvances ==
    ASSUME NEW r, Story(r), r.lifecycle \in Open, NEW at
    PROVE  Advances(r, Cancelled(r, at))
<1> DEFINE q == Cancelled(r, at)
<1>1. r \in Row
  BY DEF Story
<1>2. PICK c : q.incidents = [r.incidents EXCEPT ![r.incident] = c]
  BY <1>1 DEF Cancelled, Row
<1>3. /\ r.dispatches \subseteq q.dispatches
      /\ q.sendStart = r.sendStart /\ q.sendEnd = r.sendEnd
  BY <1>1 DEF Cancelled, Row
<1> HIDE DEF q
<1>4. Advances(r, q)
  BY <1>2, <1>3, OpenAdvances
<1> QED
  BY <1>4 DEF q

LEMMA RecoveringAdvances ==
    ASSUME NEW r, Story(r), r.lifecycle \in Open, NEW at
    PROVE  Advances(r, Recovering(r, at))
<1> DEFINE q == Recovering(r, at)
<1>1. r \in Row
  BY DEF Story
<1>2. PICK c : q.incidents = [r.incidents EXCEPT ![r.incident] = c]
  BY <1>1 DEF Recovering, Row
<1>3. /\ r.dispatches \subseteq q.dispatches
      /\ q.sendStart = r.sendStart /\ q.sendEnd = r.sendEnd
  BY <1>1 DEF Recovering, Row
<1> HIDE DEF q
<1>4. Advances(r, q)
  BY <1>2, <1>3, OpenAdvances
<1> QED
  BY <1>4 DEF q

LEMMA ActiveAgainAdvances ==
    ASSUME NEW r, Story(r), r.lifecycle \in Open, NEW at
    PROVE  Advances(r, ActiveAgain(r, at))
<1> DEFINE q == ActiveAgain(r, at)
<1>1. r \in Row
  BY DEF Story
<1>2. PICK c : q.incidents = [r.incidents EXCEPT ![r.incident] = c]
  BY <1>1 DEF ActiveAgain, Row
<1>3. /\ r.dispatches \subseteq q.dispatches
      /\ q.sendStart = r.sendStart /\ q.sendEnd = r.sendEnd
  BY <1>1 DEF ActiveAgain, Row
<1> HIDE DEF q
<1>4. Advances(r, q)
  BY <1>2, <1>3, OpenAdvances
<1> QED
  BY <1>4 DEF q

LEMMA ActivatedAdvances ==
    ASSUME NEW r, Story(r), r.lifecycle \in Open
    PROVE  Advances(r, Activated(r))
<1> DEFINE q == Activated(r)
<1>1. r \in Row
  BY DEF Story
<1>2. PICK c : q.incidents = [r.incidents EXCEPT ![r.incident] = c]
  BY <1>1 DEF Activated, Row
<1>3. /\ r.dispatches \subseteq q.dispatches
      /\ q.sendStart = r.sendStart /\ q.sendEnd = r.sendEnd
  BY <1>1 DEF Activated, Row
<1> HIDE DEF q
<1>4. Advances(r, q)
  BY <1>2, <1>3, OpenAdvances
<1> QED
  BY <1>4 DEF q

LEMMA ResolvedAdvances ==
    ASSUME NEW r, Story(r), r.lifecycle \in Open
    PROVE  Advances(r, Resolved(r))
<1> DEFINE q == Resolved(r)
<1>1. r \in Row
  BY DEF Story
<1>2. PICK c : q.incidents = [r.incidents EXCEPT ![r.incident] = c]
  BY <1>1 DEF Resolved, Row
<1>3. /\ r.dispatches \subseteq q.dispatches
      /\ q.sendStart = r.sendStart /\ q.sendEnd = r.sendEnd
  BY <1>1 DEF Resolved, Row
<1> HIDE DEF q
<1>4. Advances(r, q)
  BY <1>2, <1>3, OpenAdvances
<1> QED
  BY <1>4 DEF q

LEMMA DeadlineAdvances ==
    ASSUME NEW r, Story(r), NEW now
    PROVE  Advances(r, AfterDeadlines(r, now))
<1>1. CASE r.listed = "yes" /\ IsDue(r, now) /\ r.lifecycle = "pending_start"
  BY <1>1, ActivatedAdvances DEF AfterDeadlines, Open
<1>2. CASE r.listed = "yes" /\ IsDue(r, now) /\ r.lifecycle # "pending_start"
  BY <1>2, ResolvedAdvances DEF AfterDeadlines, Open, IsDue
<1>3. CASE ~(r.listed = "yes" /\ IsDue(r, now))
  <2>1. AfterDeadlines(r, now) = r
    BY <1>3 DEF AfterDeadlines
  <2> QED
    BY <2>1, QuietAdvances DEF Story, SameTale
<1> QED
  BY <1>1, <1>2, <1>3

LEMMA AppliedAdvances ==
    ASSUME NEW r, Story(r), NEW v, NEW at
    PROVE  Advances(r, Applied(r, v, at))
<1>1. r \in Row /\ r.lifecycle \in {"none", "inactive", "pending_start", "active", "pending_end"}
  BY DEF Story, Row
<1>2. CASE r.lifecycle = "none"
  <2>1. Applied(r, v, at) = IF v = "on" THEN Started(r, at) ELSE BaselineInactive(r, at)
    BY <1>2 DEF Applied
  <2> QED
    BY <2>1, StartedAdvances, BaselineAdvances
<1>3. CASE r.lifecycle # "none" /\ r.value = v
  <2>1. Applied(r, v, at) = r
    BY <1>3 DEF Applied
  <2> QED
    BY <1>1, <2>1, QuietAdvances DEF SameTale
<1>4. CASE r.lifecycle = "inactive" /\ r.value # v
  <2>1. Applied(r, v, at) = Started(r, at)
    BY <1>4 DEF Applied
  <2> QED
    BY <2>1, StartedAdvances
<1>5. CASE r.lifecycle = "pending_start" /\ r.value # v
  <2>1. Applied(r, v, at) = Cancelled(r, at)
    BY <1>5 DEF Applied
  <2> QED
    BY <1>5, <2>1, CancelledAdvances DEF Open
<1>6. CASE r.lifecycle = "active" /\ r.value # v
  <2>1. Applied(r, v, at) = Recovering(r, at)
    BY <1>6 DEF Applied
  <2> QED
    BY <1>6, <2>1, RecoveringAdvances DEF Open
<1>7. CASE r.lifecycle = "pending_end" /\ r.value # v
  <2>1. Applied(r, v, at) = ActiveAgain(r, at)
    BY <1>7 DEF Applied
  <2> QED
    BY <1>7, <2>1, ActiveAgainAdvances DEF Open
<1> QED
  BY <1>1, <1>2, <1>3, <1>4, <1>5, <1>6, <1>7

\* The catalogue and the operator's choice tell nothing of the incidents.
LEMMA ListedQuiet ==
    ASSUME NEW r, Story(r), NEW c
    PROVE  SameTale(r, Listed(r, c)) /\ Advances(r, Listed(r, c))
<1> DEFINE q == Listed(r, c)
<1>1. r \in Row
  BY DEF Story
<1>2. SameTale(r, q) /\ q.sendStart = r.sendStart /\ q.sendEnd = r.sendEnd
  BY <1>1 DEF Listed, Row, SameTale
<1> HIDE DEF q
<1>3. SameTale(r, q) /\ Advances(r, q)
  BY <1>1, <1>2, QuietAdvances
<1> QED
  BY <1>3 DEF q

LEMMA UnlistedQuiet ==
    ASSUME NEW r, Story(r)
    PROVE  SameTale(r, Unlisted(r)) /\ Advances(r, Unlisted(r))
<1> DEFINE q == Unlisted(r)
<1>1. r \in Row
  BY DEF Story
<1>2. SameTale(r, q) /\ q.sendStart = r.sendStart /\ q.sendEnd = r.sendEnd
  BY <1>1 DEF Unlisted, Row, SameTale
<1> HIDE DEF q
<1>3. SameTale(r, q) /\ Advances(r, q)
  BY <1>1, <1>2, QuietAdvances
<1> QED
  BY <1>3 DEF q

LEMMA ShownQuiet ==
    ASSUME NEW r \in Row, NEW c
    PROVE  LET q == [r EXCEPT !.shown = c]
           IN  /\ q.incidents = r.incidents /\ q.dispatches = r.dispatches
               /\ q.sendStart = r.sendStart /\ q.sendEnd = r.sendEnd
BY DEF Row

-----------------------------------------------------------------------------
\* From the database d to q; only alarms of the sources ss have anything new.
DatabaseAdvances(d, q, ss) ==
    \A a \in Alarms : /\ Advances(d.alarm[a], q.alarm[a])
                      /\ SourceOf[a] \notin ss => SameTale(d.alarm[a], q.alarm[a])

LEMMA SameDatabase ==
    ASSUME NEW d, Stories(d), NEW ss PROVE DatabaseAdvances(d, d, ss)
BY QuietAdvances DEF DatabaseAdvances, Stories, Story, SameTale

LEMMA ThenDatabase ==
    ASSUME NEW d, NEW p, NEW q, Stories(d), Stories(p), Stories(q), NEW ss,
           DatabaseAdvances(d, p, ss), DatabaseAdvances(p, q, ss)
    PROVE  DatabaseAdvances(d, q, ss)
<1> SUFFICES ASSUME NEW a \in Alarms
             PROVE  /\ Advances(d.alarm[a], q.alarm[a])
                    /\ SourceOf[a] \notin ss => SameTale(d.alarm[a], q.alarm[a])
  BY DEF DatabaseAdvances
<1>1. PICK x, y, z : x = d.alarm[a] /\ y = p.alarm[a] /\ z = q.alarm[a]
  OBVIOUS
<1>2. x \in Row /\ y \in Row /\ z \in Row
  BY <1>1 DEF Stories, Story
<1>3. Len(z.incidents) \in Nat
  BY <1>2 DEF Row
<1>4. Advances(x, y) /\ Advances(y, z)
  BY <1>1 DEF DatabaseAdvances
<1>5. Advances(x, z)
  BY <1>2, <1>3, <1>4, ThenAdvances
<1>6. SourceOf[a] \notin ss => SameTale(x, z)
  BY <1>1 DEF DatabaseAdvances, SameTale
<1> QED
  BY <1>1, <1>5, <1>6

LEMMA ReconciledAdvances ==
    ASSUME NEW d, Stories(d), NEW ss
    PROVE  DatabaseAdvances(d, Reconciled(d, ss), {})
<1> SUFFICES ASSUME NEW a \in Alarms
             PROVE  /\ Advances(d.alarm[a], Reconciled(d, ss).alarm[a])
                    /\ SameTale(d.alarm[a], Reconciled(d, ss).alarm[a])
  BY DEF DatabaseAdvances
<1>1. PICK r : r = d.alarm[a] /\ Story(r)
  BY DEF Stories
<1>2. Reconciled(d, ss).alarm[a] \in {r, Unlisted(r)}
  BY <1>1 DEF Reconciled
<1>3. SameTale(r, r) /\ Advances(r, r)
  BY <1>1, QuietAdvances DEF Story, SameTale
<1> QED
  BY <1>1, <1>2, <1>3, UnlistedQuiet

LEMMA CatalogAdvances ==
    ASSUME NEW d, Stories(d), NEW s, NEW snapshot
    PROVE  DatabaseAdvances(d, WithCatalog(d, s, snapshot), {})
<1> SUFFICES ASSUME NEW a \in Alarms
             PROVE  /\ Advances(d.alarm[a], WithCatalog(d, s, snapshot).alarm[a])
                    /\ SameTale(d.alarm[a], WithCatalog(d, s, snapshot).alarm[a])
  BY DEF DatabaseAdvances
<1>1. PICK r : r = d.alarm[a] /\ Story(r)
  BY DEF Stories
<1>2. WithCatalog(d, s, snapshot).alarm[a] \in {r, Listed(r, snapshot[a]), Unlisted(r)}
  BY <1>1 DEF WithCatalog
<1>3. SameTale(r, r) /\ Advances(r, r)
  BY <1>1, QuietAdvances DEF Story, SameTale
<1> QED
  BY <1>1, <1>2, <1>3, UnlistedQuiet, ListedQuiet

LEMMA BaselinesAdvance ==
    ASSUME NEW d, Stories(d), NEW s
    PROVE  DatabaseAdvances(d, WithBaselines(d, s), {s})
<1> SUFFICES ASSUME NEW a \in Alarms
             PROVE  /\ Advances(d.alarm[a], WithBaselines(d, s).alarm[a])
                    /\ SourceOf[a] # s => SameTale(d.alarm[a], WithBaselines(d, s).alarm[a])
  BY DEF DatabaseAdvances
<1>1. PICK r : r = d.alarm[a] /\ Story(r)
  BY DEF Stories
<1>2. WithBaselines(d, s).alarm[a] = IF SourceOf[a] = s /\ NeedsBaseline(r)
                                     THEN Applied(r, r.shown.value, r.shown.since) ELSE r
  BY <1>1 DEF WithBaselines
<1>3. SameTale(r, r) /\ Advances(r, r)
  BY <1>1, QuietAdvances DEF Story, SameTale
<1> QED
  BY <1>1, <1>2, <1>3, AppliedAdvances

LEMMA DeadlinesAdvance ==
    ASSUME NEW d, Stories(d), NEW ss, NEW now
    PROVE  DatabaseAdvances(d, WithDeadlines(d, ss, now), ss)
<1> SUFFICES ASSUME NEW a \in Alarms
             PROVE  /\ Advances(d.alarm[a], WithDeadlines(d, ss, now).alarm[a])
                    /\ SourceOf[a] \notin ss
                         => SameTale(d.alarm[a], WithDeadlines(d, ss, now).alarm[a])
  BY DEF DatabaseAdvances
<1>1. PICK r : r = d.alarm[a] /\ Story(r)
  BY DEF Stories
<1>2. WithDeadlines(d, ss, now).alarm[a] = IF SourceOf[a] \in ss THEN AfterDeadlines(r, now) ELSE r
  BY <1>1 DEF WithDeadlines
<1>3. SameTale(r, r) /\ Advances(r, r)
  BY <1>1, QuietAdvances DEF Story, SameTale
<1> QED
  BY <1>1, <1>2, <1>3, DeadlineAdvances

\* One turn of ingest_events: the deadline first, then the condition.
LEMMA EdgeAdvances ==
    ASSUME NEW d, Shaped(d), Stories(d), NEW s, NEW i, NEW e, Dated(e), SourceOf[e.alarm] = s,
           ~Refuses(d, s, i, e)
    PROVE  DatabaseAdvances(d, WithEdge(d, s, i, e), {s})
<1>1. PICK b \in Alarms : b = e.alarm
  BY DEF Dated
<1>2. PICK r : r = d.alarm[b] /\ Story(r)
  BY DEF Stories
<1>3. PICK q : q = AfterDeadlines(r, e.at)
  OBVIOUS
<1>4. PICK v \in Values : v = e.value
  BY DEF Dated
<1>5. PICK t \in Nat \ {Null} : t = e.at
  BY DEF Dated
<1>6. Accepts(q, v, t)
  BY <1>1, <1>2, <1>3, <1>4, <1>5 DEF Refuses, AtEdge
<1>7. Story(q) /\ (q.listed = "yes" /\ q.lifecycle = "pending_start" => t < q.since + Activation)
  BY <1>2, <1>3, <1>5, DeadlineStory
<1>8. PICK p : p = Applied(q, v, t)
  OBVIOUS
<1>9. Story(p)
  BY <1>6, <1>7, <1>8, AppliedStory DEF Accepts
<1>10. Advances(r, q) /\ Advances(q, p)
  BY <1>2, <1>3, <1>7, <1>8, DeadlineAdvances, AppliedAdvances
<1>11. r \in Row /\ q \in Row /\ p \in Row /\ Len(p.incidents) \in Nat
  BY <1>2, <1>7, <1>9 DEF Story, Row
<1>12. Advances(r, p)
  BY <1>10, <1>11, ThenAdvances
<1>13. PICK w : w = [p EXCEPT !.shown = [value |-> v, since |-> t]]
  OBVIOUS
<1>14. /\ w.incidents = p.incidents /\ w.dispatches = p.dispatches
       /\ w.sendStart = p.sendStart /\ w.sendEnd = p.sendEnd
  BY <1>11, <1>13, ShownQuiet
<1>15. Advances(r, w)
  BY <1>12, <1>14 DEF Advances
<1>16. WithEdge(d, s, i, e).alarm = [d.alarm EXCEPT ![b] = w]
  BY <1>1, <1>2, <1>3, <1>4, <1>5, <1>8, <1>13 DEF WithEdge, AtEdge
<1>17. d.alarm = [a \in Alarms |-> d.alarm[a]]
  BY DEF Shaped
<1>18. \A a \in Alarms : WithEdge(d, s, i, e).alarm[a] = IF a = b THEN w ELSE d.alarm[a]
  BY <1>16, <1>17
<1>19. ASSUME NEW a \in Alarms
       PROVE  /\ Advances(d.alarm[a], WithEdge(d, s, i, e).alarm[a])
              /\ SourceOf[a] # s => SameTale(d.alarm[a], WithEdge(d, s, i, e).alarm[a])
  <2>1. CASE a = b
    BY <1>1, <1>2, <1>15, <1>18, <2>1
  <2>2. CASE a # b
    <3>1. PICK x : x = d.alarm[a] /\ x \in Row
      BY DEF Stories, Story
    <3>2. SameTale(x, x) /\ Advances(x, x)
      BY <3>1, QuietAdvances DEF SameTale
    <3> QED
      BY <1>18, <2>2, <3>1, <3>2
  <2> QED
    BY <2>1, <2>2
<1> QED
  BY <1>19 DEF DatabaseAdvances

-----------------------------------------------------------------------------
\* A transaction under way is ahead of the database in the alarms of its source.
HInv ==
    /\ TInv
    /\ worker.pc = "ingest" => DatabaseAdvances(db, tx[1], {worker.source})

Settled ==
    /\ \A s \in Sources : db.cursor[s] <= db'.cursor[s]
    /\ \A a \in Alarms :
         LET r == db.alarm[a]
             q == db'.alarm[a]
         IN  /\ Len(r.incidents) <= Len(q.incidents)
             /\ \A i \in 1 .. Len(r.incidents) :
                    r.incidents[i].status = "resolved" => q.incidents[i] = r.incidents[i]
             /\ r.dispatches \subseteq q.dispatches
             /\ SourceOf[a] \notin configured =>
                    q.incidents = r.incidents /\ q.dispatches = r.dispatches
             /\ \/ q.sendStart = r.sendStart /\ q.sendEnd = r.sendEnd
                \/ UNCHANGED worker

LEMMA InitHInv == SyncAssumption /\ Init => HInv
<1>1. Idle.pc = "idle"
  BY DEF Idle, At
<1> QED
  BY <1>1, InitTInv DEF HInv, Init

LEMMA AdvancesSettles ==
    ASSUME NEW ss, DatabaseAdvances(db, db', ss), ss \subseteq configured,
           \A s \in Sources : db.cursor[s] <= db'.cursor[s]
    PROVE  Settled
BY DEF DatabaseAdvances, Advances, SameTale, Settled

\* A choice of notices changes nothing else.
LEMMA TalesSettle ==
    ASSUME \A b \in Alarms : SameTale(db.alarm[b], db'.alarm[b]),
           \A b \in Alarms : Len(db.alarm[b].incidents) \in Nat,
           \A s \in Sources : db.cursor[s] <= db'.cursor[s],
           UNCHANGED worker
    PROVE  Settled
<1>1. ASSUME NEW a \in Alarms
      PROVE  /\ db'.alarm[a].incidents = db.alarm[a].incidents
             /\ db'.alarm[a].dispatches = db.alarm[a].dispatches
             /\ Len(db.alarm[a].incidents) <= Len(db'.alarm[a].incidents)
  BY DEF SameTale
<1> QED
  BY <1>1 DEF Settled

LEMMA NextHInv == SyncAssumption /\ HInv /\ [Next]_vars => HInv' /\ Settled
<1> SUFFICES ASSUME SyncAssumption, HInv, [Next]_vars PROVE HInv' /\ Settled
  OBVIOUS
<1>0. /\ TInv /\ FInv /\ RInv /\ AInv /\ CycleShaped /\ WorkerShaped
      /\ Shaped(db) /\ Stories(db) /\ History(outbox, emitted)
      /\ worker.pc = "ingest" <=> tx # <<>>
  BY DEF HInv, TInv, FInv, RInv, AInv
<1>t. TInv'
  BY <1>0, NextTInv
<1>a. AInv' /\ (worker'.pc = "ingest" <=> tx' # <<>>)
  BY <1>t DEF TInv, FInv, RInv, AInv
<1>c. \A s \in Sources : db.cursor[s] \in Nat
  BY <1>0 DEF Shaped
<1>u. DatabaseAdvances(db, db, {}) /\ \A s \in Sources : db.cursor[s] <= db.cursor[s]
  BY <1>0, <1>c, SameDatabase
<1>s. worker.pc \in Working => worker.source \in configured /\ worker.source \in Sources
  BY <1>0 DEF CycleShaped
<1>l. Idle.pc = "idle" /\ Picking.pc = "pick"
  BY DEF Idle, Picking, At
<1>1. CASE (\E a \in Alarms : Register(a)) \/ (\E s \in Sources : RestartSource(s)) \/ Tick
           \/ (\E s \in Sources : CatalogFails(s)) \/ UNCHANGED vars
           \/ (\E a \in Alarms, v \in Values, at \in 1 .. clock : Observe(a, v, at))
  <2>1. UNCHANGED <<db, tx, worker>>
    BY <1>1 DEF Register, RestartSource, Tick, CatalogFails, Observe, vars, sourceVars
  <2> QED
    BY <1>t, <1>u, <2>1, AdvancesSettles DEF HInv
<1>2. CASE StartCycle
  <2>1. worker' = Picking /\ db' = Reconciled(db, configured)
    BY <1>2 DEF StartCycle
  <2>2. DatabaseAdvances(db, db', {}) /\ db'.cursor = db.cursor
    BY <1>0, <2>1, ReconciledAdvances, ReconciledKeepsCursors
  <2> QED
    BY <1>t, <1>l, <1>u, <2>1, <2>2, AdvancesSettles DEF HInv
<1>3. ASSUME NEW s \in Sources, SyncCatalog(s) PROVE HInv' /\ Settled
  <2>1. /\ worker' = At("events", s, db.cursor[s], NoPage, FALSE)
        /\ \/ db' = db
           \/ db' = WithCatalog(db, s, CatalogSnapshot(registered \cap OfSource(s), outbox[s]))
    BY <1>3 DEF SyncCatalog
  <2>2. DatabaseAdvances(db, db', {}) /\ db'.cursor = db.cursor
    BY <1>0, <1>u, <2>1, CatalogAdvances, CatalogKeepsCursors
  <2>3. worker'.pc = "events"
    BY <2>1 DEF At
  <2> QED
    BY <1>t, <1>u, <2>2, <2>3, AdvancesSettles DEF HInv
<1>4. CASE FetchEvents
  <2>1. tx' = <<db>> /\ UNCHANGED db
    BY <1>4 DEF FetchEvents
  <2>2. DatabaseAdvances(db', tx'[1], {worker'.source})
    BY <1>0, <2>1, SameDatabase
  <2> QED
    BY <1>t, <1>u, <2>1, <2>2, AdvancesSettles DEF HInv
<1>5. CASE IngestEdge
  <2>1. /\ worker.pc = "ingest" /\ worker.page # NoPage /\ UNCHANGED db
        /\ ~Refuses(tx[1], worker.source, NextId, NextEdge)
        /\ tx' = <<WithEdge(tx[1], worker.source, NextId, NextEdge)>>
        /\ worker' = [worker EXCEPT
                         !.page = [j \in DOMAIN worker.page \ {NextId} |-> worker.page[j]]]
    BY <1>5 DEF IngestEdge
  <2>2. NextId \in DOMAIN worker.page /\ Dated(NextEdge)
    BY <1>0, <2>1, NextOfPage DEF RInv
  <2>3. PICK d, s, i, e : /\ d = tx[1] /\ s = worker.source /\ i = NextId /\ e = NextEdge
                          /\ s \in Sources
    BY <1>s, <2>1 DEF Working
  <2>4. SourceOf[e.alarm] = s
    <3>1. PageOfLog(worker.page, emitted[s])
      BY <1>0, <2>1, <2>3 DEF FInv
    <3>2. e = emitted[s][i] /\ i \in 1 .. Len(emitted[s])
      BY <2>2, <2>3, <3>1 DEF PageOfLog, NextEdge
    <3> QED
      BY <1>0, <2>3, <3>2 DEF History
  <2>5. Shaped(d) /\ Stories(d) /\ Dated(e) /\ ~Refuses(d, s, i, e)
    BY <1>0, <2>1, <2>2, <2>3 DEF RInv, AInv, TransactionAhead
  <2>6. tx'[1] = WithEdge(d, s, i, e)
    BY <2>1, <2>3
  <2>7. DatabaseAdvances(d, tx'[1], {s}) /\ Stories(tx'[1])
    BY <2>4, <2>5, <2>6, EdgeAdvances, EdgeStories
  <2>8. DatabaseAdvances(db, d, {s})
    BY <2>1, <2>3 DEF HInv
  <2>9. DatabaseAdvances(db, tx'[1], {s})
    BY <1>0, <2>5, <2>7, <2>8, ThenDatabase
  <2>10. worker'.source = s
    BY <1>0, <2>1, <2>3 DEF WorkerShaped, At
  <2>11. DatabaseAdvances(db', tx'[1], {worker'.source})
    BY <2>1, <2>9, <2>10
  <2>12. Settled
    BY <1>u, <2>1, AdvancesSettles
  <2> QED
    BY <1>t, <2>11, <2>12 DEF HInv
<1>6. CASE Commit
  <2>1. /\ worker.pc = "ingest" /\ db' = tx[1] /\ tx' = <<>>
    BY <1>6 DEF Commit
  <2>2. worker'.pc # "ingest"
    BY <1>a, <2>1
  <2>3. DatabaseAdvances(db, db', {worker.source}) /\ worker.source \in configured
    BY <1>s, <2>1 DEF HInv, Working
  <2>4. \A s \in Sources : db.cursor[s] <= db'.cursor[s]
    BY <1>0, <2>1 DEF AInv, TransactionAhead
  <2> QED
    BY <1>t, <2>2, <2>3, <2>4, AdvancesSettles DEF HInv
<1>7. CASE Acknowledge \/ AcknowledgeUnheard \/ RequestFails \/ RefuseEdge \/ Restart
  <2>1. UNCHANGED db /\ tx' \in {tx, <<>>} /\ (worker.pc = "ack" \/ tx' = <<>>)
    BY <1>7 DEF Acknowledge, AcknowledgeUnheard, RequestFails, RefuseEdge, GiveUp, Restart
  <2>2. worker'.pc # "ingest"
    BY <1>0, <1>a, <2>1
  <2> QED
    BY <1>t, <1>u, <2>1, <2>2, AdvancesSettles DEF HInv
<1>8. CASE Baselines
  <2>1. worker.pc = "baseline" /\ worker' = Picking /\ db' = WithBaselines(db, worker.source)
    BY <1>8 DEF Baselines
  <2>2. DatabaseAdvances(db, db', {worker.source}) /\ db'.cursor = db.cursor
    BY <1>0, <2>1, BaselinesAdvance, BaselinesKeepCursors
  <2>3. worker.source \in configured
    BY <1>s, <2>1 DEF Working
  <2> QED
    BY <1>t, <1>l, <1>u, <2>1, <2>2, <2>3, AdvancesSettles DEF HInv
<1>9. CASE Deadlines
  <2>1. worker' = Idle /\ db' = WithDeadlines(db, synced, clock)
    BY <1>9 DEF Deadlines
  <2>2. DatabaseAdvances(db, db', synced) /\ db'.cursor = db.cursor
    BY <1>0, <2>1, DeadlinesAdvance, DeadlinesKeepCursors
  <2>3. synced \subseteq configured
    BY <1>0 DEF CycleShaped
  <2> QED
    BY <1>t, <1>l, <1>u, <2>1, <2>2, <2>3, AdvancesSettles DEF HInv
<1>10. ASSUME NEW a \in Alarms, NEW c \in Choices, UpdateSettings(a, c[1], c[2])
       PROVE  HInv' /\ Settled
  <2>1. /\ tx = <<>> /\ UNCHANGED <<tx, worker>>
        /\ db' = [db EXCEPT !.alarm[a].sendStart = c[1], !.alarm[a].sendEnd = c[2]]
    BY <1>10 DEF UpdateSettings
  <2>2. PICK r : r = db.alarm[a] /\ r \in Row
    BY <1>0 DEF Stories, Story
  <2>3. /\ db'.alarm[a] = [r EXCEPT !.sendStart = c[1], !.sendEnd = c[2]]
        /\ \A b \in Alarms \ {a} : db'.alarm[b] = db.alarm[b]
        /\ db'.cursor = db.cursor
    BY <1>0, <2>1, <2>2 DEF Shaped
  <2>4. SameTale(r, db'.alarm[a])
    BY <2>2, <2>3 DEF Row, SameTale
  <2>5. \A b \in Alarms : SameTale(db.alarm[b], db'.alarm[b])
    BY <2>2, <2>3, <2>4 DEF SameTale
  <2>6. \A b \in Alarms : Len(db.alarm[b].incidents) \in Nat
    BY <1>0 DEF Stories, Story, Row
  <2>7. Settled
    BY <1>u, <2>1, <2>3, <2>5, <2>6, TalesSettle
  <2> QED
    BY <1>0, <1>t, <2>1, <2>7 DEF HInv
<1> QED
  BY <1>1, <1>2, <1>3, <1>4, <1>5, <1>6, <1>7, <1>8, <1>9, <1>10 DEF Next, WorkerStep

\* What is settled stays as it was (backend/db.py, ingest_events and
\* _process_due_transitions): no step, the commit of a whole page among them, touches a
\* resolved incident, takes an incident or a notice away, moves a cursor back, or
\* changes an alarm of a source that is not configured; and no cycle changes the
\* operator's choice of notices.
THEOREM HistoryAlwaysFinal == Spec => HistoryIsFinal
<1>1. SyncAssumption
  BY SyncAssumption
<1>2. HInv /\ [Next]_vars => [Settled]_vars
  BY <1>1, NextHInv
<1>3. HInv /\ [Next]_vars => HInv'
  BY <1>1, NextHInv
<1>4. Init => HInv
  BY <1>1, InitHInv
<1> QED
  BY <1>2, <1>3, <1>4, PTL DEF Spec, HistoryIsFinal, Settled
=============================================================================
