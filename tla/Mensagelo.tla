------------------------------ MODULE Mensagelo ------------------------------
(***************************************************************************)
(* The mail service: the HTTP handlers of email_service/app.py, the        *)
(* durable table of db.py, the queue in memory and the only worker thread  *)
(* of queue_worker.py, with the SMTP server as its environment.            *)
(*                                                                         *)
(* A function of db.py runs under _db_lock in one transaction, so it is    *)
(* one step.  The handler stores the row and then puts the key in the      *)
(* queue: two steps, between which the worker may already have taken the   *)
(* row from the table.                                                     *)
(***************************************************************************)
EXTENDS Integers, FiniteSets, Sequences

CONSTANTS
    Keys,      \* idempotency keys the clients use
    Messages,  \* what a client sends: recipients, subject, body and type
    QueueMax,  \* QUEUE_MAXSIZE
    MaxFaults, \* bound on crashes and on failing database calls of the worker
    MaxClock   \* bound on the clock

ASSUME ParametersAssumption ==
    QueueMax \in Nat \ {0} /\ MaxFaults \in Nat /\ MaxClock \in Nat \ {0}

VARIABLES
    up,       \* the service runs
    rows,     \* mensajes_pendientes, by idempotency key
    legacy,   \* its rows made by _migrate_legacy_history, as [message, at]
    history,  \* mensajes_enviados, its rows grouped by message and timestamp
    queue,    \* mail_queue: keys in memory
    putting,  \* keys whose handler has stored the row and not yet put the key
    worker,   \* the thread: where it is, the key it took, whether SMTP agreed
    accepted, \* how often the SMTP server accepted the message of each key
    clock,    \* the UTC clock, in its unit of one second
    faults    \* crashes and failed calls so far

vars == <<up, rows, legacy, history, queue, putting, worker, accepted, clock, faults>>

NoKey == "none"

Row == [message : Messages,
        status  : {"pending", "processing", "sent", "failed"},
        created : 0 .. MaxClock,
        updated : 0 .. MaxClock]

Status(k) == IF k \in DOMAIN rows THEN rows[k].status ELSE "absent"
Active == {k \in DOMAIN rows : rows[k].status \in {"pending", "processing"}}
Pending == {k \in DOMAIN rows : rows[k].status = "pending"}
WorkerDied == up /\ worker.pc = "dead"

At(place, key, ok) == [pc |-> place, key |-> key, ok |-> ok]
Idle == At("get", NoKey, FALSE)
Dead == At("dead", NoKey, FALSE)

\* A row changes its status and its updated_at.
Set(k, s) == [rows EXCEPT ![k].status = s, ![k].updated = clock]

Fault ==
    /\ faults < MaxFaults
    /\ faults' = faults + 1

-----------------------------------------------------------------------------
\* Mutants of the operators and actions below.
HasRoomCountingPending == Cardinality(Pending) < QueueMax

ClaimableStale(k) ==
    /\ k \in DOMAIN rows
    /\ IF worker.key # NoKey
       THEN k = worker.key
       ELSE k \in Pending /\ \A j \in Pending : rows[k].created <= rows[j].created

PutUnbounded(k) ==
    /\ up /\ k \in putting
    /\ putting' = putting \ {k}
    /\ queue' = Append(queue, k)
    /\ UNCHANGED <<up, rows, legacy, history, worker, accepted, clock, faults>>

ReserveRetriesFailed(k, m) ==
    /\ up /\ k \notin putting
    /\ Status(k) \in {"absent", "failed"}
    /\ Cardinality(Active) < QueueMax
    /\ rows' = [j \in DOMAIN rows \cup {k} |->
                  IF j = k
                  THEN [message |-> m, status |-> "pending",
                        created |-> clock, updated |-> clock]
                  ELSE rows[j]]
    /\ putting' = putting \cup {k}
    /\ UNCHANGED <<up, legacy, history, queue, worker, accepted, clock, faults>>

InterruptedRetried ==
    [k \in DOMAIN rows |->
        IF rows[k].status = "processing"
        THEN [rows[k] EXCEPT !.status = "pending", !.updated = clock]
        ELSE rows[k]]

CompleteAlwaysSent(later) ==
    /\ up /\ worker.pc = "complete"
    /\ rows' = Set(worker.key, "sent")
    /\ clock + later <= MaxClock
    /\ clock' = clock + later
    /\ history' = history \cup {[message |-> rows[worker.key].message,
                                 at      |-> clock',
                                 ok      |-> TRUE]}
    /\ worker' = Idle
    /\ UNCHANGED <<up, legacy, queue, putting, accepted, faults>>

PollOnlyQueue ==
    /\ up /\ worker.pc = "get" /\ queue = <<>>
    /\ UNCHANGED vars

-----------------------------------------------------------------------------
(* Start of the service *)

\* A message an older version sent may be in the history without a row.
Init ==
    /\ up = TRUE
    /\ rows = [k \in {} |-> {}]
    /\ legacy = {}
    /\ history \in {{}} \cup {{[message |-> m, at |-> 0, ok |-> TRUE]} : m \in Messages}
    /\ queue = <<>>
    /\ putting = {}
    /\ worker = Idle
    /\ accepted = [k \in Keys |-> 0]
    /\ clock = 1
    /\ faults = 0

\* _migrate_legacy_history: a group of the history without a row of the same
\* message and time becomes a row of its own.
Migrated ==
    legacy \cup {[message |-> h.message, at |-> h.at] :
                   h \in {g \in history :
                            \A k \in DOMAIN rows :
                                rows[k].message # g.message \/ rows[k].updated # g.at}}

\* A message under way when the service stopped is never sent again.
Interrupted ==
    [k \in DOMAIN rows |->
        IF rows[k].status = "processing"
        THEN [rows[k] EXCEPT !.status = "failed", !.updated = clock]
        ELSE rows[k]]

\* init_db in one transaction, then a new queue and a new worker.
Start ==
    /\ ~up
    /\ up' = TRUE
    /\ legacy' = Migrated
    /\ rows' = Interrupted
    /\ worker' = Idle
    /\ UNCHANGED <<history, queue, putting, accepted, clock, faults>>

\* The process ends, wherever its threads are.
Crash ==
    /\ up /\ Fault
    /\ up' = FALSE
    /\ queue' = <<>>
    /\ putting' = {}
    /\ worker' = Dead
    /\ UNCHANGED <<rows, legacy, history, accepted, clock>>

-----------------------------------------------------------------------------
(* POST /send_async *)

HasRoom == Cardinality(Active) < QueueMax

\* reserve_message when the key is new.  A key in use is answered from its row
\* (202, or 409 for another message or a failed one) and changes nothing; a
\* full table is answered 503.
Reserve(k, m) ==
    /\ up
    /\ Status(k) = "absent"
    /\ HasRoom
    /\ rows' = [j \in DOMAIN rows \cup {k} |->
                  IF j = k
                  THEN [message |-> m, status |-> "pending",
                        created |-> clock, updated |-> clock]
                  ELSE rows[j]]
    /\ putting' = putting \cup {k}
    /\ UNCHANGED <<up, legacy, history, queue, worker, accepted, clock, faults>>

\* put_nowait, then 202.  A full queue is not an error.
Put(k) ==
    /\ up /\ k \in putting
    /\ putting' = putting \ {k}
    /\ queue' = IF Len(queue) < QueueMax THEN Append(queue, k) ELSE queue
    /\ UNCHANGED <<up, rows, legacy, history, worker, accepted, clock, faults>>

-----------------------------------------------------------------------------
(* The worker *)

GetKey ==
    /\ up /\ worker.pc = "get" /\ queue # <<>>
    /\ worker' = At("claim", Head(queue), FALSE)
    /\ queue' = Tail(queue)
    /\ UNCHANGED <<up, rows, legacy, history, putting, accepted, clock, faults>>

\* Five seconds without a key, and the table holds a pending row.
Poll ==
    /\ up /\ worker.pc = "get" /\ queue = <<>>
    /\ Pending # {}
    /\ worker' = At("claim", NoKey, FALSE)
    /\ UNCHANGED <<up, rows, legacy, history, queue, putting, accepted, clock, faults>>

\* has_pending_message raises inside the handler of queue.Empty, outside the
\* try: the thread ends.
PollFails ==
    /\ up /\ worker.pc = "get" /\ queue = <<>>
    /\ Fault
    /\ worker' = Dead
    /\ UNCHANGED <<up, rows, legacy, history, queue, putting, accepted, clock>>

\* The row claim_message selects: that of the key, or an oldest pending one.
Claimable(k) ==
    /\ k \in Pending
    /\ IF worker.key # NoKey
       THEN k = worker.key
       ELSE \A j \in Pending : rows[k].created <= rows[j].created

Claim(k) ==
    /\ up /\ worker.pc = "claim"
    /\ Claimable(k)
    /\ rows' = Set(k, "processing")
    /\ worker' = At("deliver", k, FALSE)
    /\ UNCHANGED <<up, legacy, history, queue, putting, accepted, clock, faults>>

\* The key is stale: its row was taken from the table before.
ClaimNothing ==
    /\ up /\ worker.pc = "claim"
    /\ \A k \in Pending : ~Claimable(k)
    /\ worker' = Idle
    /\ UNCHANGED <<up, rows, legacy, history, queue, putting, accepted, clock, faults>>

\* A failing claim drops the key from the queue and leaves the row pending.
ClaimFails ==
    /\ up /\ worker.pc = "claim"
    /\ Fault
    /\ worker' = Idle
    /\ UNCHANGED <<up, rows, legacy, history, queue, putting, accepted, clock>>

\* send_email: the server takes the message and the client hears it or not.
SmtpAccepts ==
    /\ up /\ worker.pc = "deliver"
    /\ accepted' = [accepted EXCEPT ![worker.key] = @ + 1]
    /\ \E heard \in BOOLEAN : worker' = At("complete", worker.key, heard)
    /\ UNCHANGED <<up, rows, legacy, history, queue, putting, clock, faults>>

SmtpRefuses ==
    /\ up /\ worker.pc = "deliver"
    /\ worker' = At("complete", worker.key, FALSE)
    /\ UNCHANGED <<up, rows, legacy, history, queue, putting, accepted, clock, faults>>

\* complete_message reads the clock twice; "later" is what passes in between.
Complete(later) ==
    /\ up /\ worker.pc = "complete"
    /\ rows' = Set(worker.key, IF worker.ok THEN "sent" ELSE "failed")
    /\ clock + later <= MaxClock
    /\ clock' = clock + later
    /\ history' = history \cup {[message |-> rows[worker.key].message,
                                 at      |-> clock',
                                 ok      |-> worker.ok]}
    /\ worker' = Idle
    /\ UNCHANGED <<up, legacy, queue, putting, accepted, faults>>

\* The row stays processing until the next start.
CompleteFails ==
    /\ up /\ worker.pc = "complete"
    /\ Fault
    /\ worker' = Idle
    /\ UNCHANGED <<up, rows, legacy, history, queue, putting, accepted, clock>>

Tick ==
    /\ clock < MaxClock
    /\ clock' = clock + 1
    /\ UNCHANGED <<up, rows, legacy, history, queue, putting, worker, accepted, faults>>

WorkerStep ==
    \/ GetKey
    \/ Poll
    \/ \E k \in Keys : Claim(k)
    \/ ClaimNothing
    \/ SmtpAccepts
    \/ SmtpRefuses
    \/ Complete(0)
    \/ Complete(1)

Next ==
    \/ \E k \in Keys, m \in Messages : Reserve(k, m)
    \/ \E k \in Keys : Put(k)
    \/ WorkerStep
    \/ PollFails
    \/ ClaimFails
    \/ CompleteFails
    \/ Start
    \/ Crash
    \/ Tick

Spec == Init /\ [][Next]_vars

\* A thread that can go on goes on, the SMTP client has a timeout, a handler
\* ends, and Docker restarts a service that stopped.
FairSpec ==
    /\ Spec
    /\ WF_vars(WorkerStep)
    /\ WF_vars(Start)
    /\ \A k \in Keys : WF_vars(Put(k))

-----------------------------------------------------------------------------
(* Properties *)

\* Every variable holds a value of its kind; in particular the queue in memory
\* never exceeds its maximum.
TypeOK ==
    /\ up \in BOOLEAN
    /\ DOMAIN rows \subseteq Keys
    /\ \A k \in DOMAIN rows : rows[k] \in Row
    /\ legacy \subseteq [message : Messages, at : 0 .. MaxClock]
    /\ history \subseteq [message : Messages, at : 0 .. MaxClock, ok : BOOLEAN]
    /\ queue \in Seq(Keys) /\ Len(queue) <= QueueMax
    /\ putting \subseteq Keys
    /\ worker \in [pc  : {"get", "claim", "deliver", "complete", "dead"},
                   key : Keys \cup {NoKey},
                   ok  : BOOLEAN]
    /\ accepted \in [Keys -> Nat]
    /\ clock \in 0 .. MaxClock
    /\ faults \in 0 .. MaxFaults

\* A message reaches the SMTP server at most once, with a stale key in the
\* queue, a crash at any point or a confirmation that failed.
AtMostOnce == \A k \in Keys : accepted[k] <= 1

\* Only what the server accepted is shown as sent, and nothing accepted goes
\* back to wait for its turn.
StatusIsHonest ==
    \A k \in Keys :
        /\ Status(k) = "sent" => accepted[k] = 1
        /\ Status(k) \in {"absent", "pending"} => accepted[k] = 0

\* The table never holds more unfinished messages than QUEUE_MAXSIZE, counting
\* those a failed confirmation left in processing.
CapacityHolds == Cardinality(Active) <= QueueMax

\* The worker delivers what it claimed and nothing else: while it is between a
\* claim and a confirmation the row is processing and says whose it is.
WorkerOwnsItsRow ==
    worker.pc \in {"deliver", "complete"} =>
        /\ Status(worker.key) = "processing"
        /\ worker.pc = "deliver" => accepted[worker.key] = 0
        /\ worker.ok => accepted[worker.key] = 1

\* The service implements the ledger its clients rely on.
Ledger == INSTANCE MailLedger WITH
    bound     <- [k \in DOMAIN rows |-> rows[k].message],
    status    <- [k \in Keys |-> Status(k)],
    delivered <- {k \in Keys : accepted[k] > 0}

ImplementsLedger == Ledger!Spec

\* "La fila durable queda pending y el worker la toma desde SQLite": a pending
\* message is claimed, whether or not its key is still in memory, unless the
\* worker's thread has ended.
EventuallyClaimed ==
    \A k \in Keys :
        Status(k) = "pending" ~> (Status(k) # "pending" \/ WorkerDied)

\* The comment without that condition (app.py:79).
PendingIsTaken == \A k \in Keys : Status(k) = "pending" ~> Status(k) # "pending"

\* "sin duplicar los actuales" (db.py:86): only messages older than the table
\* get a row of their own when the service starts.
OnlyOldHistoryMigrates == \A l \in legacy : l.at = 0
=============================================================================
