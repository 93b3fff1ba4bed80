---------------------------- MODULE AlarmDispatch ----------------------------
(***************************************************************************)
(* The notices of Alarmero and the mail service that sends them: the table *)
(* dispatches and the flag "notified" of backend/db.py, the last part of a *)
(* synchronization cycle (_dispatch_pending, _sync_dispatch_results), and  *)
(* Mensagelo as the ledger of keys that Mensagelo.tla implements.          *)
(*                                                                         *)
(* Alarmero decides that an incident deserves a notice in Alarmero.tla;    *)
(* here a notice is queued at any time the thread is not sending.          *)
(***************************************************************************)
EXTENDS Naturals, FiniteSets

CONSTANTS
    Incidents,    \* incidents that may deserve a notice
    Rank,         \* the place of each notice in the order of the identifiers
    PendingLimit, \* rows pending_dispatches returns at most, 100 in the code
    ReportLimit,  \* messages Alarmero asks Mensagelo for, 5000 in the code
    MaxFaults,    \* bound on requests refused, replies lost and restarts
    MaxClock      \* bound on the clock

\* dispatch_id: "{incident}:{phase}", which is also the idempotency key.
Notice == Incidents \X {"start", "end"}

ASSUME DispatchAssumption ==
    /\ Rank \in [Notice -> Nat]
    /\ \A d, e \in Notice : Rank[d] = Rank[e] => d = e
    /\ PendingLimit \in Nat \ {0} /\ ReportLimit \in Nat \ {0}
    /\ MaxFaults \in Nat /\ MaxClock \in Nat

VARIABLES
    dispatches, \* rows of the table: status, whether accepted_at is set, created_at
    notified,   \* incidents whose flag "notified" is 1
    thread,     \* the thread: where it is
    toSend,     \* rows that pending_dispatches returned, not yet tried
    results,    \* the reply of GET /internal/dispatches being ingested
    bound, status, delivered, \* Mensagelo
    taken,      \* created_at of its messages
    alive,      \* its worker thread runs
    stranded,   \* messages whose completion failed, in processing till a restart
    clock,      \* the clock of both, in seconds
    faults      \* what has gone wrong so far

alarmeroVars == <<dispatches, notified, thread, toSend, results>>
ledgerVars == <<bound, status, delivered, taken>>
mailVars == <<bound, status, delivered, taken, alive, stranded>>
vars == <<dispatches, notified, thread, toSend, results, bound, status, delivered,
          taken, alive, stranded, clock, faults>>

Ledger == INSTANCE MailLedger WITH Keys <- Notice, Messages <- {"alarm_event"}

Fault ==
    /\ faults < MaxFaults
    /\ faults' = faults + 1

\* Both listings go by date, and by identifier within a second.
Earlier(date, d, e) ==
    \/ date[d] < date[e]
    \/ date[d] = date[e] /\ Rank[d] < Rank[e]

\* pending_dispatches: the oldest ones.
Waiting ==
    LET rows == {d \in DOMAIN dispatches :
                   dispatches[d].status = "pending" /\ ~dispatches[d].accepted}
        date == [d \in rows |-> dispatches[d].created]
    IN  {d \in rows : Cardinality({e \in rows : Earlier(date, e, d)}) < PendingLimit}

\* list_dispatches: the newest messages Mensagelo holds.
Listed ==
    LET held == {d \in Notice : status[d] # "absent"}
    IN  {d \in held : Cardinality({e \in held : Earlier(taken, d, e)}) < ReportLimit}

\* Their statuses.
Report == [d \in Listed |-> status[d]]

\* reserve_message answers 202 for a new key and for any that has not failed.
Takes(d) ==
    /\ IF status[d] = "absent"
       THEN /\ Ledger!Accept(d, "alarm_event")
            /\ taken' = [taken EXCEPT ![d] = clock]
       ELSE status[d] # "failed" /\ UNCHANGED ledgerVars
    /\ UNCHANGED <<alive, stranded>>

-----------------------------------------------------------------------------
\* Mutants of the operators and actions below.
PostAcceptedAsSent(d) ==
    /\ thread = "sending" /\ d \in toSend
    /\ Takes(d)
    /\ toSend' = toSend \ {d}
    /\ dispatches' = [dispatches EXCEPT ![d].status = "sent"]
    /\ notified' = IF d[2] = "start" THEN notified \cup {d[1]} ELSE notified
    /\ UNCHANGED <<thread, results, clock, faults>>

PostFailsAccepted(d) ==
    /\ thread = "sending" /\ d \in toSend
    /\ Fault
    /\ toSend' = toSend \ {d}
    /\ dispatches' = [dispatches EXCEPT ![d].accepted = TRUE]
    /\ notified' = IF d[2] = "start" THEN notified \cup {d[1]} ELSE notified
    /\ UNCHANGED <<thread, results, mailVars, clock>>

IngestOnlyAccepted ==
    /\ thread = "ingesting"
    /\ dispatches' = [d \in DOMAIN dispatches |->
                        IF d \in DOMAIN results /\ dispatches[d].accepted
                        THEN [dispatches[d] EXCEPT !.status = results[d]]
                        ELSE dispatches[d]]
    /\ thread' = "idle"
    /\ results' = [d \in {} |-> "absent"]
    /\ UNCHANGED <<notified, toSend, mailVars, clock, faults>>

-----------------------------------------------------------------------------
Init ==
    /\ dispatches = [d \in {} |-> {}]
    /\ notified = {}
    /\ thread = "idle"
    /\ toSend = {}
    /\ results = [d \in {} |-> "absent"]
    /\ Ledger!Init
    /\ taken = [d \in Notice |-> 0]
    /\ alive = TRUE
    /\ stranded = {}
    /\ clock = 0
    /\ faults = 0

\* _queue_dispatch: INSERT OR IGNORE.
QueueNotice(d) ==
    /\ thread = "idle"
    /\ d \notin DOMAIN dispatches
    /\ dispatches' = [k \in DOMAIN dispatches \cup {d} |->
                        IF k = d
                        THEN [status |-> "pending", accepted |-> FALSE, created |-> clock]
                        ELSE dispatches[k]]
    /\ UNCHANGED <<notified, thread, toSend, results, mailVars, clock, faults>>

StartSending ==
    /\ thread = "idle"
    /\ thread' = "sending"
    /\ toSend' = Waiting
    /\ UNCHANGED <<dispatches, notified, results, mailVars, clock, faults>>

\* POST /send_async answered 202, then mark_dispatch_accepted.
PostAccepted(d) ==
    /\ thread = "sending" /\ d \in toSend
    /\ Takes(d)
    /\ toSend' = toSend \ {d}
    /\ dispatches' = [dispatches EXCEPT ![d].accepted = TRUE]
    /\ notified' = IF d[2] = "start" THEN notified \cup {d[1]} ELSE notified
    /\ UNCHANGED <<thread, results, clock, faults>>

\* Mensagelo takes the message and Alarmero does not hear of it: the reply is
\* lost, or the process dies before it writes (then Restart follows).
PostUnheard(d) ==
    /\ thread = "sending" /\ d \in toSend
    /\ Takes(d)
    /\ Fault
    /\ toSend' = toSend \ {d}
    /\ UNCHANGED <<dispatches, notified, thread, results, clock>>

\* Mensagelo is full or away; mark_dispatch_error writes only a text.
PostFails(d) ==
    /\ thread = "sending" /\ d \in toSend
    /\ Fault
    /\ toSend' = toSend \ {d}
    /\ UNCHANGED <<dispatches, notified, thread, results, mailVars, clock>>

\* 409: the key ended in failure before Alarmero knew it was taken.
PostConflicts(d) ==
    /\ thread = "sending" /\ d \in toSend
    /\ status[d] = "failed"
    /\ toSend' = toSend \ {d}
    /\ UNCHANGED <<dispatches, notified, thread, results, mailVars, clock, faults>>

FetchResults ==
    /\ thread = "sending" /\ toSend = {}
    /\ results' = Report
    /\ thread' = "ingesting"
    /\ UNCHANGED <<dispatches, notified, toSend, mailVars, clock, faults>>

ResultsFail ==
    /\ thread = "sending" /\ toSend = {}
    /\ Fault
    /\ thread' = "idle"
    /\ UNCHANGED <<dispatches, notified, toSend, results, mailVars, clock>>

\* ingest_dispatches takes the status of every notice it knows.
IngestResults ==
    /\ thread = "ingesting"
    /\ dispatches' = [d \in DOMAIN dispatches |->
                        IF d \in DOMAIN results
                        THEN [dispatches[d] EXCEPT !.status = results[d]]
                        ELSE dispatches[d]]
    /\ thread' = "idle"
    /\ results' = [d \in {} |-> "absent"]
    /\ UNCHANGED <<notified, toSend, mailVars, clock, faults>>

\* Alarmero dies and is started again.
Restart ==
    /\ Fault
    /\ thread' = "idle"
    /\ toSend' = {}
    /\ results' = [d \in {} |-> "absent"]
    /\ UNCHANGED <<dispatches, notified, mailVars, clock>>

\* Mensagelo goes on by itself while its worker thread lives.
MailStep ==
    /\ alive
    /\ \/ \E d \in Notice : Ledger!Claim(d)
       \/ \E d \in Notice : Ledger!Deliver(d)
       \/ \E d \in Notice \ stranded : Ledger!Finish(d)
    /\ UNCHANGED <<alarmeroVars, taken, alive, stranded, clock, faults>>

\* complete_message fails: the worker goes on, the row stays in processing.
CompletionFails(d) ==
    /\ alive /\ status[d] = "processing" /\ d \notin stranded
    /\ Fault
    /\ stranded' = stranded \cup {d}
    /\ UNCHANGED <<alarmeroVars, ledgerVars, alive, clock>>

\* An error of the database while the worker, with nothing to send, looks for
\* pending rows ends its thread.
WorkerDies ==
    /\ alive /\ \A d \in Notice : status[d] = "processing" => d \in stranded
    /\ Fault
    /\ alive' = FALSE
    /\ UNCHANGED <<alarmeroVars, ledgerVars, stranded, clock>>

MailRestart ==
    /\ Fault
    /\ Ledger!GiveUp
    /\ alive' = TRUE
    /\ stranded' = {}
    /\ UNCHANGED <<alarmeroVars, taken, clock>>

Tick ==
    /\ clock < MaxClock
    /\ clock' = clock + 1
    /\ UNCHANGED <<alarmeroVars, mailVars, faults>>

ThreadStep ==
    \/ StartSending
    \/ \E d \in Notice : PostAccepted(d)
    \/ \E d \in Notice : PostConflicts(d)
    \/ FetchResults
    \/ IngestResults

Next ==
    \/ \E d \in Notice : QueueNotice(d)
    \/ ThreadStep
    \/ \E d \in Notice : PostUnheard(d)
    \/ \E d \in Notice : PostFails(d)
    \/ ResultsFail
    \/ Restart
    \/ MailStep
    \/ \E d \in Notice : CompletionFails(d)
    \/ WorkerDies
    \/ MailRestart
    \/ Tick

Spec == Init /\ [][Next]_vars

\* The thread goes on polling, and the worker of Mensagelo goes on with what it
\* holds while it lives, as EventuallyClaimed says of Mensagelo.
FairSpec ==
    /\ Spec
    /\ WF_vars(ThreadStep)
    /\ WF_vars(MailStep)

-----------------------------------------------------------------------------
(* Properties *)

\* Every variable holds a value of its kind.
TypeOK ==
    /\ DOMAIN dispatches \subseteq Notice
    /\ \A d \in DOMAIN dispatches :
           dispatches[d] \in [status   : {"pending", "processing", "sent", "failed"},
                              accepted : BOOLEAN,
                              created  : 0 .. MaxClock]
    /\ notified \subseteq Incidents
    /\ thread \in {"idle", "sending", "ingesting"}
    /\ toSend \subseteq DOMAIN dispatches
    /\ thread # "sending" => toSend = {}
    /\ DOMAIN results \subseteq Notice
    /\ taken \in [Notice -> 0 .. MaxClock]
    /\ alive \in BOOLEAN
    /\ stranded \subseteq Notice
    /\ clock \in 0 .. MaxClock
    /\ faults \in 0 .. MaxFaults

\* Nobody is said to have been notified of what Mensagelo does not hold, and a
\* notice shown as sent reached the SMTP server.
NoticeIsReal ==
    /\ \A i \in notified : status[<<i, "start">>] # "absent"
    /\ \A d \in DOMAIN dispatches :
           /\ dispatches[d].accepted => status[d] # "absent"
           /\ dispatches[d].status = "sent" => d \in delivered

\* How far a status has come.
Progress == [absent |-> 0, pending |-> 0, processing |-> 1, sent |-> 2, failed |-> 2]

\* The status shown never runs ahead of Mensagelo, whose reply may be old when
\* it is ingested, and the end it shows is Mensagelo's.
ShownTrailsLedger ==
    \A d \in DOMAIN dispatches :
        /\ Progress[dispatches[d].status] <= Progress[status[d]]
        /\ dispatches[d].status \in {"sent", "failed"} => dispatches[d].status = status[d]

Settled(d) == d \in DOMAIN dispatches /\ dispatches[d].status \in {"sent", "failed"}

\* Mensagelo took the notice, and more than it reports have been taken since.
Overtaken(d) == status[d] # "absent" /\ d \notin Listed

\* The listing of pending rows is full of such ones whose key failed: they are
\* refused in every cycle and nothing tells Alarmero of their end.
Blocked ==
    \E rows \in SUBSET DOMAIN dispatches :
        /\ Cardinality(rows) >= PendingLimit
        /\ \A d \in rows : Overtaken(d) /\ status[d] = "failed" /\ ~Settled(d)

\* A message that was taken without an answer is asked about, not sent again:
\* every notice ends sent or failed, also when replies were lost, if from some
\* time on the worker of Mensagelo lives and no completion is left behind, and
\* unless the limits of the two listings hide it.
EveryNoticeSettles ==
    <>[](alive /\ stranded = {})
        => \A d \in Notice :
               d \in DOMAIN dispatches ~> (Settled(d) \/ Overtaken(d) \/ Blocked)
=============================================================================
