----------------------------- MODULE FlowMeter ------------------------------
(***************************************************************************)
(* i20api-service: the history of the flow meters is downloaded from GWF   *)
(* once a day, by a scheduler that retries twice, and whenever an operator *)
(* asks, by a thread of its own.  The calendar of the day is stored before *)
(* anything is asked, and what came is stored only when all of it came.    *)
(*                                                                         *)
(* GWF (external) has records that are numbered in the order it got them;  *)
(* those below a bound that grows are older than what is retained.  The    *)
(* day has a few hours: at hour 0 the daily time has not come.             *)
(***************************************************************************)
EXTENDS Integers, FiniteSets, Sequences

CONSTANTS
    RetryHours,   \* the wait before each retry
    LastHour,     \* bound: hours of a day
    MaxRecords,   \* bound: records of GWF
    MaxRequests,  \* bound: requests of the operator
    MaxFaults     \* bound: pages that do not come, writes that fail, restarts

VARIABLES
    hour,         \* of the day
    source,       \* how many records GWF has got, the last one being the newest
    expired,      \* how many of them are no longer retained
    cycle,        \* stored: the calendar of the day
    lastAttempt,  \* stored: outcome of the last attempt
    catalogue,    \* stored: is there a catalogue of locations?
    measurements, \* stored records
    busy, manual, \* the manager: is it downloading? manual_pending and its thread
    scheduler,    \* is the scheduler's thread alive?
    run,          \* the download in progress
    downloads,    \* history: automatic downloads begun this day
    changes, faults

clockVars == <<hour, source, expired>>
flowStored == <<cycle, lastAttempt, catalogue, measurements>>
flowVars == <<clockVars, flowStored, busy, manual, scheduler, run, downloads>>
vars == <<flowVars, changes, faults>>

NewCycle == [state |-> "waiting", attempts |-> 0, retryAt |-> 0]
Past == [NewCycle EXCEPT !.state = "past"] \* the calendar of another day
NoRun == [at |-> "none", by |-> "automatic", cycle |-> Past, wanted |-> {},
          fetched |-> {}, outcome |-> "running"]

Init ==
    /\ hour = 0
    /\ source = 1 /\ expired = 0
    /\ cycle = Past /\ lastAttempt = "none" /\ catalogue = FALSE
    /\ measurements = {}
    /\ busy = FALSE /\ manual = "none" /\ scheduler = TRUE
    /\ run = NoRun
    /\ downloads = 0
    /\ changes = 0 /\ faults = 0

Fail == faults < MaxFaults /\ faults' = faults + 1

Prune(records) == {m \in records : m > expired}

\* The calendar of today: a stored one of another day counts for nothing.
TodaysCycle == IF cycle = Past THEN NewCycle ELSE cycle

\* When the next automatic attempt is due, as an hour of today; never again
\* today when it is complete or suspended.
Due(c) ==
    /\ c.state \notin {"complete", "suspended"}
    /\ hour >= IF c.retryAt # 0 THEN c.retryAt ELSE 1

TickDue ==
    /\ scheduler /\ run.at = "none" /\ ~busy /\ manual = "none"
    /\ (cycle = Past \/ Due(TodaysCycle))

-----------------------------------------------------------------------------
(* The clock, GWF and the reading of the status.                           *)

\* The scheduler looks every ten seconds: an hour does not pass before it does.
Hour ==
    /\ hour < LastHour /\ hour' = hour + 1
    /\ ~TickDue
    /\ UNCHANGED <<source, expired, flowStored, busy, manual, scheduler, run,
                   downloads, changes, faults>>

\* What is stored for the day, now or when a download ends, is of the day before.
Midnight ==
    /\ hour = LastHour /\ ~TickDue
    /\ hour' = 0 /\ downloads' = 0
    /\ cycle' = Past /\ run' = [run EXCEPT !.cycle = Past]
    /\ expired' \in expired .. source
    /\ UNCHANGED <<source, lastAttempt, catalogue, measurements, busy, manual,
                   scheduler, changes, faults>>

Measure ==
    /\ source < MaxRecords /\ source' = source + 1
    /\ UNCHANGED <<hour, expired, flowStored, busy, manual, scheduler, run,
                   downloads, changes, faults>>

\* Asking for the status stores the calendar of a new day, and so does not wait
\* for a download that began the day before.
Status ==
    /\ cycle # TodaysCycle
    /\ cycle' = TodaysCycle
    /\ UNCHANGED <<clockVars, lastAttempt, catalogue, measurements, busy, manual,
                   scheduler, run, downloads, changes, faults>>

-----------------------------------------------------------------------------
(* The beginning of a download, under the lock.                            *)

\* An attempt is counted, and the next one dated, before it is made.
Counted(c) ==
    LET n == c.attempts + 1 IN
    IF n <= Len(RetryHours)
    THEN [c EXCEPT !.attempts = n, !.state = "retrying", !.retryAt = hour + RetryHours[n]]
    ELSE [c EXCEPT !.attempts = n, !.state = "suspended", !.retryAt = 0]

Begin(by, c) ==
    /\ busy' = TRUE
    /\ lastAttempt' = "running"
    /\ run' = [NoRun EXCEPT !.at = "locations", !.by = by, !.cycle = c,
                            !.wanted = (expired + 1) .. source]

\* The scheduler also prunes at each of its turns.
Tick ==
    /\ scheduler /\ (run.at = "none" \/ run.by = "manual")
    /\ measurements' = Prune(measurements)
    /\ IF busy \/ manual # "none"
       THEN UNCHANGED <<cycle, lastAttempt, busy, run, downloads>>
       ELSE IF Due(TodaysCycle)
            THEN /\ cycle' = Counted(TodaysCycle)
                 /\ downloads' = downloads + 1
                 /\ Begin("automatic", cycle')
            ELSE /\ cycle' = TodaysCycle
                 /\ UNCHANGED <<lastAttempt, busy, run, downloads>>
    /\ UNCHANGED <<clockVars, catalogue, manual, scheduler, changes, faults>>

RequestManual ==
    /\ changes < MaxRequests /\ changes' = changes + 1
    /\ ~busy /\ manual # "waiting"
    /\ manual' = "waiting"
    /\ UNCHANGED <<clockVars, flowStored, busy, scheduler, run, downloads, faults>>

\* The operator's thread: the calendar stays as it is.
RunManual ==
    /\ manual = "waiting" /\ ~busy
    /\ manual' = "none"
    /\ cycle' = TodaysCycle
    /\ Begin("manual", cycle')
    /\ UNCHANGED <<clockVars, catalogue, measurements, scheduler, downloads, changes, faults>>

-----------------------------------------------------------------------------
(* The download.                                                           *)

Outcome(outcome) == run' = [run EXCEPT !.at = "finish", !.outcome = outcome]

\* Records that came to GWF after the download began.
Late == {m \in (expired + 1) .. source : \A w \in run.wanted : m > w}

\* An answer of GWF, after one renewal of the token at most, or an error.  Without
\* locations there is nothing to ask the records of.
Query ==
    /\ run.at \in {"locations", "pages"}
    /\ \/ Fail /\ Outcome("error") /\ UNCHANGED <<catalogue, measurements>>
       \/ /\ run.at = "locations"
          /\ measurements' = Prune(measurements)
          /\ catalogue' = TRUE
          /\ \/ run' = [run EXCEPT !.at = "pages"] /\ UNCHANGED faults
             \/ Fail /\ run' = [run EXCEPT !.at = "save"]
       \/ /\ run.at = "pages"
          /\ \E page \in {{m} : m \in run.wanted \cup Late} \cup {{}} :
               /\ page = {} => run.wanted \subseteq run.fetched
               /\ run' = [run EXCEPT !.fetched = @ \cup page,
                                     !.at = IF run.wanted \subseteq run.fetched \cup page
                                            THEN "save" ELSE "pages"]
          /\ UNCHANGED <<catalogue, measurements, faults>>
    /\ UNCHANGED <<clockVars, cycle, lastAttempt, busy, manual, scheduler, downloads,
                   changes>>

\* Records that were stored already are no news.
Save ==
    /\ run.at = "save"
    /\ \/ /\ measurements' = Prune(measurements \cup run.fetched)
          /\ Outcome(IF Prune(run.fetched) \subseteq Prune(measurements)
                     THEN "no_new_data" ELSE "new_data")
          /\ UNCHANGED faults
       \/ \* the write of last_success_at fails after the records are stored
          /\ Fail /\ Outcome("error")
          /\ measurements' \in {measurements, Prune(measurements \cup run.fetched)}
    /\ UNCHANGED <<clockVars, cycle, lastAttempt, catalogue, busy, manual, scheduler,
                   downloads, changes>>

\* A mutant of Settled: a download without news is not counted.
SettledUncounted ==
    IF run.by = "manual" THEN cycle
    ELSE IF run.outcome = "new_data" /\ run.cycle # Past
         THEN [run.cycle EXCEPT !.state = "complete", !.retryAt = 0] ELSE NewCycle

\* The calendar that was current at the beginning is stored again, completed by
\* new data.
Settled ==
    IF run.by = "manual" THEN cycle
    ELSE IF run.outcome = "new_data" /\ run.cycle # Past
         THEN [run.cycle EXCEPT !.state = "complete", !.retryAt = 0] ELSE run.cycle

Finish ==
    /\ run.at = "finish"
    /\ lastAttempt' = run.outcome
    /\ cycle' = Settled
    /\ busy' = FALSE
    /\ run' = NoRun
    /\ UNCHANGED <<clockVars, catalogue, measurements, manual, scheduler, downloads,
                   changes, faults>>

\* A write that fails in the finally block leaves the manager busy and ends its
\* thread, which may be the scheduler's.
FinishFails ==
    /\ run.at = "finish" /\ Fail
    /\ \/ UNCHANGED lastAttempt
       \/ run.by = "automatic" /\ lastAttempt' = run.outcome
    /\ scheduler' = (scheduler /\ run.by = "manual")
    /\ run' = NoRun
    /\ UNCHANGED <<clockVars, cycle, catalogue, measurements, busy, manual, downloads,
                   changes>>

\* So does one that fails between busy and the download; before busy it ends the
\* scheduler alone, or the operator's thread, which leaves its request pending.
BeginFails ==
    /\ ~busy /\ run.at = "none" /\ Fail
    /\ \/ /\ scheduler /\ scheduler' = FALSE
          /\ UNCHANGED <<cycle, busy, manual>>
       \/ /\ scheduler /\ manual = "none" /\ Due(TodaysCycle)
          /\ cycle' \in {TodaysCycle, Counted(TodaysCycle)}
          /\ busy' = TRUE /\ scheduler' = FALSE
          /\ UNCHANGED manual
       \/ /\ manual = "waiting" /\ manual' = "dead"
          /\ UNCHANGED <<cycle, busy, scheduler>>
       \/ /\ manual = "waiting" /\ manual' = "none"
          /\ cycle' = TodaysCycle /\ busy' = TRUE
          /\ UNCHANGED scheduler
    /\ UNCHANGED <<clockVars, lastAttempt, catalogue, measurements, run, downloads, changes>>

\* A new process: what was running was interrupted, and counts.
Restart ==
    /\ Fail
    /\ lastAttempt' = IF lastAttempt = "running" THEN "error" ELSE lastAttempt
    /\ busy' = FALSE /\ manual' = "none" /\ scheduler' = TRUE
    /\ run' = NoRun
    /\ UNCHANGED <<clockVars, cycle, catalogue, measurements, downloads, changes>>

-----------------------------------------------------------------------------
Step == Tick \/ RunManual \/ Query \/ Save \/ Finish

Clock == Hour \/ Midnight

Environment == Measure \/ Status \/ RequestManual \/ FinishFails \/ BeginFails \/ Restart

Next == Step \/ Clock \/ Environment

Spec == Init /\ [][Next]_vars

-----------------------------------------------------------------------------
Cycle == [state : {"past", "waiting", "retrying", "suspended", "complete"},
          attempts : 0 .. Len(RetryHours) + 1, retryAt : Nat]
Outcomes == {"running", "error", "new_data", "no_new_data"}

TypeOK ==
    /\ hour \in 0 .. LastHour
    /\ source \in 0 .. MaxRecords /\ expired \in 0 .. source
    /\ cycle \in Cycle /\ lastAttempt \in Outcomes \cup {"none"}
    /\ catalogue \in BOOLEAN
    /\ measurements \subseteq 1 .. source
    /\ busy \in BOOLEAN /\ manual \in {"none", "waiting", "dead"} /\ scheduler \in BOOLEAN
    /\ run \in [at : {"none", "locations", "pages", "save", "finish"},
                by : {"automatic", "manual"}, cycle : Cycle,
                wanted : SUBSET (1 .. source), fetched : SUBSET (1 .. source),
                outcome : Outcomes]
    /\ downloads \in Nat

\* sync.py, _cycle: a day has one automatic download and its retries, however often
\* the service is restarted or the day passes during a download.
AttemptsAreLimited == downloads <= Len(RetryHours) + 1

\* The day is complete when every record GWF had at the beginning of the download,
\* and that still has to be kept, is stored.
DayIsStored ==
    cycle.state # "complete" /\ cycle'.state = "complete" =>
        \A m \in run.wanted : m > expired => m \in measurements

\* A write that failed at one end of a download left the manager busy, or the
\* operator's request pending, for good.
Stuck == ~scheduler \/ (busy /\ run.at = "none") \/ manual = "dead"

Agrees == Stuck \/ Prune(1 .. source) \subseteq measurements
=============================================================================
