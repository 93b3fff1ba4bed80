------------------------- MODULE AlarmDispatchProofs -------------------------
(***************************************************************************)
(* Proofs about the notices of Alarmero, for any incidents and any number  *)
(* of refused requests, lost replies and restarts: what is said to have    *)
(* been notified is there, and what is shown never runs ahead of what      *)
(* happened.                                                               *)
(*                                                                         *)
(* A status reaches the table through a reply that may be old when it is   *)
(* ingested.  That does no harm because Mensagelo only moves a status      *)
(* forward, so that whatever trails it once trails it for ever.            *)
(***************************************************************************)
EXTENDS AlarmDispatch, TLAPS

Status == {"absent", "pending", "processing", "sent", "failed"}

\* s is behind the status t, or is t itself when it is an end.
Trails(s, t) ==
    /\ Progress[s] <= Progress[t]
    /\ s \in {"sent", "failed"} => s = t

\* How Mensagelo goes on with a key.
Forward(t, u) ==
    \/ u = t
    \/ t = "absent" /\ u = "pending"
    \/ t = "pending" /\ u = "processing"
    \/ t = "processing" /\ u \in {"sent", "failed"}

LedgerInOrder ==
    /\ status \in [Notice -> Status]
    /\ delivered \subseteq Notice
    /\ \A d \in Notice : status[d] = "sent" => d \in delivered

\* What the table says of a notice, and what it says of those who were told.
TableInOrder ==
    /\ \A d \in DOMAIN dispatches :
           /\ Trails(dispatches[d].status, status[d])
           /\ dispatches[d].accepted => status[d] # "absent"
    /\ \A i \in notified : status[<<i, "start">>] # "absent"

\* A reply holds what Mensagelo said when it was asked.
ResultsInOrder ==
    \A d \in DOMAIN results : results[d] \in Status \ {"absent"} /\ Trails(results[d], status[d])

DInv == TypeOK /\ LedgerInOrder /\ TableInOrder /\ ResultsInOrder

-----------------------------------------------------------------------------
LEMMA StartIsNotice == \A i \in Incidents : <<i, "start">> \in Notice
BY DEF Notice

LEMMA TrailsItself == \A s \in Status : Trails(s, s)
BY DEF Trails, Status, Progress

\* What trails a status trails whatever comes of it.
LEMMA TrailsForward ==
    ASSUME NEW s \in Status, NEW t \in Status, NEW u \in Status, Trails(s, t), Forward(t, u)
    PROVE  Trails(s, u)
BY DEF Trails, Forward, Status, Progress

\* The steps of Mensagelo move every status forward, and a mail is sent once the
\* SMTP server has it.
LedgerGoesOn ==
    /\ LedgerInOrder'
    /\ \A d \in Notice : Forward(status[d], status'[d])

LEMMA AcceptGoesOn ==
    ASSUME LedgerInOrder, NEW d \in Notice, Ledger!Accept(d, "alarm_event")
    PROVE  LedgerGoesOn /\ status'[d] = "pending"
BY DEF Ledger!Accept, LedgerInOrder, LedgerGoesOn, Forward, Status

LEMMA TakesGoesOn ==
    ASSUME LedgerInOrder, TypeOK, NEW d \in Notice, Takes(d)
    PROVE  /\ LedgerGoesOn /\ status'[d] # "absent"
           /\ taken' \in [Notice -> 0 .. MaxClock] /\ UNCHANGED <<alive, stranded>>
<1>1. CASE status[d] = "absent"
  <2>1. Ledger!Accept(d, "alarm_event") /\ taken' = [taken EXCEPT ![d] = clock]
    BY <1>1 DEF Takes
  <2>2. taken' \in [Notice -> 0 .. MaxClock]
    BY <2>1 DEF TypeOK
  <2> QED
    BY <2>1, <2>2, AcceptGoesOn DEF Takes
<1>2. CASE status[d] # "absent" /\ UNCHANGED ledgerVars
  BY <1>2 DEF ledgerVars, LedgerInOrder, LedgerGoesOn, Forward, TypeOK, Takes
<1> QED
  BY <1>1, <1>2 DEF Takes

LEMMA MailStepGoesOn ==
    ASSUME LedgerInOrder, MailStep
    PROVE  LedgerGoesOn
<1>1. ASSUME NEW d \in Notice, Ledger!Claim(d) PROVE LedgerGoesOn
  BY <1>1 DEF Ledger!Claim, LedgerInOrder, LedgerGoesOn, Forward, Status
<1>2. ASSUME NEW d \in Notice, Ledger!Deliver(d) PROVE LedgerGoesOn
  BY <1>2 DEF Ledger!Deliver, LedgerInOrder, LedgerGoesOn, Forward, Status
<1>3. ASSUME NEW d \in Notice, Ledger!Finish(d) PROVE LedgerGoesOn
  BY <1>3 DEF Ledger!Finish, LedgerInOrder, LedgerGoesOn, Forward, Status
<1> QED
  BY <1>1, <1>2, <1>3 DEF MailStep

LEMMA GiveUpGoesOn ==
    ASSUME LedgerInOrder, Ledger!GiveUp
    PROVE  LedgerGoesOn
BY DEF Ledger!GiveUp, LedgerInOrder, LedgerGoesOn, Forward, Status

\* What the table says stays true while Mensagelo goes on.
LEMMA StillTrails ==
    ASSUME DInv, LedgerGoesOn
    PROVE  /\ \A d \in DOMAIN dispatches :
                  /\ Trails(dispatches[d].status, status'[d])
                  /\ dispatches[d].accepted => status'[d] # "absent"
           /\ \A i \in notified : status'[<<i, "start">>] # "absent"
<1>1. ASSUME NEW d \in DOMAIN dispatches
      PROVE  /\ Trails(dispatches[d].status, status'[d])
             /\ dispatches[d].accepted => status'[d] # "absent"
  <2>1. d \in Notice /\ dispatches[d].status \in Status
    BY DEF DInv, TypeOK, Status
  <2>2. status[d] \in Status /\ status'[d] \in Status /\ Forward(status[d], status'[d])
    BY <2>1 DEF DInv, LedgerGoesOn, LedgerInOrder
  <2>3. Trails(dispatches[d].status, status'[d])
    BY <2>1, <2>2, TrailsForward DEF DInv, TableInOrder
  <2> QED
    BY <2>2, <2>3 DEF DInv, TableInOrder, Forward
<1>2. ASSUME NEW i \in notified PROVE status'[<<i, "start">>] # "absent"
  <2>1. <<i, "start">> \in Notice
    BY StartIsNotice DEF DInv, TypeOK
  <2> QED
    BY <2>1 DEF DInv, TableInOrder, LedgerGoesOn, Forward
<1> QED
  BY <1>1, <1>2

LEMMA TableStays ==
    ASSUME DInv, LedgerGoesOn, UNCHANGED <<dispatches, notified>>
    PROVE  TableInOrder'
BY StillTrails DEF TableInOrder

LEMMA ResultsStay ==
    ASSUME DInv, LedgerGoesOn, UNCHANGED results
    PROVE  ResultsInOrder'
<1>1. ASSUME NEW d \in DOMAIN results
      PROVE  results[d] \in Status \ {"absent"} /\ Trails(results[d], status'[d])
  <2>1. d \in Notice /\ results[d] \in Status \ {"absent"} /\ Trails(results[d], status[d])
    BY DEF DInv, TypeOK, ResultsInOrder
  <2>2. status[d] \in Status /\ status'[d] \in Status /\ Forward(status[d], status'[d])
    BY <2>1 DEF DInv, LedgerGoesOn, LedgerInOrder
  <2> QED
    BY <2>1, <2>2, TrailsForward
<1> QED
  BY <1>1 DEF ResultsInOrder

LEMMA LedgerStays ==
    ASSUME LedgerInOrder, UNCHANGED ledgerVars
    PROVE  LedgerGoesOn
BY DEF ledgerVars, LedgerInOrder, LedgerGoesOn, Forward

LEMMA FaultsStay == ASSUME TypeOK, Fault PROVE faults' \in 0 .. MaxFaults
BY DispatchAssumption DEF TypeOK, Fault

-----------------------------------------------------------------------------
(* The steps of the thread *)

LEMMA QueueStep ==
    ASSUME DInv, NEW d \in Notice, QueueNotice(d)
    PROVE  DInv'
<1> DEFINE row == [status |-> "pending", accepted |-> FALSE, created |-> clock]
<1>1. LedgerGoesOn /\ UNCHANGED <<notified, thread, toSend, results, status, faults>>
  BY LedgerStays DEF DInv, QueueNotice, mailVars, ledgerVars
<1>2. /\ DOMAIN dispatches' = DOMAIN dispatches \cup {d} /\ d \notin DOMAIN dispatches
      /\ dispatches'[d] = row
      /\ \A k \in DOMAIN dispatches : dispatches'[k] = dispatches[k]
  BY DEF QueueNotice, mailVars
<1>3. TypeOK'
  <2> DEFINE Rows == [status   : {"pending", "processing", "sent", "failed"},
                      accepted : BOOLEAN,
                      created  : 0 .. MaxClock]
  <2>1. row \in Rows
    BY DEF DInv, TypeOK
  <2>2. \A k \in DOMAIN dispatches : dispatches[k] \in Rows
    BY DEF DInv, TypeOK
  <2> HIDE DEF row, Rows
  <2>3. \A k \in DOMAIN dispatches' : dispatches'[k] \in Rows
    BY <1>2, <2>1, <2>2
  <2>4. DOMAIN dispatches' \subseteq Notice /\ toSend \subseteq DOMAIN dispatches'
    BY <1>2 DEF DInv, TypeOK
  <2> QED
    BY <1>1, <2>3, <2>4 DEF DInv, TypeOK, Rows, QueueNotice, mailVars, ledgerVars
<1>4. Trails("pending", status[d])
  BY DEF DInv, LedgerInOrder, Trails, Progress, Status
<1>5. TableInOrder'
  BY <1>1, <1>2, <1>4 DEF DInv, TableInOrder
<1> QED
  BY <1>1, <1>3, <1>5, ResultsStay DEF DInv, LedgerGoesOn

\* The answer 202 is written down: the key is there by then.
LEMMA AcceptedStep ==
    ASSUME DInv, NEW d \in Notice, PostAccepted(d)
    PROVE  DInv'
<1>1. /\ LedgerGoesOn /\ status'[d] # "absent"
      /\ taken' \in [Notice -> 0 .. MaxClock] /\ UNCHANGED <<alive, stranded, clock>>
      /\ d \in DOMAIN dispatches /\ toSend' \subseteq toSend /\ thread = "sending"
      /\ UNCHANGED <<thread, results, faults>>
  BY TakesGoesOn DEF DInv, TypeOK, PostAccepted
<1>2. dispatches' = [dispatches EXCEPT ![d].accepted = TRUE]
  BY DEF PostAccepted
<1>3. notified' \subseteq notified \cup {d[1]} /\ (notified' # notified => d[2] = "start")
  BY DEF PostAccepted
<1>4. d = <<d[1], d[2]>> /\ d[1] \in Incidents
  BY DEF Notice
<1>5. PICK row : row = dispatches[d]
  OBVIOUS
<1>6. /\ row \in [status : {"pending", "processing", "sent", "failed"}, accepted : BOOLEAN,
                 created : 0 .. MaxClock]
      /\ dispatches' = [dispatches EXCEPT ![d] = [row EXCEPT !.accepted = TRUE]]
  BY <1>1, <1>2, <1>5 DEF DInv, TypeOK
<1>7. /\ DOMAIN dispatches' = DOMAIN dispatches
      /\ dispatches'[d] = [row EXCEPT !.accepted = TRUE]
      /\ \A k \in DOMAIN dispatches \ {d} : dispatches'[k] = dispatches[k]
  BY <1>1, <1>6
<1>8. TypeOK'
  BY <1>1, <1>3, <1>4, <1>6, <1>7 DEF DInv, TypeOK
<1>9. /\ \A k \in DOMAIN dispatches : Trails(dispatches[k].status, status'[k])
      /\ \A k \in DOMAIN dispatches : dispatches[k].accepted => status'[k] # "absent"
      /\ \A i \in notified : status'[<<i, "start">>] # "absent"
  BY <1>1, StillTrails
<1>10. ASSUME NEW k \in DOMAIN dispatches
       PROVE  /\ Trails(dispatches'[k].status, status'[k])
              /\ dispatches'[k].accepted => status'[k] # "absent"
  <2>1. CASE k = d
    BY <1>1, <1>5, <1>6, <1>7, <1>9, <2>1
  <2>2. CASE k # d
    BY <1>7, <1>9, <2>2
  <2> QED
    BY <2>1, <2>2
<1>11. \A i \in notified' : status'[<<i, "start">>] # "absent"
  BY <1>1, <1>3, <1>4, <1>9
<1>12. TableInOrder'
  BY <1>7, <1>10, <1>11 DEF TableInOrder
<1> QED
  BY <1>1, <1>8, <1>12, ResultsStay DEF DInv, LedgerGoesOn

\* Nothing is written: the request failed, or was taken and not heard of.
LEMMA SilentStep ==
    ASSUME DInv, LedgerGoesOn, UNCHANGED <<dispatches, notified, results>>, TypeOK'
    PROVE  DInv'
BY TableStays, ResultsStay DEF DInv, LedgerGoesOn

LEMMA FetchStep ==
    ASSUME DInv, FetchResults
    PROVE  DInv'
<1>1. LedgerGoesOn /\ UNCHANGED <<dispatches, notified, toSend, status, faults>>
  BY LedgerStays DEF DInv, FetchResults, mailVars, ledgerVars
<1>2. /\ results' = [d \in Listed |-> status[d]]
      /\ \A d \in Listed : d \in Notice /\ status[d] # "absent"
  BY DEF FetchResults, Report, Listed
<1>3. ResultsInOrder'
  BY <1>1, <1>2, TrailsItself DEF DInv, LedgerInOrder, ResultsInOrder
<1>4. TypeOK'
  BY <1>1, <1>2 DEF DInv, TypeOK, FetchResults, mailVars
<1> QED
  BY <1>1, <1>3, <1>4, TableStays DEF DInv, LedgerGoesOn

\* The reply may be old: it still trails the ledger.
LEMMA IngestStep ==
    ASSUME DInv, IngestResults
    PROVE  DInv'
<1>1. LedgerGoesOn /\ UNCHANGED <<notified, toSend, status, faults>> /\ thread' = "idle"
  BY LedgerStays DEF DInv, IngestResults, mailVars, ledgerVars
<1>2. DOMAIN dispatches' = DOMAIN dispatches /\ DOMAIN results' = {}
  BY DEF IngestResults, mailVars
<1>3. ASSUME NEW d \in DOMAIN dispatches
      PROVE  /\ dispatches'[d] \in [status   : {"pending", "processing", "sent", "failed"},
                                    accepted : BOOLEAN,
                      created  : 0 .. MaxClock]
             /\ Trails(dispatches'[d].status, status[d])
             /\ dispatches'[d].accepted => status[d] # "absent"
  <2>1. PICK row : row = dispatches[d]
    OBVIOUS
  <2>2. /\ row \in [status : {"pending", "processing", "sent", "failed"}, accepted : BOOLEAN,
                  created : 0 .. MaxClock]
        /\ Trails(row.status, status[d])
        /\ row.accepted => status[d] # "absent"
    BY <2>1 DEF DInv, TypeOK, TableInOrder
  <2>3. CASE d \in DOMAIN results
    <3>1. PICK s \in Status \ {"absent"} : s = results[d] /\ Trails(s, status[d])
      BY <2>3 DEF DInv, ResultsInOrder
    <3>2. dispatches'[d] = [row EXCEPT !.status = s]
      BY <2>1, <2>3, <3>1 DEF IngestResults, mailVars
    <3> QED
      BY <2>2, <3>1, <3>2 DEF Status
  <2>4. CASE d \notin DOMAIN results
    BY <2>1, <2>2, <2>4 DEF IngestResults, mailVars
  <2> QED
    BY <2>3, <2>4
<1>4. TypeOK'
  BY <1>1, <1>2, <1>3 DEF DInv, TypeOK, IngestResults, mailVars
<1>5. TableInOrder'
  BY <1>1, <1>2, <1>3 DEF DInv, TableInOrder
<1>6. ResultsInOrder'
  BY <1>2 DEF ResultsInOrder
<1> QED
  BY <1>1, <1>4, <1>5, <1>6 DEF DInv, LedgerGoesOn

LEMMA RestartStep ==
    ASSUME DInv, Restart
    PROVE  DInv'
<1>1. LedgerGoesOn /\ UNCHANGED <<dispatches, notified>> /\ DOMAIN results' = {}
  BY LedgerStays DEF DInv, Restart, mailVars, ledgerVars
<1>2. TypeOK'
  BY <1>1, FaultsStay DEF DInv, TypeOK, Restart, mailVars
<1>3. ResultsInOrder'
  BY <1>1 DEF ResultsInOrder
<1> QED
  BY <1>1, <1>2, <1>3, TableStays DEF DInv, LedgerGoesOn

-----------------------------------------------------------------------------
LEMMA InitDInv == Init => DInv
<1> SUFFICES ASSUME Init PROVE DInv
  OBVIOUS
<1>1. /\ DOMAIN dispatches = {} /\ notified = {} /\ DOMAIN results = {}
      /\ thread = "idle" /\ toSend = {} /\ faults = 0
      /\ status = [d \in Notice |-> "absent"] /\ delivered = {}
  BY DEF Init, Ledger!Init
<1>1a. /\ taken = [d \in Notice |-> 0] /\ alive = TRUE /\ stranded = {} /\ clock = 0
       /\ 0 \in 0 .. MaxClock /\ 0 \in 0 .. MaxFaults
  BY DispatchAssumption DEF Init
<1>2. TypeOK
  BY <1>1, <1>1a DEF TypeOK
<1>3. LedgerInOrder
  BY <1>1 DEF LedgerInOrder, Status
<1> QED
  BY <1>1, <1>2, <1>3 DEF DInv, TableInOrder, ResultsInOrder

LEMMA NextDInv == DInv /\ [Next]_vars => DInv'
<1> SUFFICES ASSUME DInv, [Next]_vars PROVE DInv'
  OBVIOUS
<1>1. ASSUME NEW d \in Notice, QueueNotice(d) PROVE DInv'
  BY <1>1, QueueStep
<1>2. CASE StartSending
  <2>1. LedgerGoesOn /\ UNCHANGED <<dispatches, notified, results>>
    BY <1>2, LedgerStays DEF DInv, StartSending, mailVars, ledgerVars
  <2>2. TypeOK'
    BY <1>2 DEF DInv, TypeOK, StartSending, mailVars, Waiting
  <2> QED
    BY <2>1, <2>2, SilentStep
<1>3. ASSUME NEW d \in Notice, PostAccepted(d) PROVE DInv'
  BY <1>3, AcceptedStep
<1>4. ASSUME NEW d \in Notice, PostConflicts(d) PROVE DInv'
  <2>1. LedgerGoesOn /\ UNCHANGED <<dispatches, notified, results>>
    BY <1>4, LedgerStays DEF DInv, PostConflicts, mailVars, ledgerVars
  <2>2. TypeOK'
    BY <1>4 DEF DInv, TypeOK, PostConflicts, mailVars
  <2> QED
    BY <2>1, <2>2, SilentStep
<1>5. CASE FetchResults
  BY <1>5, FetchStep
<1>6. CASE IngestResults
  BY <1>6, IngestStep
<1>7. ASSUME NEW d \in Notice, PostUnheard(d) PROVE DInv'
  <2>1. /\ LedgerGoesOn /\ UNCHANGED <<dispatches, notified, results, alive, stranded>>
        /\ taken' \in [Notice -> 0 .. MaxClock]
    BY <1>7, TakesGoesOn DEF DInv, PostUnheard
  <2>2. TypeOK'
    BY <1>7, <2>1, FaultsStay DEF DInv, TypeOK, PostUnheard
  <2> QED
    BY <2>1, <2>2, SilentStep
<1>8. ASSUME NEW d \in Notice, PostFails(d) PROVE DInv'
  <2>1. LedgerGoesOn /\ UNCHANGED <<dispatches, notified, results>>
    BY <1>8, LedgerStays DEF DInv, PostFails, mailVars, ledgerVars
  <2>2. TypeOK'
    BY <1>8, FaultsStay DEF DInv, TypeOK, PostFails, mailVars
  <2> QED
    BY <2>1, <2>2, SilentStep
<1>9. CASE ResultsFail
  <2>1. LedgerGoesOn /\ UNCHANGED <<dispatches, notified, results>>
    BY <1>9, LedgerStays DEF DInv, ResultsFail, mailVars, ledgerVars
  <2>2. TypeOK'
    BY <1>9, FaultsStay DEF DInv, TypeOK, ResultsFail, mailVars
  <2> QED
    BY <2>1, <2>2, SilentStep
<1>10. CASE Restart
  BY <1>10, RestartStep
<1>11. CASE MailStep
  <2>1. LedgerGoesOn
    BY <1>11, MailStepGoesOn DEF DInv
  <2>2. UNCHANGED <<dispatches, notified, results>> /\ TypeOK'
    BY <1>11 DEF DInv, TypeOK, MailStep, alarmeroVars
  <2> QED
    BY <2>1, <2>2, SilentStep
<1>12. CASE MailRestart
  <2>1. LedgerGoesOn
    BY <1>12, GiveUpGoesOn DEF DInv, MailRestart
  <2>2. UNCHANGED <<dispatches, notified, results>> /\ TypeOK'
    BY <1>12, FaultsStay DEF DInv, TypeOK, MailRestart, alarmeroVars
  <2> QED
    BY <2>1, <2>2, SilentStep
<1>13. ASSUME NEW d \in Notice, CompletionFails(d) PROVE DInv'
  <2>1. LedgerGoesOn /\ UNCHANGED <<dispatches, notified, results>>
    BY <1>13, LedgerStays DEF DInv, CompletionFails, alarmeroVars
  <2>2. TypeOK'
    BY <1>13, FaultsStay DEF DInv, TypeOK, CompletionFails, alarmeroVars, ledgerVars
  <2> QED
    BY <2>1, <2>2, SilentStep
<1>14. CASE WorkerDies
  <2>1. LedgerGoesOn /\ UNCHANGED <<dispatches, notified, results>>
    BY <1>14, LedgerStays DEF DInv, WorkerDies, alarmeroVars
  <2>2. TypeOK'
    BY <1>14, FaultsStay DEF DInv, TypeOK, WorkerDies, alarmeroVars, ledgerVars
  <2> QED
    BY <2>1, <2>2, SilentStep
<1>15. CASE Tick
  <2>1. LedgerGoesOn /\ UNCHANGED <<dispatches, notified, results>>
    BY <1>15, LedgerStays DEF DInv, Tick, alarmeroVars, mailVars, ledgerVars
  <2>2. clock' \in 0 .. MaxClock
    BY <1>15, DispatchAssumption DEF DInv, TypeOK, Tick
  <2>3. TypeOK'
    BY <1>15, <2>2 DEF DInv, TypeOK, Tick, alarmeroVars, mailVars
  <2> QED
    BY <2>1, <2>3, SilentStep
<1>16. CASE UNCHANGED vars
  <2>1. LedgerGoesOn
    BY <1>16, LedgerStays DEF DInv, vars, ledgerVars
  <2>2. UNCHANGED <<dispatches, notified, results>> /\ TypeOK'
    BY <1>16 DEF DInv, TypeOK, vars
  <2> QED
    BY <2>1, <2>2, SilentStep
<1> QED
  BY <1>1, <1>2, <1>3, <1>4, <1>5, <1>6, <1>7, <1>8, <1>9, <1>10, <1>11, <1>12, <1>13, <1>14,
     <1>15, <1>16
     DEF Next, ThreadStep

LEMMA DInvAlways == Spec => []DInv
BY InitDInv, NextDInv, PTL DEF Spec

\* db.py, mark_dispatch_accepted and ingest_dispatches: nobody is said to be notified of
\* what Mensagelo does not hold, and a notice shown as sent reached the SMTP server.
THEOREM NoticesAlwaysReal == Spec => []NoticeIsReal
<1>1. DInv => NoticeIsReal
  <2> SUFFICES ASSUME DInv PROVE NoticeIsReal
    OBVIOUS
  <2>1. ASSUME NEW d \in DOMAIN dispatches, dispatches[d].status = "sent"
        PROVE  d \in delivered
    BY <2>1 DEF DInv, TypeOK, TableInOrder, Trails, LedgerInOrder
  <2> QED
    BY <2>1 DEF DInv, TableInOrder, NoticeIsReal
<1> QED
  BY <1>1, DInvAlways, PTL

\* The statuses shown are those of replies that may be old, and still never ahead.
THEOREM ShownAlwaysTrails == Spec => []ShownTrailsLedger
<1>1. DInv => ShownTrailsLedger
  BY DEF DInv, TableInOrder, Trails, ShownTrailsLedger
<1> QED
  BY <1>1, DInvAlways, PTL
=============================================================================
