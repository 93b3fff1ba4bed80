--------------------------- MODULE MensageloProofs ---------------------------
(***************************************************************************)
(* Proofs about the mail service: its invariant, and that it implements    *)
(* the ledger its clients rely on, for any keys, messages and capacity.    *)
(***************************************************************************)
EXTENDS Mensagelo, FiniteSetTheorems, TLAPS

-----------------------------------------------------------------------------
(* The invariant *)

\* The table is finite: Active has a cardinality.
FiniteTable == IsFiniteSet(DOMAIN rows)

\* AtMostOnce is not inductive: a message is handed over by a worker that owns
\* its row, and nothing goes back to wait once it was accepted.
MInv ==
    /\ TypeOK
    /\ AtMostOnce
    /\ StatusIsHonest
    /\ WorkerOwnsItsRow
    /\ CapacityHolds
    /\ FiniteTable

\* What a step does to the table, in the words of Status.
LEMMA SetStatus ==
    ASSUME TypeOK, NEW k \in DOMAIN rows, NEW s \in {"processing", "sent", "failed"},
           rows' = Set(k, s)
    PROVE  /\ DOMAIN rows' = DOMAIN rows
           /\ Status(k)' = s
           /\ \A j \in Keys \ {k} : Status(j)' = Status(j)
           /\ \A j \in DOMAIN rows : rows'[j].message = rows[j].message
           /\ \A j \in DOMAIN rows : rows'[j] \in Row
           /\ s # "processing" => Active' \subseteq Active
           /\ Status(k) \in {"pending", "processing"} => Active' \subseteq Active
<1> USE DEF TypeOK
<1>1. /\ rows' = [rows EXCEPT ![k].status = s, ![k].updated = clock]
      /\ k \in Keys
  BY DEF Set
<1>2. DOMAIN rows' = DOMAIN rows
  BY <1>1
<1>3. rows'[k] = [rows[k] EXCEPT !.status = s, !.updated = clock]
  BY <1>1
<1>4. \A j \in DOMAIN rows : j # k => rows'[j] = rows[j]
  BY <1>1
<1>5. rows[k] \in Row
  OBVIOUS
<1>6. rows'[k] \in Row /\ rows'[k].status = s /\ rows'[k].message = rows[k].message
  BY <1>3, <1>5 DEF Row
<1>7. /\ Status(k)' = s
      /\ \A j \in Keys \ {k} : Status(j)' = Status(j)
  BY <1>2, <1>4, <1>6 DEF Status
<1>8. /\ s # "processing" => Active' \subseteq Active
      /\ Status(k) \in {"pending", "processing"} => Active' \subseteq Active
  BY <1>2, <1>4, <1>6 DEF Active, Status
<1> QED
  BY <1>2, <1>4, <1>6, <1>7, <1>8

\* A table that keeps or loses unfinished rows keeps within its capacity.
LEMMA FewerActive ==
    ASSUME ParametersAssumption, FiniteTable, CapacityHolds, Active' \subseteq Active
    PROVE  CapacityHolds'
<1>1. IsFiniteSet(Active)
  BY FS_Subset DEF FiniteTable, Active
<1>2. IsFiniteSet(Active') /\ Cardinality(Active') <= Cardinality(Active)
  BY <1>1, FS_Subset
<1>3. Cardinality(Active) \in Nat /\ Cardinality(Active') \in Nat /\ QueueMax \in Nat
  BY <1>1, <1>2, FS_CardinalityType DEF ParametersAssumption
<1> QED
  BY <1>2, <1>3 DEF CapacityHolds

\* The bound on faults.
LEMMA FaultCounted ==
    ASSUME ParametersAssumption, TypeOK, Fault
    PROVE  faults' \in 0 .. MaxFaults
BY DEF ParametersAssumption, TypeOK, Fault

\* A table that did not change is as honest as before.
LEMMA SameTable ==
    ASSUME MInv, UNCHANGED <<rows, accepted>>, TypeOK', WorkerOwnsItsRow'
    PROVE  MInv'
<1>1. \A k \in Keys : Status(k)' = Status(k)
  BY DEF Status
<1>2. AtMostOnce' /\ StatusIsHonest' /\ CapacityHolds' /\ FiniteTable'
  BY <1>1 DEF MInv, AtMostOnce, StatusIsHonest, CapacityHolds, FiniteTable, Active
<1> QED
  BY <1>2 DEF MInv

-----------------------------------------------------------------------------
(* The invariant holds at the start and is kept by every step *)

LEMMA InitMInv == ParametersAssumption /\ Init => MInv
<1> SUFFICES ASSUME ParametersAssumption, Init PROVE MInv
  OBVIOUS
<1> USE DEF Init, ParametersAssumption
<1>1. rows = [k \in {} |-> {}] /\ DOMAIN rows = {}
  OBVIOUS
<1>2. \A k \in Keys : Status(k) = "absent"
  BY <1>1 DEF Status
<1>3. Active = {}
  BY <1>1 DEF Active
<1>4. worker = [pc |-> "get", key |-> NoKey, ok |-> FALSE]
  BY DEF Idle, At
<1>5. history \subseteq [message : Messages, at : 0 .. MaxClock, ok : BOOLEAN]
  <2>1. CASE history = {}
    BY <2>1
  <2>2. CASE history # {}
    <3>1. PICK m \in Messages : history = {[message |-> m, at |-> 0, ok |-> TRUE]}
      BY <2>2
    <3>2. [message |-> m, at |-> 0, ok |-> TRUE]
              \in [message : Messages, at : 0 .. MaxClock, ok : BOOLEAN]
      OBVIOUS
    <3> QED
      BY <3>1, <3>2
  <2> QED
    BY <2>1, <2>2
<1>6. TypeOK
  <2>1. worker \in [pc  : {"get", "claim", "deliver", "complete", "dead"},
                    key : Keys \cup {NoKey}, ok : BOOLEAN]
    BY <1>4
  <2>2. queue \in Seq(Keys) /\ Len(queue) <= QueueMax
    OBVIOUS
  <2>3. accepted \in [Keys -> Nat] /\ clock \in 0 .. MaxClock /\ faults \in 0 .. MaxFaults
    OBVIOUS
  <2> QED
    BY <1>1, <1>5, <2>1, <2>2, <2>3 DEF TypeOK
<1>7. AtMostOnce /\ StatusIsHonest
  BY <1>2 DEF AtMostOnce, StatusIsHonest
<1>8. WorkerOwnsItsRow
  BY <1>4 DEF WorkerOwnsItsRow
<1>9. FiniteTable /\ CapacityHolds
  BY <1>1, <1>3, FS_EmptySet DEF FiniteTable, CapacityHolds
<1> QED
  BY <1>6, <1>7, <1>8, <1>9 DEF MInv

LEMMA NextMInv == ParametersAssumption /\ MInv /\ [Next]_vars => MInv'
<1> SUFFICES ASSUME ParametersAssumption, MInv, [Next]_vars PROVE MInv'
  OBVIOUS
<1>0. TypeOK /\ AtMostOnce /\ StatusIsHonest /\ WorkerOwnsItsRow /\ CapacityHolds /\ FiniteTable
  BY DEF MInv
<1>1. ASSUME NEW k \in Keys, NEW m \in Messages, Reserve(k, m) PROVE MInv'
  <2>1. /\ k \notin DOMAIN rows
        /\ rows' = [j \in DOMAIN rows \cup {k} |->
                      IF j = k
                      THEN [message |-> m, status |-> "pending",
                            created |-> clock, updated |-> clock]
                      ELSE rows[j]]
        /\ UNCHANGED <<up, legacy, history, queue, worker, accepted, clock, faults>>
        /\ putting' = putting \cup {k}
    BY <1>0, <1>1 DEF Reserve, Status, TypeOK, Row
  <2>2. DOMAIN rows' = DOMAIN rows \cup {k}
    BY <2>1
  <2>3. Status(k)' = "pending" /\ \A j \in Keys \ {k} : Status(j)' = Status(j)
    BY <2>1 DEF Status
  <2>4. accepted[k] = 0
    BY <1>0, <2>1 DEF StatusIsHonest, Status
  <2>5. \A j \in DOMAIN rows' : rows'[j] \in Row
    BY <1>0, <2>1 DEF TypeOK, Row
  <2>6. TypeOK'
    BY <1>0, <2>1, <2>2, <2>5 DEF TypeOK
  <2>7. AtMostOnce' /\ StatusIsHonest'
    BY <1>0, <2>1, <2>3, <2>4 DEF AtMostOnce, StatusIsHonest
  <2>8. WorkerOwnsItsRow'
    BY <1>0, <2>1 DEF WorkerOwnsItsRow, Status
  <2>9. FiniteTable'
    BY <1>0, <2>2, FS_AddElement DEF FiniteTable
  <2>10. Active' = Active \cup {k} /\ k \notin Active
    BY <2>1, <2>2 DEF Active
  <2>11. IsFiniteSet(Active) /\ Cardinality(Active) < QueueMax
    BY <1>0, <1>1, FS_Subset DEF FiniteTable, Active, Reserve, HasRoom
  <2>12. CapacityHolds'
    <3>1. Cardinality(Active \cup {k}) = Cardinality(Active) + 1
      BY <2>10, <2>11, FS_AddElement
    <3>2. Cardinality(Active) \in Nat /\ QueueMax \in Nat
      BY <2>11, FS_CardinalityType DEF ParametersAssumption
    <3> QED
      BY <2>10, <2>11, <3>1, <3>2 DEF CapacityHolds
  <2> QED
    BY <2>6, <2>7, <2>8, <2>9, <2>12 DEF MInv
<1>2. ASSUME NEW k \in Keys, Put(k) PROVE MInv'
  <2>1. TypeOK'
    <3>1. queue' \in Seq(Keys) /\ Len(queue') <= QueueMax
      <4>1. CASE Len(queue) < QueueMax
        BY <1>0, <1>2, <4>1 DEF Put, TypeOK, ParametersAssumption
      <4>2. CASE ~(Len(queue) < QueueMax)
        BY <1>0, <1>2, <4>2 DEF Put, TypeOK
      <4> QED
        BY <4>1, <4>2
    <3> QED
      BY <1>0, <1>2, <3>1 DEF Put, TypeOK
  <2>2. WorkerOwnsItsRow'
    BY <1>0, <1>2 DEF Put, WorkerOwnsItsRow, Status
  <2> QED
    BY <1>2, <2>1, <2>2, SameTable DEF Put
<1>3. ASSUME GetKey \/ Poll \/ PollFails \/ ClaimNothing \/ ClaimFails PROVE MInv'
  <2>1. UNCHANGED <<rows, accepted, up, legacy, history, putting, clock>>
    BY <1>3 DEF GetKey, Poll, PollFails, ClaimNothing, ClaimFails
  <2>2. queue' \in Seq(Keys) /\ Len(queue') <= QueueMax /\ faults' \in 0 .. MaxFaults
    <3>1. CASE GetKey
      BY <1>0, <3>1 DEF GetKey, TypeOK, ParametersAssumption
    <3>2. CASE Poll \/ ClaimNothing
      BY <1>0, <3>2 DEF Poll, ClaimNothing, TypeOK
    <3>3. CASE PollFails \/ ClaimFails
      BY <1>0, <3>3, FaultCounted DEF PollFails, ClaimFails, TypeOK
    <3> QED
      BY <1>3, <3>1, <3>2, <3>3
  <2>3. \E key \in Keys \cup {NoKey}, place \in {"get", "claim", "dead"} :
            worker' = [pc |-> place, key |-> key, ok |-> FALSE]
    <3>1. CASE GetKey
      <4>1. Head(queue) \in Keys
        BY <1>0, <3>1 DEF GetKey, TypeOK
      <4> QED
        BY <3>1, <4>1 DEF GetKey, At
    <3>2. CASE Poll \/ PollFails \/ ClaimNothing \/ ClaimFails
      BY <3>2 DEF Poll, PollFails, ClaimNothing, ClaimFails, At, Idle, Dead
    <3> QED
      BY <1>3, <3>1, <3>2
  <2>4. TypeOK'
    BY <1>0, <2>1, <2>2, <2>3 DEF TypeOK
  <2>5. WorkerOwnsItsRow'
    BY <2>3 DEF WorkerOwnsItsRow
  <2> QED
    BY <2>1, <2>4, <2>5, SameTable
<1>4. ASSUME NEW k \in Keys, Claim(k) PROVE MInv'
  <2>1. /\ k \in DOMAIN rows /\ Status(k) = "pending"
        /\ rows' = Set(k, "processing")
        /\ worker' = [pc |-> "deliver", key |-> k, ok |-> FALSE]
        /\ UNCHANGED <<up, legacy, history, queue, putting, accepted, clock, faults>>
    BY <1>4 DEF Claim, Claimable, Pending, Status, At
  <2>2. /\ DOMAIN rows' = DOMAIN rows
        /\ Status(k)' = "processing"
        /\ \A j \in Keys \ {k} : Status(j)' = Status(j)
        /\ \A j \in DOMAIN rows : rows'[j] \in Row
        /\ Active' \subseteq Active
    BY <1>0, <2>1, SetStatus
  <2>3. TypeOK'
    BY <1>0, <2>1, <2>2 DEF TypeOK
  <2>4. accepted[k] = 0
    BY <1>0, <2>1 DEF StatusIsHonest
  <2>5. AtMostOnce' /\ StatusIsHonest'
    BY <1>0, <2>1, <2>2 DEF AtMostOnce, StatusIsHonest
  <2>6. WorkerOwnsItsRow'
    BY <2>1, <2>2, <2>4 DEF WorkerOwnsItsRow
  <2>7. CapacityHolds' /\ FiniteTable'
    BY <1>0, <2>2, FewerActive DEF FiniteTable
  <2> QED
    BY <2>3, <2>5, <2>6, <2>7 DEF MInv
<1>5. ASSUME SmtpAccepts PROVE MInv'
  <2> DEFINE k == worker.key
  <2>1. PICK heard \in BOOLEAN :
           worker' = [pc |-> "complete", key |-> k, ok |-> heard]
    BY <1>5 DEF SmtpAccepts, At
  <2>2. /\ UNCHANGED <<up, rows, legacy, history, queue, putting, clock, faults>>
        /\ accepted' = [accepted EXCEPT ![k] = @ + 1]
    BY <1>5 DEF SmtpAccepts
  <2>3. Status(k) = "processing" /\ accepted[k] = 0
    BY <1>0, <1>5 DEF WorkerOwnsItsRow, SmtpAccepts
  <2>4. k \in DOMAIN rows /\ k \in Keys
    BY <1>0, <2>3 DEF Status, TypeOK
  <2>5. \A j \in Keys : Status(j)' = Status(j)
    BY <2>2 DEF Status
  <2>6. accepted'[k] = 1 /\ \A j \in Keys \ {k} : accepted'[j] = accepted[j]
    BY <1>0, <2>2, <2>3, <2>4 DEF TypeOK
  <2>7. TypeOK'
    BY <1>0, <2>1, <2>2, <2>4 DEF TypeOK
  <2>8. AtMostOnce' /\ StatusIsHonest'
    BY <1>0, <2>3, <2>4, <2>5, <2>6 DEF AtMostOnce, StatusIsHonest
  <2>9. WorkerOwnsItsRow'
    BY <2>1, <2>3, <2>4, <2>5, <2>6 DEF WorkerOwnsItsRow
  <2>10. CapacityHolds' /\ FiniteTable'
    BY <1>0, <2>2 DEF CapacityHolds, FiniteTable, Active
  <2> QED
    BY <2>7, <2>8, <2>9, <2>10 DEF MInv
<1>6. ASSUME SmtpRefuses \/ CompleteFails PROVE MInv'
  <2>1. /\ UNCHANGED <<up, rows, legacy, history, queue, putting, accepted, clock>>
        /\ faults' \in 0 .. MaxFaults
    <3>1. CASE SmtpRefuses
      BY <1>0, <3>1 DEF SmtpRefuses, TypeOK
    <3>2. CASE CompleteFails
      BY <1>0, <3>2, FaultCounted DEF CompleteFails
    <3> QED
      BY <1>6, <3>1, <3>2
  <2>2. \/ worker' = [pc |-> "get", key |-> NoKey, ok |-> FALSE]
        \/ /\ worker.pc = "deliver"
           /\ worker' = [pc |-> "complete", key |-> worker.key, ok |-> FALSE]
    BY <1>6 DEF SmtpRefuses, CompleteFails, At, Idle
  <2>3. TypeOK'
    <3>1. worker' \in [pc  : {"get", "claim", "deliver", "complete", "dead"},
                       key : Keys \cup {NoKey}, ok : BOOLEAN]
      <4>1. CASE worker' = [pc |-> "get", key |-> NoKey, ok |-> FALSE]
        BY <4>1
      <4>2. CASE worker' = [pc |-> "complete", key |-> worker.key, ok |-> FALSE]
        <5>1. worker.key \in Keys \cup {NoKey}
          BY <1>0 DEF TypeOK
        <5> QED
          BY <4>2, <5>1
      <4> QED
        BY <2>2, <4>1, <4>2
    <3> QED
      BY <1>0, <2>1, <3>1 DEF TypeOK
  <2>4. WorkerOwnsItsRow'
    BY <1>0, <2>1, <2>2 DEF WorkerOwnsItsRow, Status
  <2> QED
    BY <2>1, <2>3, <2>4, SameTable
<1>7. ASSUME NEW later \in {0, 1}, Complete(later) PROVE MInv'
  <2>1. Status(worker.key) = "processing" /\ (worker.ok => accepted[worker.key] = 1)
    BY <1>0, <1>7 DEF WorkerOwnsItsRow, Complete
  <2>2. PICK k \in DOMAIN rows : k = worker.key /\ k \in Keys /\ Status(k) = "processing"
    BY <1>0, <2>1 DEF Status, TypeOK
  <2>3. PICK s \in {"sent", "failed"} : s = IF worker.ok THEN "sent" ELSE "failed"
    OBVIOUS
  <2>4. /\ rows' = Set(k, s)
        /\ clock' = clock + later /\ clock' <= MaxClock
        /\ history' = history \cup {[message |-> rows[k].message,
                                     at      |-> clock',
                                     ok      |-> worker.ok]}
        /\ worker' = [pc |-> "get", key |-> NoKey, ok |-> FALSE]
        /\ UNCHANGED <<up, legacy, queue, putting, accepted, faults>>
    BY <1>7, <2>2, <2>3 DEF Complete, Idle, At
  <2>10. /\ DOMAIN rows' = DOMAIN rows
         /\ Status(k)' = s
         /\ \A j \in Keys \ {k} : Status(j)' = Status(j)
         /\ \A j \in DOMAIN rows : rows'[j] \in Row
         /\ Active' \subseteq Active
    BY <1>0, <2>2, <2>4, SetStatus
  <2>5. TypeOK'
    <3>1. clock' \in 0 .. MaxClock
      BY <1>0, <2>4 DEF TypeOK, ParametersAssumption
    <3>2. rows[k].message \in Messages /\ worker.ok \in BOOLEAN
      BY <1>0, <2>2 DEF TypeOK, Row
    <3> QED
      BY <1>0, <2>4, <2>10, <3>1, <3>2 DEF TypeOK
  <2>6. AtMostOnce'
    BY <1>0, <2>4 DEF AtMostOnce
  <2>7. StatusIsHonest'
    <3>1. \/ s = "sent" /\ accepted[k] = 1
          \/ s = "failed"
      BY <2>1, <2>2, <2>3
    <3>2. /\ Status(k)' = "sent" => accepted'[k] = 1
          /\ Status(k)' \notin {"absent", "pending"}
      BY <2>4, <2>10, <3>1
    <3>3. \A j \in Keys \ {k} : Status(j)' = Status(j) /\ accepted'[j] = accepted[j]
      BY <2>4, <2>10
    <3> QED
      BY <1>0, <3>2, <3>3 DEF StatusIsHonest
  <2>8. WorkerOwnsItsRow'
    BY <2>4 DEF WorkerOwnsItsRow
  <2>9. CapacityHolds' /\ FiniteTable'
    BY <1>0, <2>10, FewerActive DEF FiniteTable
  <2> QED
    BY <2>5, <2>6, <2>7, <2>8, <2>9 DEF MInv
<1>8. CASE Start
  <2>1. /\ rows' = Interrupted
        /\ worker' = [pc |-> "get", key |-> NoKey, ok |-> FALSE]
        /\ up' = TRUE /\ legacy' = Migrated
        /\ UNCHANGED <<history, queue, putting, accepted, clock, faults>>
    BY <1>8 DEF Start, Idle, At
  <2>2. DOMAIN rows' = DOMAIN rows
    BY <2>1 DEF Interrupted
  <2>3. \A j \in DOMAIN rows :
            rows'[j] = IF rows[j].status = "processing"
                       THEN [rows[j] EXCEPT !.status = "failed", !.updated = clock]
                       ELSE rows[j]
    BY <2>1 DEF Interrupted
  <2>4. \A j \in DOMAIN rows : rows'[j] \in Row
    BY <1>0, <2>3 DEF TypeOK, Row
  <2>5. \A j \in Keys :
            Status(j)' = IF Status(j) = "processing" THEN "failed" ELSE Status(j)
    BY <1>0, <2>2, <2>3 DEF Status, TypeOK, Row
  <2>6. Migrated \subseteq [message : Messages, at : 0 .. MaxClock]
    BY <1>0 DEF TypeOK, Migrated
  <2>7. TypeOK'
    BY <1>0, <2>1, <2>2, <2>4, <2>6 DEF TypeOK
  <2>8. AtMostOnce' /\ StatusIsHonest'
    BY <1>0, <2>1, <2>5 DEF AtMostOnce, StatusIsHonest
  <2>9. WorkerOwnsItsRow'
    BY <2>1 DEF WorkerOwnsItsRow
  <2>10. Active' \subseteq Active
    BY <1>0, <2>2, <2>3 DEF Active, TypeOK, Row
  <2>11. CapacityHolds' /\ FiniteTable'
    BY <1>0, <2>2, <2>10, FewerActive DEF FiniteTable
  <2> QED
    BY <2>7, <2>8, <2>9, <2>11 DEF MInv
<1>9. CASE Crash \/ Tick
  <2>1. UNCHANGED <<rows, legacy, history, accepted>>
    BY <1>9 DEF Crash, Tick
  <2>2. /\ up' \in BOOLEAN
        /\ queue' \in Seq(Keys) /\ Len(queue') <= QueueMax
        /\ putting' \subseteq Keys
        /\ clock' \in 0 .. MaxClock /\ faults' \in 0 .. MaxFaults
    <3>1. CASE Crash
      <4>1. faults' \in 0 .. MaxFaults
        BY <1>0, <3>1, FaultCounted DEF Crash
      <4>2. up' = FALSE /\ queue' = <<>> /\ putting' = {} /\ clock' = clock
        BY <3>1 DEF Crash
      <4>3. queue' \in Seq(Keys) /\ Len(queue') <= QueueMax
        BY <4>2 DEF ParametersAssumption
      <4>4. up' \in BOOLEAN /\ putting' \subseteq Keys
        BY <4>2
      <4>5. clock' \in 0 .. MaxClock
        BY <1>0, <4>2 DEF TypeOK
      <4> QED
        BY <4>1, <4>3, <4>4, <4>5
    <3>2. CASE Tick
      BY <1>0, <3>2 DEF Tick, TypeOK, ParametersAssumption
    <3> QED
      BY <1>9, <3>1, <3>2
  <2>3. worker' = worker \/ worker' = [pc |-> "dead", key |-> NoKey, ok |-> FALSE]
    BY <1>9 DEF Crash, Tick, Dead, At
  <2>4. TypeOK'
    <3>1. worker' \in [pc  : {"get", "claim", "deliver", "complete", "dead"},
                       key : Keys \cup {NoKey}, ok : BOOLEAN]
      <4>1. CASE worker' = worker
        BY <1>0, <4>1 DEF TypeOK
      <4>2. CASE worker' = [pc |-> "dead", key |-> NoKey, ok |-> FALSE]
        BY <4>2
      <4> QED
        BY <2>3, <4>1, <4>2
    <3> QED
      BY <1>0, <2>1, <2>2, <3>1 DEF TypeOK
  <2>5. WorkerOwnsItsRow'
    BY <1>0, <2>1, <2>3 DEF WorkerOwnsItsRow, Status
  <2> QED
    BY <2>1, <2>4, <2>5, SameTable
<1>10. CASE UNCHANGED vars
  <2>1. TypeOK' /\ WorkerOwnsItsRow'
    BY <1>0, <1>10 DEF vars, TypeOK, WorkerOwnsItsRow, Status
  <2> QED
    BY <1>10, <2>1, SameTable DEF vars
<1> QED
  BY <1>1, <1>2, <1>3, <1>4, <1>5, <1>6, <1>7, <1>8, <1>9, <1>10 DEF Next, WorkerStep

LEMMA InvariantKept == Spec => []MInv
<1>1. ParametersAssumption
  BY ParametersAssumption
<1> QED
  BY <1>1, InitMInv, NextMInv, PTL DEF Spec

-----------------------------------------------------------------------------
(* Theorems *)

\* Every variable keeps its type; in particular the memory queue of
\* queue_worker.py never exceeds QUEUE_MAXSIZE.
THEOREM MensageloTypes == Spec => []TypeOK
<1>1. MInv => TypeOK
  BY DEF MInv
<1> QED
  BY <1>1, InvariantKept, PTL

\* A message is handed to the SMTP server at most once, whatever keys are
\* repeated, left stale in the queue or interrupted (claim_message, init_db).
THEOREM HandedOverAtMostOnce == Spec => []AtMostOnce
<1>1. MInv => AtMostOnce
  BY DEF MInv
<1> QED
  BY <1>1, InvariantKept, PTL

\* A message shown as sent was accepted, and one that waits was not.
THEOREM StatusAlwaysHonest == Spec => []StatusIsHonest
<1>1. MInv => StatusIsHonest
  BY DEF MInv
<1> QED
  BY <1>1, InvariantKept, PTL

\* reserve_message keeps the unfinished rows within QUEUE_MAXSIZE.
THEOREM CapacityAlwaysHolds == Spec => []CapacityHolds
<1>1. MInv => CapacityHolds
  BY DEF MInv
<1> QED
  BY <1>1, InvariantKept, PTL

\* The worker thread delivers and completes only the row it claimed.
THEOREM WorkerAlwaysOwnsItsRow == Spec => []WorkerOwnsItsRow
<1>1. MInv => WorkerOwnsItsRow
  BY DEF MInv
<1> QED
  BY <1>1, InvariantKept, PTL

-----------------------------------------------------------------------------
(* Refinement *)

LEMMA StepIsLedgers == MInv /\ [Next]_vars => [Ledger!Next]_(Ledger!vars)
<1> SUFFICES ASSUME MInv, [Next]_vars PROVE [Ledger!Next]_(Ledger!vars)
  OBVIOUS
<1> DEFINE shown == [j \in Keys |-> Status(j)]
           given == {j \in Keys : accepted[j] > 0}
           held == [j \in DOMAIN rows |-> rows[j].message]
<1>0. TypeOK /\ AtMostOnce /\ StatusIsHonest /\ WorkerOwnsItsRow
  BY DEF MInv
<1>1. CASE UNCHANGED <<rows, accepted>>
  <2>1. \A j \in Keys : Status(j)' = Status(j)
    BY <1>1 DEF Status
  <2>2. shown' = shown /\ given' = given /\ held' = held
    BY <1>1, <2>1
  <2> QED
    BY <2>2 DEF Ledger!vars
<1>2. ASSUME NEW k \in Keys, NEW m \in Messages, Reserve(k, m) PROVE Ledger!Next
  <2>1. /\ k \notin DOMAIN rows /\ Status(k) = "absent"
        /\ rows' = [j \in DOMAIN rows \cup {k} |->
                      IF j = k
                      THEN [message |-> m, status |-> "pending",
                            created |-> clock, updated |-> clock]
                      ELSE rows[j]]
        /\ accepted' = accepted
    BY <1>0, <1>2 DEF Reserve, Status, TypeOK, Row
  <2>2. Status(k)' = "pending" /\ \A j \in Keys \ {k} : Status(j)' = Status(j)
    BY <2>1 DEF Status
  <2>3. shown[k] = "absent" /\ shown' = [shown EXCEPT ![k] = "pending"]
    BY <2>1, <2>2
  <2>4. held' = [j \in DOMAIN held \cup {k} |-> IF j = k THEN m ELSE held[j]]
    BY <2>1
  <2>5. given' = given
    BY <2>1
  <2>6. Ledger!Accept(k, m)
    BY <2>3, <2>4, <2>5 DEF Ledger!Accept
  <2> QED
    BY <2>6 DEF Ledger!Next
<1>3. ASSUME NEW k \in Keys, Claim(k) PROVE Ledger!Next
  <2>1. /\ k \in DOMAIN rows /\ Status(k) = "pending"
        /\ rows' = Set(k, "processing")
        /\ accepted' = accepted
    BY <1>3 DEF Claim, Claimable, Pending, Status
  <2>2. /\ DOMAIN rows' = DOMAIN rows
        /\ Status(k)' = "processing"
        /\ \A j \in Keys \ {k} : Status(j)' = Status(j)
        /\ \A j \in DOMAIN rows : rows'[j].message = rows[j].message
    BY <1>0, <2>1, SetStatus
  <2>3. shown[k] = "pending" /\ shown' = [shown EXCEPT ![k] = "processing"]
    BY <2>1, <2>2
  <2>4. held' = held /\ given' = given
    BY <2>1, <2>2
  <2>5. Ledger!Claim(k)
    BY <2>3, <2>4 DEF Ledger!Claim
  <2> QED
    BY <2>5 DEF Ledger!Next
<1>4. ASSUME SmtpAccepts PROVE Ledger!Next
  <2>1. Status(worker.key) = "processing" /\ accepted[worker.key] = 0
    BY <1>0, <1>4 DEF WorkerOwnsItsRow, SmtpAccepts
  <2>2. PICK k \in Keys : k = worker.key
    BY <1>0, <2>1 DEF Status, TypeOK
  <2>3. rows' = rows /\ accepted' = [accepted EXCEPT ![k] = @ + 1]
    BY <1>4, <2>2 DEF SmtpAccepts
  <2>4. accepted'[k] = 1 /\ \A j \in Keys \ {k} : accepted'[j] = accepted[j]
    BY <1>0, <2>1, <2>2, <2>3 DEF TypeOK
  <2>5. k \notin given /\ given' = given \cup {k}
    BY <2>1, <2>2, <2>4
  <2>6. \A j \in Keys : Status(j)' = Status(j)
    BY <2>3 DEF Status
  <2>7. shown' = shown /\ held' = held /\ shown[k] = "processing"
    BY <2>1, <2>2, <2>3, <2>6
  <2>8. Ledger!Deliver(k)
    BY <2>5, <2>7 DEF Ledger!Deliver
  <2> QED
    BY <2>8 DEF Ledger!Next
<1>5. ASSUME NEW later \in {0, 1}, Complete(later) PROVE Ledger!Next
  <2>1. Status(worker.key) = "processing" /\ (worker.ok => accepted[worker.key] = 1)
    BY <1>0, <1>5 DEF WorkerOwnsItsRow, Complete
  <2>2. PICK k \in DOMAIN rows : k = worker.key /\ k \in Keys /\ Status(k) = "processing"
    BY <1>0, <2>1 DEF Status, TypeOK
  <2>3. PICK s \in {"sent", "failed"} : s = IF worker.ok THEN "sent" ELSE "failed"
    OBVIOUS
  <2>4. rows' = Set(k, s) /\ accepted' = accepted
    BY <1>5, <2>2, <2>3 DEF Complete
  <2>5. /\ DOMAIN rows' = DOMAIN rows
        /\ Status(k)' = s
        /\ \A j \in Keys \ {k} : Status(j)' = Status(j)
        /\ \A j \in DOMAIN rows : rows'[j].message = rows[j].message
    BY <1>0, <2>2, <2>4, SetStatus
  <2>6. shown[k] = "processing" /\ shown' = [shown EXCEPT ![k] = s]
    BY <2>2, <2>5
  <2>7. held' = held /\ given' = given
    BY <2>4, <2>5
  <2>8. s = "sent" => k \in given
    BY <2>1, <2>2, <2>3
  <2>9. Ledger!Finish(k)
    BY <2>6, <2>7, <2>8 DEF Ledger!Finish
  <2> QED
    BY <2>2, <2>9 DEF Ledger!Next
<1>6. CASE Start
  <2>1. rows' = Interrupted /\ accepted' = accepted
    BY <1>6 DEF Start
  <2>2. DOMAIN rows' = DOMAIN rows
    BY <2>1 DEF Interrupted
  <2>3. \A j \in DOMAIN rows :
            rows'[j] = IF rows[j].status = "processing"
                       THEN [rows[j] EXCEPT !.status = "failed", !.updated = clock]
                       ELSE rows[j]
    BY <2>1 DEF Interrupted
  <2>4. \A j \in Keys :
            Status(j)' = IF Status(j) = "processing" THEN "failed" ELSE Status(j)
    BY <1>0, <2>2, <2>3 DEF Status, TypeOK, Row
  <2>5. \A j \in DOMAIN rows : rows'[j].message = rows[j].message
    BY <1>0, <2>3 DEF TypeOK, Row
  <2>6. shown' = [j \in Keys |-> IF shown[j] = "processing" THEN "failed" ELSE shown[j]]
    BY <2>4
  <2>7. held' = held /\ given' = given
    BY <2>1, <2>2, <2>5
  <2>8. Ledger!GiveUp
    BY <2>6, <2>7 DEF Ledger!GiveUp
  <2> QED
    BY <2>8 DEF Ledger!Next
<1>7. CASE (\E k \in Keys : Put(k)) \/ GetKey \/ Poll \/ PollFails \/ ClaimNothing
           \/ ClaimFails \/ SmtpRefuses \/ CompleteFails \/ Crash \/ Tick \/ UNCHANGED vars
  BY <1>1, <1>7 DEF Put, GetKey, Poll, PollFails, ClaimNothing, ClaimFails, SmtpRefuses,
                    CompleteFails, Crash, Tick, vars
<1> QED
  BY <1>2, <1>3, <1>4, <1>5, <1>6, <1>7 DEF Next, WorkerStep

\* The mail service implements the ledger its clients rely on: a key is bound
\* to one message for ever, and its status only moves forward.
THEOREM MensageloImplementsLedger == Spec => ImplementsLedger
<1>1. Init => Ledger!Init
  <2> SUFFICES ASSUME Init PROVE Ledger!Init
    OBVIOUS
  <2>1. rows = [k \in {} |-> {}] /\ DOMAIN rows = {} /\ accepted = [k \in Keys |-> 0]
    BY DEF Init
  <2>2. \A k \in Keys : Status(k) = "absent"
    BY <2>1 DEF Status
  <2>3. [k \in DOMAIN rows |-> rows[k].message] = [k \in {} |-> {}]
    BY <2>1
  <2> QED
    BY <2>1, <2>2, <2>3 DEF Ledger!Init
<1> QED
  BY <1>1, StepIsLedgers, InvariantKept, PTL DEF Spec, ImplementsLedger, Ledger!Spec
=============================================================================
