----------------------------- MODULE AlarmOutbox -----------------------------
(***************************************************************************)
(* One AlarmGeneratorOutbox at work: observations and confirmations that   *)
(* change the value in memory, the save that makes the change durable      *)
(* (temporary file, fsync, os.replace), the roll back of a save that       *)
(* fails, and a process that may die anywhere and is started again.        *)
(*                                                                         *)
(* Every method holds the outbox's RLock from beginning to end.  A method  *)
(* that saves takes two steps here: the change, which leaves "backup" set, *)
(* and the end of the save.  While "backup" is set the lock is held and no *)
(* other method runs, but the process may die.                             *)
(***************************************************************************)
EXTENDS AlarmGenerator, Sequences

CONSTANTS
    MaxEvents,  \* bound on the edges emitted
    Instants    \* the dates a caller may give, in seconds

ASSUME BoundsAssumption == MaxEvents \in Nat /\ Instants \subseteq Nat

VARIABLES
    up,         \* the service runs
    registered, \* keys of _catalog, which lives in memory only
    state,      \* _state, the value in memory
    backup,     \* <<copy>> while _persistent_change holds one, <<>> otherwise
    file,       \* the state file
    emitted     \* history: every edge ever made durable, in order

vars == <<up, registered, state, backup, file, emitted>>

\* No change is under way: the lock is free.
Free == backup = <<>>

-----------------------------------------------------------------------------
\* Mutants of the actions below.
AcknowledgeUnguarded(n) ==
    /\ up /\ Free
    /\ n > state.acked
    /\ backup' = <<state>>
    /\ state' = Acknowledged(state, n)
    /\ UNCHANGED <<up, registered, file, emitted>>

SaveFailsNoRollback ==
    /\ up /\ ~Free
    /\ backup' = <<>>
    /\ UNCHANGED <<up, registered, state, file, emitted>>

-----------------------------------------------------------------------------
Init ==
    /\ up = TRUE
    /\ registered = {}
    /\ state = EmptyOutbox
    /\ backup = <<>>
    /\ file = EmptyOutbox
    /\ emitted = <<>>

Register(a) ==
    /\ up /\ Free
    /\ registered' = registered \cup {a}
    /\ UNCHANGED <<up, state, backup, file, emitted>>

\* observe: an unregistered alarm raises KeyError, a repeated value at most
\* saves new texts, a new value changes the condition and may add an edge.  The
\* date is the caller's: its form is checked, its order is not, and it may lie
\* before that of the edge before.
Observe(a, v, at) ==
    /\ up /\ Free
    /\ a \in registered
    /\ state.conditions[a].value # v
    /\ state.next <= MaxEvents
    /\ backup' = <<state>>
    /\ state' = Observed(state, a, v, at)
    /\ UNCHANGED <<up, registered, file, emitted>>

\* acknowledge: the consumer may send any number, early, late or twice.
Acknowledge(n) ==
    /\ up /\ Free
    /\ AckAccepted(state, n)
    /\ n > state.acked
    /\ backup' = <<state>>
    /\ state' = Acknowledged(state, n)
    /\ UNCHANGED <<up, registered, file, emitted>>

\* os.replace: the state file changes all at once.
Replace ==
    /\ file' = state
    /\ emitted' = IF state.next > file.next
                  THEN Append(emitted, state.events[file.next])
                  ELSE emitted

SaveSucceeds ==
    /\ up /\ ~Free
    /\ Replace
    /\ backup' = <<>>
    /\ UNCHANGED <<up, registered, state>>

\* The save raises before os.replace: _persistent_change restores the copy.
SaveFails ==
    /\ up /\ ~Free
    /\ state' = backup[1]
    /\ backup' = <<>>
    /\ UNCHANGED <<up, registered, file, emitted>>

\* The process dies; during a save, before or after the file was replaced.
Crash ==
    /\ up
    /\ up' = FALSE
    /\ registered' = {}
    /\ backup' = <<>>
    /\ \/ UNCHANGED <<file, emitted>>
       \/ ~Free /\ Replace
    /\ state' = EmptyOutbox

\* __init__ and _load: a file that fails the validation stops the service.
Start ==
    /\ ~up
    /\ Loadable(file)
    /\ up' = TRUE
    /\ state' = file
    /\ UNCHANGED <<registered, backup, file, emitted>>

Next ==
    \/ \E a \in Alarms : Register(a)
    \/ \E a \in Alarms, v \in Values, at \in Instants : Observe(a, v, at)
    \/ \E n \in 0 .. MaxEvents + 1 : Acknowledge(n)
    \/ SaveSucceeds
    \/ SaveFails
    \/ Crash
    \/ Start

Spec == Init /\ [][Next]_vars

-----------------------------------------------------------------------------
(* Properties *)

\* The edge at a position of the log is the last one of its alarm.
IsLastEdge(l, i) == \A j \in (i + 1) .. Len(l) : l[j].alarm # l[i].alarm

\* Every variable holds a value of its kind, and the value in memory and the
\* copy that a failing save brings back have consecutive identifiers; FileLoads
\* says so of the file.
TypeOK ==
    /\ up \in BOOLEAN
    /\ registered \in SUBSET Alarms
    /\ Loadable(state)
    /\ Free \/ (Len(backup) = 1 /\ Loadable(backup[1]))
    /\ emitted \in Seq(Edge)

\* Whatever was interrupted, the file the service will find when it starts
\* passes the validation of _load, so a crash never leaves it unable to start.
FileLoads == Loadable(file)

\* GET /events and /catalog run only with the lock free, and then serve exactly
\* what a restart would serve: no edge is delivered that could be taken back.
ServedIsDurable == up /\ Free => state = file

\* Every edge ever made durable and not yet confirmed is still in the file,
\* unchanged and under its own number (observe, acknowledge, _save together).
NoEdgeLost ==
    /\ Len(emitted) = file.next - 1
    /\ \A i \in (file.acked + 1) .. Len(emitted) :
           i \in DOMAIN file.events /\ file.events[i] = emitted[i]

\* The condition shown in the catalogue is the one the last edge of the alarm
\* left, and an alarm without edges is not active: a reader that applies the
\* edges in order ends with the condition the catalogue shows.
ConditionFollowsEdges ==
    /\ \A i \in 1 .. Len(emitted) :
           IsLastEdge(emitted, i) =>
               file.conditions[emitted[i].alarm]
                   = [value |-> emitted[i].value, since |-> emitted[i].at]
    /\ \A a \in Alarms :
           (\A i \in 1 .. Len(emitted) : emitted[i].alarm # a)
               => file.conditions[a].value # "on"

\* The outbox implements the log of alternating edges its consumer relies on.
Log == INSTANCE EdgeLog WITH
    log       <- emitted,
    confirmed <- file.acked

ImplementsEdgeLog == Log!Spec
=============================================================================
