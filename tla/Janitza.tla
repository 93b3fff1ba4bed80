------------------------------ MODULE Janitza -------------------------------
(***************************************************************************)
(* The collector of the Janitza analysers.  One thread reads them in turn: *)
(* the ratios of the transformers once, then the electrical values and the *)
(* powers, looking at the operator's flag between the readings.  What is   *)
(* stored at the end starts from the item as it was when the turn began.   *)
(***************************************************************************)
EXTENDS Integers, FiniteSets

CONSTANTS Analyzers, MaxRequests, MaxFaults

VARIABLES
    items,      \* what is known of each analyser, in memory and ...
    itemsFile,  \* ... on disk
    observed,   \* the operator's flag, in memory and ...
    observedFile, \* ... on disk
    turn,       \* where the thread is
    changes, faults

janitzaVars == <<items, itemsFile, observed, observedFile, turn>>
vars == <<janitzaVars, changes, faults>>

\* Ratios and measurements are there or not; a status is what the web shows, and
\* "pending" is also an item that has no status yet.
Pending == [status |-> "pending", measured |-> FALSE, ratios |-> FALSE]
Resting == [at |-> "asleep", analyzer |-> CHOOSE a \in Analyzers : TRUE, todo |-> {},
            current |-> Pending, ratios |-> FALSE]

Init ==
    /\ items = [a \in Analyzers |-> Pending] /\ itemsFile = items
    /\ observed = TRUE /\ observedFile = TRUE
    /\ turn = Resting
    /\ changes = 0 /\ faults = 0

Fail == faults < MaxFaults /\ faults' = faults + 1

-----------------------------------------------------------------------------
(* The file first, then memory.                                            *)

Update(a, item) ==
    /\ itemsFile' = [items EXCEPT ![a] = item]
    /\ items' = itemsFile'

SetEnabled(value) ==
    /\ changes < MaxRequests
    /\ changes' = changes + 1
    /\ \/ observedFile' = value /\ observed' = value /\ UNCHANGED faults
       \/ Fail /\ UNCHANGED <<observed, observedFile>>
    /\ UNCHANGED <<items, itemsFile, turn>>

-----------------------------------------------------------------------------
(* One round of the thread.                                                *)

Wake ==
    /\ turn.at = "asleep"
    /\ turn' = [turn EXCEPT !.at = "next", !.todo = Analyzers]
    /\ UNCHANGED <<items, itemsFile, observed, observedFile, changes, faults>>

Sleep ==
    /\ turn.at = "next" /\ (turn.todo = {} \/ ~observed)
    /\ turn' = Resting
    /\ UNCHANGED <<items, itemsFile, observed, observedFile, changes, faults>>

Collect(a) ==
    /\ turn.at = "next" /\ observed /\ a \in turn.todo
    /\ turn' = [turn EXCEPT !.at = "ratios", !.analyzer = a, !.todo = @ \ {a},
                            !.current = items[a], !.ratios = items[a].ratios]
    /\ UNCHANGED <<items, itemsFile, observed, observedFile, changes, faults>>

Continue(at) == turn' = [turn EXCEPT !.at = at]

\* Ratios once learnt are not read again; new ones are stored at once.
LoadRatios ==
    /\ turn.at = "ratios"
    /\ \/ /\ turn.ratios
          /\ Continue("electrical")
          /\ UNCHANGED <<items, itemsFile, faults>>
       \/ /\ ~turn.ratios
          /\ Update(turn.analyzer, [turn.current EXCEPT !.ratios = TRUE])
          /\ turn' = [turn EXCEPT !.at = "electrical", !.ratios = TRUE]
          /\ UNCHANGED faults
       \/ /\ ~turn.ratios
          /\ Fail /\ Continue("lost")
          /\ UNCHANGED <<items, itemsFile>>
    /\ UNCHANGED <<observed, observedFile, changes>>

\* After the ratios and after the electrical values a flag that was lowered ends
\* the turn without a trace, whatever came of the reading.
Withdraw ==
    /\ turn.at \in {"electrical", "powers", "lost"} /\ ~observed
    /\ Continue("next")
    /\ UNCHANGED <<items, itemsFile, observed, observedFile, changes, faults>>

\* The powers are not asked for when the electrical values did not come.
ReadValues ==
    /\ \/ turn.at = "electrical" /\ observed /\ Continue("powers") /\ UNCHANGED faults
       \/ turn.at = "powers" /\ observed /\ Continue("store") /\ UNCHANGED faults
       \/ turn.at = "electrical" /\ observed /\ Fail /\ Continue("lost")
       \/ turn.at = "powers" /\ observed /\ Fail /\ Continue("failed")
    /\ UNCHANGED <<items, itemsFile, observed, observedFile, changes>>

Measurement == [status |-> "available", measured |-> TRUE, ratios |-> TRUE]

\* A mutant of Failure: the item of the beginning is stored as it was.
FailureForgetsRatios ==
    [turn.current EXCEPT !.status = IF turn.current.measured THEN "stale" ELSE "unavailable"]

\* A failed turn keeps the item of its beginning, and the ratios learnt since.
Failure ==
    [turn.current EXCEPT !.status = IF turn.current.measured THEN "stale" ELSE "unavailable",
                         !.ratios = @ \/ turn.ratios]

Store ==
    /\ \/ /\ turn.at = "store"
          /\ Update(turn.analyzer, Measurement)
       \/ /\ turn.at = "failed" \/ (turn.at = "lost" /\ observed)
          /\ Update(turn.analyzer, Failure)
    /\ Continue("next")
    /\ UNCHANGED <<observed, observedFile, changes, faults>>

\* An error of the disk ends the turn of this analyser only.
StoreFails ==
    /\ \/ turn.at = "ratios" /\ ~turn.ratios
       \/ turn.at \in {"store", "failed"}
       \/ turn.at = "lost" /\ observed
    /\ Fail
    /\ Continue("next")
    /\ UNCHANGED <<items, itemsFile, observed, observedFile, changes>>

Restart ==
    /\ Fail
    /\ items' = itemsFile /\ observed' = observedFile
    /\ turn' = Resting
    /\ UNCHANGED <<itemsFile, observedFile, changes>>

Step ==
    \/ Wake \/ Sleep \/ (\E a \in Analyzers : Collect(a))
    \/ LoadRatios \/ Withdraw \/ ReadValues \/ Store

Environment == StoreFails \/ Restart \/ \E value \in BOOLEAN : SetEnabled(value)

Next == Step \/ Environment

Spec == Init /\ [][Next]_vars

-----------------------------------------------------------------------------
Item == [status : {"pending", "available", "stale", "unavailable"}, measured : BOOLEAN,
         ratios : BOOLEAN]

TypeOK ==
    /\ items \in [Analyzers -> Item] /\ itemsFile \in [Analyzers -> Item]
    /\ observed \in BOOLEAN /\ observedFile \in BOOLEAN
    /\ turn \in [at : {"asleep", "next", "ratios", "electrical", "powers", "lost", "failed",
                        "store"},
                 analyzer : Analyzers, todo : SUBSET Analyzers, current : Item,
                 ratios : BOOLEAN]

\* Ratios that were learnt are lost neither to a later failure nor to a restart.
RatiosAreKept ==
    \A a \in Analyzers : items[a].ratios => items'[a].ratios /\ itemsFile'[a].ratios

Agrees == \A a \in Analyzers : items[a].status = "available"
=============================================================================
