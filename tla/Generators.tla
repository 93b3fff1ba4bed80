----------------------------- MODULE Generators -----------------------------
(***************************************************************************)
(* generator-collector-service: one supervised thread per generator reads  *)
(* the breakers of the mains and of the generator (server_ge_estivariz.py, *)
(* server_ge_fontana.py), stores them in the cache the threads share       *)
(* (generator_state.py), feeds the outbox modbus-generators and publishes  *)
(* what changed since the last confirmed publication.                      *)
(*                                                                         *)
(* The cache writes its file and then its memory under a lock, and a new   *)
(* process reads the file: between the two only a crash can come, after    *)
(* which both are the file.  One variable is therefore both.  The outbox   *)
(* is a map from alarm to observed condition, as in module GrdCollector.   *)
(***************************************************************************)
EXTENDS Integers, FiniteSets

CONSTANTS
    Gensets,     \* the generators
    GroupShown,  \* those whose topic shows the generator's breaker too
    MaxChanges,  \* bound: movements of the breakers
    MaxFaults    \* bound: readings, writes and publications that fail, restarts

VARIABLES
    breakers,   \* where the breakers are
    gauges,     \* GeneratorStateCache: the last reading of each generator
    running,    \* the outbox: condition observed of each alarm
    told,       \* _last_signature, {} for None
    genTopic,   \* what the broker keeps of each generator, {} for nothing
    echoed,     \* history: did an unconfirmed publication reach the broker?
    worker,     \* where each thread is, and what it has read
    changes, faults

genVars == <<breakers, gauges, running, told, genTopic, echoed, worker, changes, faults>>

Positions == {"abierto", "cerrado"}
Unread == [status |-> "unavailable", mains |-> "incierto", group |-> "incierto"]
Resting == [at |-> "asleep", item |-> Unread]

Init ==
    /\ breakers = [g \in Gensets |-> [mains |-> "cerrado", group |-> "abierto"]]
    /\ gauges = [g \in Gensets |-> Unread]
    /\ running = [g \in Gensets |-> "unknown"]
    /\ told = [g \in Gensets |-> {}]
    /\ genTopic = told
    /\ echoed = [g \in Gensets |-> FALSE]
    /\ worker = [g \in Gensets |-> Resting]
    /\ changes = 0 /\ faults = 0

Fault == faults < MaxFaults /\ faults' = faults + 1

\* A breaker moves; the two are moved one after the other.
Move(g) ==
    /\ changes < MaxChanges /\ changes' = changes + 1
    /\ \E b \in {"mains", "group"} :
         \E p \in Positions \ {breakers[g][b]} : breakers' = [breakers EXCEPT ![g][b] = p]
    /\ UNCHANGED <<gauges, running, told, genTopic, echoed, worker, faults>>

At(g, place) == worker[g].at = place
Goto(g, place) == worker' = [worker EXCEPT ![g].at = place]

\* What is published of a reading.
Signature(g, item) ==
    [status |-> item.status, mains |-> item.mains,
     group |-> IF g \in GroupShown THEN item.group ELSE "incierto"]

-----------------------------------------------------------------------------
(* _run_cycle.                                                             *)

Measured(g) == [status |-> "available", mains |-> breakers[g].mains,
                group |-> breakers[g].group]

\* A reading that failed keeps the positions of the one before.
Failed(g) ==
    [gauges[g] EXCEPT !.status = IF gauges[g].mains = "incierto" THEN "unavailable"
                                 ELSE "stale"]

Read(g) ==
    /\ At(g, "asleep")
    /\ \/ /\ worker' = [worker EXCEPT ![g] = [at |-> "store", item |-> Measured(g)]]
          /\ UNCHANGED faults
       \/ /\ Fault
          /\ worker' = [worker EXCEPT ![g] = [at |-> "store", item |-> Failed(g)]]
    /\ UNCHANGED <<breakers, gauges, running, told, genTopic, echoed, changes>>

\* A failed reading is stored and published, and tells the alarms nothing.
Store(g) ==
    /\ At(g, "store")
    /\ gauges' = [gauges EXCEPT ![g] = worker[g].item]
    /\ Goto(g, IF worker[g].item.status = "available" THEN "observe" ELSE "publish")
    /\ UNCHANGED <<breakers, running, told, genTopic, echoed, changes, faults>>

Observe(g) ==
    /\ At(g, "observe")
    /\ running' = [running EXCEPT ![g] = IF worker[g].item.group = "cerrado"
                                         THEN "on" ELSE "off"]
    /\ Goto(g, "publish")
    /\ UNCHANGED <<breakers, gauges, told, genTopic, echoed, changes, faults>>

\* Only a confirmed publication changes the signature that later ones are
\* compared with; one that was not confirmed may have reached the broker.
Publish(g) ==
    LET new == Signature(g, worker[g].item) IN
    /\ At(g, "publish")
    /\ \/ /\ told[g] = {new}
          /\ UNCHANGED <<told, genTopic, echoed, faults>>
       \/ /\ told[g] # {new}
          /\ told' = [told EXCEPT ![g] = {new}]
          /\ genTopic' = [genTopic EXCEPT ![g] = {new}]
          /\ UNCHANGED <<echoed, faults>>
       \/ /\ told[g] # {new} /\ Fault
          /\ \/ UNCHANGED <<genTopic, echoed>>
             \/ /\ genTopic' = [genTopic EXCEPT ![g] = {new}]
                /\ echoed' = [echoed EXCEPT ![g] = TRUE]
          /\ UNCHANGED told
    /\ Goto(g, "asleep")
    /\ UNCHANGED <<breakers, gauges, running, changes>>

\* An error of the disk ends the thread; the supervisor starts it again.
WriteFails(g) ==
    /\ At(g, "store") \/ At(g, "observe")
    /\ Fault /\ Goto(g, "asleep")
    /\ UNCHANGED <<breakers, gauges, running, told, genTopic, echoed, changes>>

Restart ==
    /\ Fault
    /\ told' = [g \in Gensets |-> {}]
    /\ worker' = [g \in Gensets |-> Resting]
    /\ UNCHANGED <<breakers, gauges, running, genTopic, echoed, changes>>

Step(g) == Read(g) \/ Store(g) \/ Observe(g) \/ Publish(g)

-----------------------------------------------------------------------------
Item == [status : {"available", "stale", "unavailable"},
         mains : Positions \cup {"incierto"}, group : Positions \cup {"incierto"}]

TypeOK ==
    /\ breakers \in [Gensets -> [mains : Positions, group : Positions]]
    /\ gauges \in [Gensets -> Item]
    /\ running \in [Gensets -> {"unknown", "on", "off"}]
    /\ \A g \in Gensets : told[g] \subseteq Item /\ Cardinality(told[g]) <= 1
    /\ \A g \in Gensets : genTopic[g] \subseteq Item /\ Cardinality(genTopic[g]) <= 1
    /\ echoed \in [Gensets -> BOOLEAN]
    /\ worker \in [Gensets -> [at : {"asleep", "store", "observe", "publish"}, item : Item]]

\* A reading of this cycle found the generator's breaker open.
Evidence(g) ==
    /\ At(g, "observe")
    /\ worker[g].item.status = "available" /\ worker[g].item.group = "abierto"

\* The alarm and the cache are what the breakers are, and so is the topic unless
\* a publication that was given up had reached it.
Agrees ==
    \A g \in Gensets :
        /\ running[g] = (IF breakers[g].group = "cerrado" THEN "on" ELSE "off")
        /\ At(g, "asleep") => gauges[g] = Measured(g)
        /\ At(g, "asleep") /\ ~echoed[g] => genTopic[g] = {Signature(g, Measured(g))}
=============================================================================
