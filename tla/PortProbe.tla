----------------------------- MODULE PortProbe ------------------------------
(***************************************************************************)
(* The external check of a TCP port (globalping_probe.py, tcp_probe.py):   *)
(* Globalping is asked first, and Check-Host when it comes to no verdict,  *)
(* up to twice with other probes.  A measurement is polled until a probe   *)
(* connected, until every probe of a full batch has failed for a while, or *)
(* until its deadline.                                                     *)
(*                                                                         *)
(* The providers (external) make one measurement per probe at some moment; *)
(* what a poll returns may lag behind, and Check-Host may still turn a     *)
(* failure into a connection.  The order in which Check-Host's probes are  *)
(* preferred, by last use, country and network, is left out: any of the    *)
(* eligible ones may be chosen.                                            *)
(***************************************************************************)
EXTENDS Integers, FiniteSets

CONSTANTS
    Probes,
    MaxNodes,     \* probes asked for at once
    MaxAttempts,  \* of Check-Host
    Primary,      \* "globalping" or "check-host"
    MaxChanges,   \* bound: checks, and changes of the port
    MaxFaults     \* bound: requests that fail, probes that err

VARIABLES
    answering,    \* does the port answer?
    outcome,      \* what each probe of the current measurement has found
    listed,       \* _catalog: the probes Check-Host has
    stale,        \* is the catalogue older than its refresh interval?
    cooling,      \* _cooldown_until: probes that are left alone
    check,        \* the check in progress
    state,        \* the verdict of the last one
    witnessed,    \* history: what the port was during this check
    shut,         \* history: the probes that found it shut in this measurement
    lasting,      \* history: did the whole batch fail in the last poll?
    changes, faults

probeVars == <<answering, outcome, listed, stale, cooling, check, state, witnessed, shut,
               lasting>>
vars == <<probeVars, changes, faults>>

Fetched == [Probes -> {"pendiente", "conectado", "desconectado", "error_nodo"}]
Pending == [n \in Probes |-> "pendiente"]
NoCheck == [at |-> "idle", provider |-> Primary, number |-> 1, excluded |-> {},
            selected |-> {}, nodes |-> Pending, failing |-> FALSE]

Init ==
    /\ answering \in BOOLEAN
    /\ outcome = Pending
    /\ listed = {} /\ stale = TRUE /\ cooling = {}
    /\ check = NoCheck /\ state = "desconocido"
    /\ witnessed = {} /\ shut = {} /\ lasting = FALSE
    /\ changes = 0 /\ faults = 0

Fail == faults < MaxFaults /\ faults' = faults + 1
Change == changes < MaxChanges /\ changes' = changes + 1

-----------------------------------------------------------------------------
(* The port and the providers.                                             *)

Toggle ==
    /\ Change
    /\ answering' = ~answering
    /\ witnessed' = IF check.at = "idle" THEN {} ELSE witnessed \cup {~answering}
    /\ UNCHANGED <<outcome, listed, stale, cooling, check, state, shut, lasting, faults>>

Measure(n) ==
    /\ check.at = "poll" /\ n \in check.selected
    /\ \/ /\ outcome[n] = "pendiente"
          /\ outcome' = [outcome EXCEPT ![n] = IF answering THEN "conectado"
                                               ELSE "desconectado"]
          /\ UNCHANGED faults
       \/ /\ outcome[n] = "pendiente" /\ Fail
          /\ outcome' = [outcome EXCEPT ![n] = "error_nodo"]
       \/ /\ outcome[n] = "desconectado" /\ answering /\ Fail
          /\ outcome' = [outcome EXCEPT ![n] = "conectado"]
    /\ shut' = shut \cup {m \in {n} : outcome'[m] = "desconectado"}
    /\ UNCHANGED <<answering, listed, stale, cooling, check, state, witnessed, lasting, changes>>

\* The hour of the catalogue, or the quarter of an hour of a probe, is over.
Expire ==
    /\ check.at = "idle" /\ (~stale \/ cooling # {})
    /\ stale' = TRUE /\ cooling' \in SUBSET cooling
    /\ UNCHANGED <<answering, outcome, listed, check, state, witnessed, shut, lasting, changes,
                   faults>>

-----------------------------------------------------------------------------
(* A check.                                                                *)

Begin ==
    /\ check.at = "idle" /\ Change
    /\ check' = [NoCheck EXCEPT !.at = IF Primary = "globalping" THEN "start" ELSE "nodes"]
    /\ witnessed' = {answering}
    /\ UNCHANGED <<answering, outcome, listed, stale, cooling, state, shut, lasting, faults>>

\* A refresh that fails keeps the catalogue there was.
RefreshNodes ==
    /\ check.at = "nodes"
    /\ \/ ~stale /\ UNCHANGED <<listed, faults>>
       \/ stale /\ listed' \in (SUBSET Probes) \ {{}} /\ UNCHANGED faults
       \/ stale /\ Fail /\ UNCHANGED listed
    /\ stale' = FALSE
    /\ check' = [check EXCEPT !.at = "start"]
    /\ UNCHANGED <<answering, outcome, cooling, state, witnessed, shut, lasting, changes>>

\* The check is over, or goes on with Check-Host.
Verdict(v) ==
    IF v = "desconocido" /\ check.provider = "globalping"
    THEN /\ check' = [NoCheck EXCEPT !.at = "nodes", !.provider = "check-host"]
         /\ UNCHANGED state
    ELSE /\ check' = NoCheck /\ state' = v

\* Another attempt is made with probes that were not asked yet, if there are any.
Attempted(v, excluded) ==
    IF v = "desconocido" /\ check.provider = "check-host" /\ check.number < MaxAttempts
    THEN /\ check' = [NoCheck EXCEPT !.at = "start", !.provider = "check-host",
                                     !.number = check.number + 1, !.excluded = excluded]
         /\ UNCHANGED state
    ELSE Verdict(v)

Eligible == (listed \ check.excluded) \ cooling
Smaller(m, n) == IF m < n THEN m ELSE n

\* _choose_nodes: as many as are wanted, or all there are.
Candidates ==
    {c \in SUBSET Eligible : Cardinality(c) = Smaller(MaxNodes, Cardinality(Eligible))}

NoneLeft ==
    /\ check.at = "start" /\ check.provider = "check-host"
    /\ Eligible = {} /\ (check.number > 1 \/ listed # {})
    /\ Verdict("desconocido")
    /\ UNCHANGED <<answering, outcome, listed, stale, cooling, witnessed, shut, lasting, changes,
                   faults>>

\* With Globalping always, and without a catalogue, the provider chooses.
ProviderChooses == check.provider = "globalping" \/ (listed = {} /\ check.number = 1)

StartCheck ==
    /\ check.at = "start"
    /\ \E candidates \in IF ProviderChooses THEN {Probes} ELSE Candidates \ {{}} :
         /\ \/ \E selected \in (SUBSET candidates) \ {{}} :
                 /\ Cardinality(selected) <= MaxNodes
                 /\ check' = [check EXCEPT !.at = "poll", !.selected = selected]
                 /\ UNCHANGED <<state, faults>>
            \/ Fail /\ Attempted("desconocido", check.excluded \cup
                                     (IF ProviderChooses THEN {} ELSE candidates))
            \/ Fail /\ Verdict("desconocido") \* the provider's rate limit
    /\ outcome' = Pending /\ shut' = {} /\ lasting' = FALSE
    /\ UNCHANGED <<answering, listed, stale, cooling, witnessed, changes>>

\* What a poll gives for a probe may be older than what it has found.
Answers == {f \in Fetched : \A n \in Probes : f[n] \in {"pendiente", outcome[n]}}

\* Check-Host only: a connection stays, and so does a failure while nothing new
\* is known of the probe.
Merged(n, latest) ==
    IF \/ check.nodes[n] = "conectado"
       \/ check.nodes[n] = "desconectado" /\ latest[n] = "pendiente"
    THEN check.nodes[n] ELSE latest[n]

Latest(latest) ==
    IF check.provider = "check-host" THEN [n \in Probes |-> Merged(n, latest)] ELSE latest

Count(nodes, status) == Cardinality({n \in check.selected : nodes[n] = status})

\* A mutant of AllFailed: a probe that erred counts as one that failed.
AllFailedOrErred(nodes) ==
    Count(nodes, "desconectado") + Count(nodes, "error_nodo") = MaxNodes

AllFailed(nodes) == Count(nodes, "desconectado") = MaxNodes

\* Probes that gave no result are left alone for a while.
Cooled(nodes) ==
    IF check.provider = "globalping" THEN cooling
    ELSE (cooling \cup {n \in check.selected : nodes[n] \in {"pendiente", "error_nodo"}})
             \ {n \in check.selected : nodes[n] = "conectado"}

Concluded(v, nodes) ==
    /\ Attempted(v, check.excluded \cup check.selected)
    /\ cooling' = IF v = "abierto"
                  THEN Cooled([n \in Probes |-> IF nodes[n] = "pendiente" THEN "no_esperado"
                                                ELSE nodes[n]])
                  ELSE Cooled(nodes)

Poll ==
    /\ check.at = "poll"
    /\ \E answer \in Answers :
         LET nodes == Latest(answer) IN
         /\ \/ /\ Count(nodes, "conectado") > 0
               /\ Concluded("abierto", nodes)
            \/ \* the failure has lasted as long as it must
               /\ AllFailed(nodes) /\ check.failing
               /\ Concluded("cerrado", nodes)
            \/ /\ AllFailed(nodes)
               /\ check' = [check EXCEPT !.nodes = nodes, !.failing = TRUE]
               /\ UNCHANGED <<cooling, state>>
            \/ /\ Count(nodes, "conectado") = 0 /\ ~AllFailed(nodes)
               /\ IF Count(nodes, "pendiente") = 0
                  THEN Concluded("desconocido", nodes)
                  ELSE /\ check' = [check EXCEPT !.nodes = nodes, !.failing = FALSE]
                       /\ UNCHANGED <<cooling, state>>
         /\ lasting' = AllFailed(nodes)
    /\ UNCHANGED <<answering, outcome, listed, stale, witnessed, shut, changes, faults>>

\* The time given to a measurement is over, or polling it is refused by the
\* provider's rate limit (which Check-Host's attempts end at).
Deadline ==
    /\ check.at = "poll"
    /\ \/ Concluded("desconocido", check.nodes) /\ UNCHANGED faults
       \/ Fail /\ Verdict("desconocido") /\ UNCHANGED cooling
    /\ UNCHANGED <<answering, outcome, listed, stale, witnessed, shut, lasting, changes>>

Step == RefreshNodes \/ NoneLeft \/ StartCheck \/ Poll \/ Deadline

Environment == Toggle \/ Expire \/ Begin \/ \E n \in Probes : Measure(n)

Next == Step \/ Environment

Spec == Init /\ [][Next]_vars

-----------------------------------------------------------------------------
TypeOK ==
    /\ answering \in BOOLEAN /\ outcome \in Fetched
    /\ listed \subseteq Probes /\ stale \in BOOLEAN /\ cooling \subseteq Probes
    /\ check \in [at : {"idle", "nodes", "start", "poll"},
                  provider : {"globalping", "check-host"}, number : 1 .. MaxAttempts,
                  excluded : SUBSET Probes, selected : SUBSET Probes, nodes : Fetched,
                  failing : BOOLEAN]
    /\ state \in {"abierto", "cerrado", "desconocido"}
    /\ witnessed \subseteq BOOLEAN /\ shut \subseteq Probes /\ lasting \in BOOLEAN

\* What a measurement concludes is what the port was at some moment of this
\* check; that it is shut was found by every probe of a full batch, none of which
\* had been asked before, and by two polls in a row.
Witnessed ==
    check.at = "poll" /\ check'.at = "idle" =>
        /\ state' = "abierto" => TRUE \in witnessed
        /\ state' = "cerrado" =>
              /\ FALSE \in witnessed
              /\ check.selected \cap check.excluded = {}
              /\ check.selected \subseteq shut
              /\ Cardinality(check.selected) = MaxNodes
              /\ lasting

VerdictsAreWitnessed == [][Witnessed]_vars

\* A check that was begun is over.
Agrees == check.at = "idle"
=============================================================================
