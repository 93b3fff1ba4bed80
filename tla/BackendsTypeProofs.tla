------------------------- MODULE BackendsTypeProofs --------------------------
(***************************************************************************)
(* Type correctness of the services of Backends.  Most of it rests on the  *)
(* invariants of BackendsProofs; what is new are the bounds: the attempts  *)
(* and the queue of Lechu, the attempts of a check, the records of GWF     *)
(* between those that expired and those that came, and the recordings and  *)
(* faults of a relay, which everything that is read of it stays within.    *)
(***************************************************************************)
EXTENDS BackendsProofs

-----------------------------------------------------------------------------
(***************************************************************************)
(* The MQTT session of Lechu                                               *)
(***************************************************************************)
Watch == [at : {"asleep", "starting", "send"},
          read : {"conectado", "desconectado", "none"},
          last : {"conectado", "desconectado", "none"}]

\* Who starts and stops the session, and what is known of the mail server.
SessionKinds ==
    /\ presence \in {"none", "online", "offline"}
    /\ starter \in {"none", "operator", "monitor", "confirmed", "monitor confirmed"}
    /\ wanted \in BOOLEAN /\ looping \in BOOLEAN /\ began \in BOOLEAN
    /\ caller \in BOOLEAN /\ stopping \in {"none", "disconnect", "join", "clear"}
    /\ unconfirmed \in {"none", "now", "before"}

MailKinds ==
    /\ mailTopic \in {"conectado", "desconectado", "none"}
    /\ mailServer \in {"conectado", "desconectado"}
    /\ healthFile \in {"conectado", "desconectado", "none"}
    /\ monitored \in Watch
    /\ silent \in BOOLEAN

LEMMA MqttTyped == MqttInv /\ SessionKinds /\ MailKinds => Mqtt!TypeOK
<1> SUFFICES ASSUME MqttInv, SessionKinds, MailKinds PROVE Mqtt!TypeOK
  OBVIOUS
<1>1. Mqtt!Statuses = {"conectado", "desconectado"}
      /\ Mqtt!Statuses \cup {"none"} = {"conectado", "desconectado", "none"}
  BY DEF Mqtt!Statuses
<1> QED
  BY <1>1, Zenon DEF Mqtt!TypeOK, MqttInv, MqttShapes, SessionKinds, MailKinds, Watch

LEMMA KindsInit == Mqtt!Init => SessionKinds /\ MailKinds
<1>1. Mqtt!Init => SessionKinds
  BY DEF Mqtt!Init, SessionKinds
<1>2. Mqtt!Init => MailKinds
  <2>1. Mqtt!Watching \in Watch
    BY DEF Mqtt!Watching, Watch
  <2> QED
    BY <2>1 DEF Mqtt!Init, MailKinds
<1> QED
  BY <1>1, <1>2

LEMMA SessionStep ==
    ASSUME SessionKinds, Mqtt!Next \/ UNCHANGED ofMqtt PROVE SessionKinds'
<1> USE DEF SessionKinds
<1>1. CASE Mqtt!Lose
  BY <1>1 DEF Mqtt!Lose, Mqtt!Cut, Mqtt!sessionVars
<1>2. CASE Mqtt!Network
  <2>1. CASE Mqtt!Connect
    BY <2>1 DEF Mqtt!Connect
  <2>2. CASE Mqtt!OnConnect
    BY <2>2 DEF Mqtt!OnConnect, Mqtt!Announce, Mqtt!Says
  <2>3. CASE Mqtt!Repeat
    BY <2>3 DEF Mqtt!Repeat, Mqtt!statusVars
  <2>4. CASE Mqtt!OnDisconnect
    BY <2>4 DEF Mqtt!OnDisconnect, Mqtt!brokerVars, Mqtt!statusVars
  <2> QED
    BY <1>2, <2>1, <2>2, <2>3, <2>4 DEF Mqtt!Network
<1>3. CASE Mqtt!Call
  BY <1>3 DEF Mqtt!Call, Mqtt!Enter, Mqtt!brokerVars, Mqtt!statusVars
<1>4. CASE Mqtt!Started
  BY <1>4 DEF Mqtt!Started, Mqtt!brokerVars, Mqtt!statusVars
<1>5. CASE Mqtt!Confirm
  BY <1>5 DEF Mqtt!Confirm, Mqtt!brokerVars, Mqtt!statusVars
<1>6. CASE Mqtt!Stopping
  BY <1>6 DEF Mqtt!Stopping, Mqtt!StopDisconnects, Mqtt!StopJoins, Mqtt!Stopped,
              Mqtt!brokerVars, Mqtt!statusVars
<1>7. CASE Mqtt!RpcStarts
  BY <1>7 DEF Mqtt!RpcStarts, Mqtt!sessionVars, Mqtt!statusVars
<1>8. CASE Mqtt!SwitchOn
  BY <1>8 DEF Mqtt!SwitchOn, Mqtt!brokerVars, Mqtt!statusVars
<1>9. CASE Mqtt!StopPublishes
  BY <1>9 DEF Mqtt!StopPublishes, Mqtt!Says
<1>10. CASE Mqtt!Restart
  BY <1>10 DEF Mqtt!Restart, Mqtt!Cut, Mqtt!Booted
<1>11. CASE Mqtt!CheckMail
  BY <1>11 DEF Mqtt!CheckMail, Mqtt!EnsureStarted, Mqtt!Enter, Mqtt!brokerVars,
               Mqtt!statusVars
<1>12. CASE Mqtt!SendHealth \/ Mqtt!MailServerChanges
  <2>1. CASE Mqtt!SendHealth
    BY <2>1 DEF Mqtt!SendHealth, Mqtt!statusVars, Mqtt!sessionVars
  <2>2. CASE Mqtt!MailServerChanges
    BY <2>2 DEF Mqtt!MailServerChanges, Mqtt!brokerVars, Mqtt!statusVars, Mqtt!sessionVars
  <2> QED
    BY <1>12, <2>1, <2>2
<1>13. CASE UNCHANGED ofMqtt
  BY <1>13 DEF ofMqtt
<1> QED
  BY <1>1, <1>2, <1>3, <1>4, <1>5, <1>6, <1>7, <1>8, <1>9, <1>10, <1>11, <1>12, <1>13
  DEF Mqtt!Next, Mqtt!Threads, Mqtt!Environment, Mqtt!MailMonitor

LEMMA Watches ==
    ASSUME MailKinds
    PROVE  /\ Mqtt!Watching \in Watch /\ Mqtt!Sleep \in Watch
           /\ [monitored EXCEPT !.at = "send"] \in Watch
           /\ \A at \in {"starting", "send"} :
                  [monitored EXCEPT !.at = at, !.read = mailServer] \in Watch
           /\ [Mqtt!Sleep EXCEPT !.last = monitored.read] \in Watch
           /\ monitored.read \in {"conectado", "desconectado", "none"}
BY DEF MailKinds, Watch, Mqtt!Watching, Mqtt!Sleep

LEMMA MailStep ==
    ASSUME MailKinds, Mqtt!Next \/ UNCHANGED ofMqtt PROVE MailKinds'
<1>1. CASE UNCHANGED <<mailTopic, mailServer, healthFile, silent>> /\ monitored' \in Watch
  BY <1>1 DEF MailKinds
<1>2. CASE Mqtt!Started
  BY <1>1, <1>2, Watches DEF Mqtt!Started, Mqtt!brokerVars, MailKinds
<1>3. CASE Mqtt!Confirm
  BY <1>1, <1>3, Watches DEF Mqtt!Confirm, Mqtt!brokerVars, MailKinds
<1>4. CASE Mqtt!CheckMail
  <2>1. monitored' \in Watch
    BY <1>4, Watches DEF Mqtt!CheckMail, Mqtt!EnsureStarted, Mqtt!Reads, MailKinds
  <2>2. UNCHANGED <<mailTopic, mailServer, silent>> /\ healthFile' \in {healthFile, mailServer}
    BY <1>4 DEF Mqtt!CheckMail, Mqtt!brokerVars
  <2> QED
    BY <2>1, <2>2 DEF MailKinds
<1>5. CASE Mqtt!SendHealth
  <2>1. UNCHANGED <<mailServer, healthFile>> /\ monitored' \in Watch /\ silent' \in BOOLEAN
        /\ mailTopic' \in {mailTopic, monitored.read}
    BY <1>5, Watches DEF Mqtt!SendHealth
  <2> QED
    BY <2>1, Watches DEF MailKinds
<1>6. CASE Mqtt!MailServerChanges
  <2>1. mailServer' \in {"conectado", "desconectado"}
    BY <1>6 DEF Mqtt!MailServerChanges, Mqtt!Statuses
  <2> QED
    BY <1>6, <2>1 DEF Mqtt!MailServerChanges, Mqtt!brokerVars, MailKinds
<1>7. CASE Mqtt!Restart
  BY <1>1, <1>7, Watches DEF Mqtt!Restart, Mqtt!Booted
<1>8. CASE Mqtt!Lose \/ Mqtt!RpcStarts \/ Mqtt!SwitchOn \/ Mqtt!StopPublishes
  BY <1>1, <1>8 DEF Mqtt!Lose, Mqtt!RpcStarts, Mqtt!SwitchOn, Mqtt!StopPublishes, Mqtt!brokerVars,
                    Mqtt!healthVars, MailKinds
<1>9. CASE Mqtt!Network \/ Mqtt!Call \/ Mqtt!Stopping
  BY <1>1, <1>9 DEF Mqtt!Network, Mqtt!Connect, Mqtt!OnConnect, Mqtt!Repeat,
     Mqtt!OnDisconnect, Mqtt!Call, Mqtt!Stopping, Mqtt!StopDisconnects, Mqtt!StopJoins,
     Mqtt!Stopped, Mqtt!brokerVars, Mqtt!healthVars, MailKinds
<1>10. CASE UNCHANGED ofMqtt
  BY <1>1, <1>10 DEF ofMqtt, MailKinds
<1> QED
  BY <1>2, <1>3, <1>4, <1>5, <1>6, <1>7, <1>8, <1>9, <1>10
  DEF Mqtt!Next, Mqtt!Threads, Mqtt!Environment, Mqtt!MailMonitor

-----------------------------------------------------------------------------
(***************************************************************************)
(* The requests of Lechu                                                   *)
(***************************************************************************)
\* The bounds of the queue, of the attempts and of what is counted.
RpcBounds ==
    /\ pending \in [Requests -> Nat]
    /\ Len(inbox) <= QueueSize
    /\ router.request \in Requests
    /\ router.attempt \in 0 .. MaxRetries + 1 /\ router.body \in 0 .. 2
    /\ minute \in 1 .. 2

LEMMA RpcTyped == RpcInv /\ RpcBounds => Rpc!TypeOK
BY DEF RpcInv, RpcShapes, RpcBounds, Rpc!TypeOK, Router

LEMMA RpcWaits ==
    /\ Rpc!Waiting.request \in Requests /\ Rpc!Waiting.attempt = 0 /\ Rpc!Waiting.body = 0
    /\ Rpc!Waiting = [at |-> "wait", request |-> Rpc!Waiting.request, attempt |-> 0,
                      body |-> 0, outcome |-> "none"]
BY SizesAssumption DEF Rpc!Waiting

LEMMA RpcBoundsInit == Rpc!Init => RpcBounds
BY RpcWaits, SizesAssumption DEF Rpc!Init, RpcBounds

\* Who keeps the queue or shortens it, and what the thread does by itself.
LEMMA RouterGoesOn ==
    ASSUME RpcInv, RpcBounds, UNCHANGED <<pending, inbox, minute>>,
           \/ UNCHANGED router \/ router' = Rpc!Waiting
           \/ \E outcomes \in {"ok", "error"} : Rpc!Emit(outcomes)
           \/ Rpc!Repeat
    PROVE  RpcBounds'
<1>1. router \in Router
  BY DEF RpcInv, RpcShapes
<1>2. CASE UNCHANGED router
  BY <1>2 DEF RpcBounds
<1>3. CASE router' = Rpc!Waiting
  BY <1>3, RpcWaits, SizesAssumption DEF RpcBounds
<1>4. CASE \E outcomes \in {"ok", "error"} : Rpc!Emit(outcomes)
  BY <1>1, <1>4 DEF Rpc!Emit, RpcBounds, Router
<1>5. CASE Rpc!Repeat
  <2>1. CASE router.attempt <= MaxRetries
    <3>1. router' = [router EXCEPT !.attempt = router.attempt + 1]
      BY <1>5, <2>1 DEF Rpc!Repeat
    <3>2. router' = [at |-> router.at, request |-> router.request, body |-> router.body,
                     attempt |-> router.attempt + 1, outcome |-> router.outcome]
      BY <1>1, <3>1 DEF Router
    <3> QED
      BY <2>1, <3>2, SizesAssumption DEF RpcBounds
  <2>2. CASE ~(router.attempt <= MaxRetries)
    BY <1>4, <1>5, <2>2 DEF Rpc!Repeat
  <2> QED
    BY <2>1, <2>2
<1> QED
  BY <1>2, <1>3, <1>4, <1>5

LEMMA TakeBounded == ASSUME RpcInv, RpcBounds, Rpc!Take PROVE RpcBounds'
<1> DEFINE r == Head(inbox)
           taken == [Rpc!Waiting EXCEPT !.request = r, !.attempt = 1, !.body = Rpc!Body(r)]
<1>1. r \in Requests /\ Len(inbox') <= QueueSize /\ UNCHANGED <<pending, minute>>
  BY SizesAssumption DEF Rpc!Take, RpcInv, RpcShapes, RpcBounds
<1>2. Rpc!Body(r) \in 0 .. 2
  BY DEF Rpc!Body, RpcBounds
<1>3. /\ taken \in Router /\ taken.request = r /\ taken.attempt = 1
      /\ taken.body \in 0 .. 2
  <2>0. Rpc!Waiting \in Router
    BY DEF Rpc!Waiting, Router
  <2>1. PICK idle \in Router : idle = Rpc!Waiting
    BY <2>0
  <2>2. PICK n \in Int, body \in Nat : n = 1 /\ body \in 0 .. 2 /\ body = Rpc!Body(r)
    BY <1>2
  <2>3. taken = [idle EXCEPT !.request = r, !.attempt = n, !.body = body]
    BY <2>1, <2>2
  <2> HIDE DEF taken, r
  <2> QED
    BY <1>1, <2>2, <2>3 DEF Router
<1>4. \/ router' = Rpc!Waiting
      \/ router' = [taken EXCEPT !.at = "emit", !.outcome = "error"]
      \/ router' = [taken EXCEPT !.at = "ask"]
      \/ router' = [taken EXCEPT !.at = "post"]
      \/ router' = [taken EXCEPT !.at = "dead"]
  BY DEF Rpc!Take
<1> HIDE DEF r, taken
<1>5. router'.request \in Requests /\ router'.attempt \in 0 .. MaxRetries + 1
      /\ router'.body \in 0 .. 2
  <2>1. CASE router' = Rpc!Waiting
    BY <2>1, RpcWaits, SizesAssumption
  <2>2. CASE router' # Rpc!Waiting
    <3>1. router'.request = r /\ router'.attempt = 1 /\ router'.body = taken.body
      BY <1>3, <1>4, <2>2 DEF Router
    <3> QED
      BY <1>1, <1>3, <3>1, SizesAssumption
  <2> QED
    BY <2>1, <2>2
<1> QED
  BY <1>1, <1>5 DEF RpcBounds

LEMMA RpcStaysBounded ==
    ASSUME RpcInv, RpcBounds, Rpc!Next \/ UNCHANGED ofRpc PROVE RpcBounds'
<1>1. CASE UNCHANGED ofRpc
  BY <1>1, RouterGoesOn DEF ofRpc
<1>2. ASSUME NEW r \in Requests, Rpc!Deliver(r) PROVE RpcBounds'
  <2>1. pending[r] \in Nat /\ pending[r] > 0 /\ pending' = [pending EXCEPT ![r] = pending[r] - 1]
    BY <1>2 DEF Rpc!Deliver, RpcBounds
  <2>2. Len(inbox') <= QueueSize
    BY <1>2, SizesAssumption DEF Rpc!Deliver, RpcInv, RpcShapes, RpcBounds
  <2> QED
    BY <1>2, <2>1, <2>2 DEF Rpc!Deliver, RpcBounds
<1>3. ASSUME NEW r \in Requests, Rpc!Duplicate(r) PROVE RpcBounds'
  BY <1>3 DEF Rpc!Duplicate, RpcBounds
<1>4. CASE Rpc!Tick
  BY <1>4 DEF Rpc!Tick, RpcBounds
<1>5. CASE Rpc!Ask
  BY <1>5, RouterGoesOn DEF Rpc!Ask
<1>6. CASE Rpc!Post
  BY <1>6, RouterGoesOn DEF Rpc!Post
<1>7. CASE Rpc!Answer
  BY <1>7, RouterGoesOn DEF Rpc!Answer
<1> QED
  BY <1>1, <1>2, <1>3, <1>4, <1>5, <1>6, <1>7, TakeBounded
  DEF Rpc!Next, Rpc!Step, Rpc!Environment

-----------------------------------------------------------------------------
(***************************************************************************)
(* The collector of the Janitza analysers                                  *)
(***************************************************************************)
Flags == observed \in BOOLEAN /\ observedFile \in BOOLEAN

LEMMA AnalyzerTyped == AnalyzerInv /\ Flags => Analyzer!TypeOK
<1>1. Analyzer!Resting.analyzer \in Analyzers
  BY SizesAssumption DEF Analyzer!Resting
<1> QED
  BY <1>1 DEF AnalyzerInv, Flags, Analyzer!TypeOK, Turn, Stages

LEMMA FlagsStay ==
    ASSUME Flags, Analyzer!Next \/ UNCHANGED ofAnalyzer PROVE Flags'
<1>1. CASE UNCHANGED <<observed, observedFile>>
  BY <1>1 DEF Flags
<1>2. CASE Analyzer!Step
  <2>1. UNCHANGED <<observed, observedFile>>
    BY <1>2 DEF Analyzer!Step, Analyzer!Wake, Analyzer!Sleep, Analyzer!Collect, Analyzer!LoadRatios,
       Analyzer!Withdraw, Analyzer!ReadValues, Analyzer!Store
  <2> QED
    BY <1>1, <2>1
<1>3. CASE Analyzer!Environment
  BY <1>1, <1>3 DEF Analyzer!Environment, Analyzer!StoreFails, Analyzer!Restart,
                    Analyzer!SetEnabled, Flags
<1> QED
  BY <1>1, <1>2, <1>3 DEF Analyzer!Next, ofAnalyzer

LEMMA FlagsInit == Analyzer!Init => Flags
BY DEF Analyzer!Init, Flags

-----------------------------------------------------------------------------
(***************************************************************************)
(* The external check of a port                                            *)
(***************************************************************************)
Verdicts == {"abierto", "cerrado", "desconocido"}

\* The attempts of a check, and what is kept from one check to the next.
ProbeBounds ==
    /\ stale \in BOOLEAN /\ cooling \subseteq Probes
    /\ check.number <= MaxAttempts
    /\ state \in Verdicts
    /\ witnessed \subseteq BOOLEAN

\* What is remembered of a measurement.
MeasurementKept == shut \subseteq Probes /\ lasting \in BOOLEAN

LEMMA ProbeTyped == ProbeInv /\ ProbeBounds /\ MeasurementKept => Probe!TypeOK
<1> SUFFICES ASSUME ProbeInv, ProbeBounds, MeasurementKept PROVE Probe!TypeOK
  OBVIOUS
<1>1. check.number \in 1 .. MaxAttempts /\ check.provider \in {"globalping", "check-host"}
  BY SizesAssumption DEF ProbeInv, ProbeShapes, ProbeBounds, Checking
<1>2. outcome \in Probe!Fetched
      /\ check \in [at : {"idle", "nodes", "start", "poll"},
                    provider : {"globalping", "check-host"}, number : 1 .. MaxAttempts,
                    excluded : SUBSET Probes, selected : SUBSET Probes,
                    nodes : Probe!Fetched, failing : BOOLEAN]
  BY <1>1 DEF ProbeInv, ProbeShapes, Checking, Results, Probe!Fetched
<1> QED
  BY <1>2 DEF ProbeInv, ProbeShapes, ProbeBounds, MeasurementKept, Verdicts, Probe!TypeOK

LEMMA ProbeBoundsInit == Probe!Init => ProbeBounds /\ MeasurementKept
<1>1. Probe!Init => ProbeBounds
  BY NoChecks, SizesAssumption DEF Probe!Init, ProbeBounds, Verdicts
<1>2. Probe!Init => MeasurementKept
  BY DEF Probe!Init, MeasurementKept
<1> QED
  BY <1>1, <1>2

LEMMA MeasurementStays ==
    ASSUME MeasurementKept, Probe!Next \/ UNCHANGED ofProbe PROVE MeasurementKept'
<1>1. ASSUME NEW n \in Probes, Probe!Measure(n) PROVE MeasurementKept'
  <2>1. shut' = shut \cup {m \in {n} : outcome'[m] = "desconectado"} /\ UNCHANGED lasting
    BY <1>1 DEF Probe!Measure
  <2> QED
    BY <2>1 DEF MeasurementKept
<1>2. CASE Probe!StartCheck
  BY <1>2 DEF Probe!StartCheck, MeasurementKept
<1>3. CASE Probe!Poll
  <2>1. UNCHANGED shut /\ \E nodes : lasting' = Probe!AllFailed(nodes)
    BY <1>3 DEF Probe!Poll
  <2>2. lasting' \in BOOLEAN
    BY <2>1 DEF Probe!AllFailed
  <2> QED
    BY <2>1, <2>2 DEF MeasurementKept
<1>4. CASE Probe!Toggle \/ Probe!Expire \/ Probe!Begin \/ Probe!RefreshNodes
           \/ Probe!NoneLeft \/ Probe!Deadline \/ UNCHANGED ofProbe
  <2>1. UNCHANGED <<shut, lasting>>
    BY <1>4 DEF Probe!Toggle, Probe!Expire, Probe!Begin, Probe!RefreshNodes, Probe!NoneLeft,
                Probe!Deadline, ofProbe
  <2> QED
    BY <2>1 DEF MeasurementKept
<1> QED
  BY <1>1, <1>2, <1>3, <1>4 DEF Probe!Next, Probe!Step, Probe!Environment

LEMMA VerdictBounded ==
    ASSUME ProbeBounds, NEW v \in Verdicts, Probe!Verdict(v)
    PROVE  check'.number <= MaxAttempts /\ state' \in Verdicts
<1>1. check' = [Probe!NoCheck EXCEPT !.at = "nodes", !.provider = "check-host"]
      \/ check' = Probe!NoCheck
  BY DEF Probe!Verdict
<1>2. check'.number = 1
  <2>1. \A c \in Checking :
            [c EXCEPT !.at = "nodes", !.provider = "check-host"].number = c.number
    BY DEF Checking
  <2>2. Probe!NoCheck \in Checking /\ Probe!NoCheck.number = 1
    BY NoChecks
  <2> QED
    BY <1>1, <2>1, <2>2
<1>3. state' \in {state, v}
  BY DEF Probe!Verdict
<1> QED
  BY <1>2, <1>3, SizesAssumption DEF ProbeBounds

LEMMA AttemptedBounded ==
    ASSUME ProbeInv, ProbeBounds, NEW v \in Verdicts, NEW excluded, Probe!Attempted(v, excluded)
    PROVE  check'.number <= MaxAttempts /\ state' \in Verdicts
<1>1. CASE Probe!Verdict(v)
  BY <1>1, VerdictBounded
<1>2. CASE ~Probe!Verdict(v)
  <2> DEFINE n == check.number + 1
  <2>1. /\ check' = [Probe!NoCheck EXCEPT !.at = "start", !.provider = "check-host",
                                          !.number = n, !.excluded = excluded]
        /\ check.number < MaxAttempts /\ UNCHANGED state
    BY <1>2 DEF Probe!Attempted
  <2>2. n <= MaxAttempts
    BY <2>1, SizesAssumption DEF ProbeInv, ProbeShapes, Checking
  <2> HIDE DEF n
  <2> QED
    BY <2>1, <2>2, NoChecks DEF ProbeBounds
<1> QED
  BY <1>1, <1>2

\* A probe that is left alone is one of the batch, or was left alone before.
LEMMA ConcludedBounded ==
    ASSUME ProbeInv, ProbeBounds, NEW v \in Verdicts, NEW nodes, Probe!Concluded(v, nodes)
    PROVE  /\ check'.number <= MaxAttempts /\ state' \in Verdicts
           /\ cooling' \subseteq Probes
<1>1. \A found : Probe!Cooled(found) \subseteq Probes
  BY DEF Probe!Cooled, ProbeInv, ProbeShapes, ProbeBounds, Checking
<1>2. cooling' \subseteq Probes
  BY <1>1 DEF Probe!Concluded
<1> QED
  BY <1>2, AttemptedBounded DEF Probe!Concluded

LEMMA ProbeStaysBounded ==
    ASSUME ProbeInv, ProbeBounds, Probe!Next \/ UNCHANGED ofProbe PROVE ProbeBounds'
<1> USE DEF ProbeBounds
<1>0. /\ answering \in BOOLEAN /\ check \in Checking
      /\ \A at, selected : [check EXCEPT !.at = at, !.selected = selected].number = check.number
      /\ \A at : [check EXCEPT !.at = at].number = check.number
      /\ \A nodes, failing :
            [check EXCEPT !.nodes = nodes, !.failing = failing].number = check.number
  BY DEF ProbeInv, ProbeShapes, Checking
<1>1. CASE Probe!Toggle
  <2>1. witnessed' \subseteq BOOLEAN
    BY <1>0, <1>1 DEF Probe!Toggle
  <2> QED
    BY <1>1, <2>1 DEF Probe!Toggle
<1>2. ASSUME NEW n \in Probes, Probe!Measure(n) PROVE ProbeBounds'
  BY <1>2 DEF Probe!Measure
<1>3. CASE Probe!Expire
  BY <1>3 DEF Probe!Expire
<1>4. CASE Probe!Begin
  <2>1. PICK at \in {"start", "nodes"} : check' = [Probe!NoCheck EXCEPT !.at = at]
    BY <1>4 DEF Probe!Begin
  <2>2. check'.number <= MaxAttempts
    BY <2>1, NoChecks, SizesAssumption
  <2>3. witnessed' \subseteq BOOLEAN
    BY <1>0, <1>4 DEF Probe!Begin
  <2> QED
    BY <1>4, <2>2, <2>3 DEF Probe!Begin
<1>5. CASE Probe!RefreshNodes
  BY <1>0, <1>5 DEF Probe!RefreshNodes
<1>6. CASE Probe!NoneLeft
  BY <1>6, VerdictBounded DEF Probe!NoneLeft, Verdicts
<1>7. CASE Probe!StartCheck
  <2>1. UNCHANGED <<stale, cooling, witnessed>>
    BY <1>7 DEF Probe!StartCheck
  <2>2. \/ UNCHANGED state
           /\ \E selected : check' = [check EXCEPT !.at = "poll", !.selected = selected]
        \/ \E excluded : Probe!Attempted("desconocido", excluded)
        \/ Probe!Verdict("desconocido")
    BY <1>7 DEF Probe!StartCheck
  <2>3. check'.number <= MaxAttempts /\ state' \in Verdicts
    BY <1>0, <2>2, VerdictBounded, AttemptedBounded DEF Verdicts
  <2> QED
    BY <2>1, <2>3
<1>8. CASE Probe!Poll
  <2>1. UNCHANGED <<stale, witnessed>>
    BY <1>8 DEF Probe!Poll
  <2>2. \/ \E v \in Verdicts, nodes \in {Probe!Latest(answer) : answer \in Probe!Answers} :
              Probe!Concluded(v, nodes)
        \/ /\ UNCHANGED <<cooling, state>>
           /\ \E nodes, failing : check' = [check EXCEPT !.nodes = nodes, !.failing = failing]
    BY <1>8 DEF Probe!Poll, Verdicts
  <2> QED
    BY <1>0, <2>1, <2>2, ConcludedBounded
<1>9. CASE Probe!Deadline
  BY <1>9, VerdictBounded, ConcludedBounded DEF Probe!Deadline, Verdicts
<1>10. CASE UNCHANGED ofProbe
  BY <1>10 DEF ofProbe
<1> QED
  BY <1>1, <1>2, <1>3, <1>4, <1>5, <1>6, <1>7, <1>8, <1>9, <1>10
  DEF Probe!Next, Probe!Step, Probe!Environment

-----------------------------------------------------------------------------
(***************************************************************************)
(* The download of the flow meters                                         *)
(***************************************************************************)
\* Of the records GWF has got those that expired come first, and what is asked
\* for, what came and what is stored are records it has got.
RecordBounds ==
    /\ hour <= LastHour
    /\ 0 <= expired /\ expired <= source /\ source <= MaxRecords
    /\ measurements \subseteq 1 .. source
    /\ run.wanted \subseteq 1 .. source /\ run.fetched \subseteq 1 .. source

FlowKinds ==
    /\ lastAttempt \in {"none", "running", "error", "new_data", "no_new_data"}
    /\ catalogue \in BOOLEAN /\ scheduler \in BOOLEAN
    /\ manual \in {"none", "waiting", "dead"}

LEMMA FlowTyped == FlowInv /\ RecordBounds /\ FlowKinds => Flow!TypeOK
<1> SUFFICES ASSUME FlowInv, RecordBounds, FlowKinds PROVE Flow!TypeOK
  OBVIOUS
<1>1. \A c \in Calendar : Within(c) => c \in Flow!Cycle
  BY WaitsAreHours DEF Calendar, States, Within, Flow!Cycle
<1>2. cycle \in Flow!Cycle /\ run.cycle \in Flow!Cycle
  BY <1>1 DEF FlowInv, FlowShapes, CyclesInOrder
<1>3. run \in [at : {"none", "locations", "pages", "save", "finish"},
               by : {"automatic", "manual"}, cycle : Flow!Cycle,
               wanted : SUBSET (1 .. source), fetched : SUBSET (1 .. source),
               outcome : Flow!Outcomes]
  BY <1>2 DEF FlowInv, FlowShapes, RecordBounds, Flow!Outcomes
<1>4. hour \in 0 .. LastHour /\ source \in 0 .. MaxRecords /\ expired \in 0 .. source
  BY BoundsAssumption DEF FlowInv, FlowShapes, RecordBounds
<1>5. lastAttempt \in Flow!Outcomes \cup {"none"}
  BY DEF FlowKinds, Flow!Outcomes
<1> QED
  BY <1>2, <1>3, <1>4, <1>5 DEF FlowInv, FlowShapes, RecordBounds, FlowKinds, Flow!TypeOK

LEMMA NoDownload == Flow!NoRun.wanted = {} /\ Flow!NoRun.fetched = {}
BY DEF Flow!NoRun

LEMMA RecordBoundsInit == Flow!Init => RecordBounds /\ FlowKinds
<1> SUFFICES ASSUME Flow!Init PROVE RecordBounds /\ FlowKinds
  OBVIOUS
<1>1. hour = 0 /\ source = 1 /\ expired = 0 /\ measurements = {} /\ run = Flow!NoRun
  BY DEF Flow!Init
<1>2. RecordBounds
  BY <1>1, NoDownload, BoundsAssumption DEF RecordBounds
<1>3. FlowKinds
  BY DEF Flow!Init, FlowKinds
<1> QED
  BY <1>2, <1>3

LEMMA RecordsStep ==
    ASSUME FlowInv, RecordBounds, Flow!Next \/ UNCHANGED ofFlow PROVE RecordBounds'
<1> USE DEF RecordBounds
<1>0. /\ hour \in Nat /\ source \in Int /\ expired \in Int
      /\ \A c : [run EXCEPT !.cycle = c].wanted = run.wanted
                /\ [run EXCEPT !.cycle = c].fetched = run.fetched
      /\ \A at : [run EXCEPT !.at = at].wanted = run.wanted
                 /\ [run EXCEPT !.at = at].fetched = run.fetched
      /\ \A result : Flow!Outcome(result) =>
                          run'.wanted = run.wanted /\ run'.fetched = run.fetched
      /\ \A at, got : [run EXCEPT !.fetched = got, !.at = at].wanted = run.wanted
                      /\ [run EXCEPT !.fetched = got, !.at = at].fetched = got
  BY DEF FlowInv, FlowShapes, Flow!Outcome
<1>1. CASE Flow!Hour
  BY <1>0, <1>1, BoundsAssumption DEF Flow!Hour, Flow!flowStored
<1>2. CASE Flow!Midnight
  <2>1. /\ UNCHANGED <<source, measurements>> /\ hour' = 0 /\ expired' \in expired .. source
        /\ run'.wanted = run.wanted /\ run'.fetched = run.fetched
    BY <1>0, <1>2 DEF Flow!Midnight
  <2> QED
    BY <1>0, <2>1, BoundsAssumption
<1>3. CASE Flow!Measure
  BY <1>0, <1>3, BoundsAssumption DEF Flow!Measure, Flow!flowStored
<1>4. ASSUME UNCHANGED <<hour, source, expired>>, measurements' \subseteq 1 .. source,
             run'.wanted \subseteq 1 .. source, run'.fetched \subseteq 1 .. source
      PROVE  RecordBounds'
  BY <1>4
<1>5. ASSUME NEW by, NEW c, Flow!Begin(by, c)
      PROVE  run'.wanted \subseteq 1 .. source /\ run'.fetched \subseteq 1 .. source
  <2>1. run'.wanted = (expired + 1) .. source /\ run'.fetched = {}
    BY <1>5 DEF Flow!Begin, Flow!NoRun
  <2> QED
    BY <1>0, <2>1
<1>6. CASE Flow!Tick
  <2>1. UNCHANGED <<hour, source, expired>> /\ measurements' \subseteq measurements
    BY <1>6 DEF Flow!Tick, Flow!clockVars, Flow!Prune
  <2>2. UNCHANGED run \/ Flow!Begin("automatic", cycle')
    BY <1>6 DEF Flow!Tick
  <2> QED
    BY <1>4, <1>5, <2>1, <2>2
<1>7. CASE Flow!RunManual
  BY <1>4, <1>5, <1>7 DEF Flow!RunManual, Flow!clockVars
<1>8. CASE Flow!Query
  <2>1. UNCHANGED <<hour, source, expired>> /\ measurements' \subseteq measurements
    BY <1>8 DEF Flow!Query, Flow!clockVars, Flow!Prune
  <2>2. \/ Flow!Outcome("error") \/ \E at : run' = [run EXCEPT !.at = at]
        \/ \E at : \E page \in {{m} : m \in run.wanted \cup Flow!Late} \cup {{}} :
              run' = [run EXCEPT !.fetched = run.fetched \cup page, !.at = at]
    BY <1>8 DEF Flow!Query
  <2>3. \A page \in {{m} : m \in run.wanted \cup Flow!Late} \cup {{}} :
            page \subseteq 1 .. source
    BY <1>0 DEF Flow!Late
  <2>4. run'.wanted = run.wanted /\ run'.fetched \subseteq 1 .. source
    <3>1. CASE Flow!Outcome("error")
      BY <1>0, <3>1
    <3>2. CASE \E at : run' = [run EXCEPT !.at = at]
      BY <1>0, <3>2
    <3>3. ASSUME NEW page \in {{m} : m \in run.wanted \cup Flow!Late} \cup {{}}, NEW at,
                 run' = [run EXCEPT !.fetched = run.fetched \cup page, !.at = at]
          PROVE  run'.wanted = run.wanted /\ run'.fetched \subseteq 1 .. source
      <4>1. run'.wanted = run.wanted /\ run'.fetched = run.fetched \cup page
        BY <1>0, <3>3
      <4> QED
        BY <2>3, <4>1
    <3> QED
      BY <2>2, <3>1, <3>2, <3>3
  <2> QED
    BY <1>4, <2>1, <2>4
<1>9. CASE Flow!Save
  <2>1. UNCHANGED <<hour, source, expired>>
        /\ measurements' \subseteq measurements \cup run.fetched
    BY <1>9 DEF Flow!Save, Flow!clockVars, Flow!Prune
  <2>2. run'.wanted = run.wanted /\ run'.fetched = run.fetched
    BY <1>0, <1>9 DEF Flow!Save
  <2> QED
    BY <1>4, <2>1, <2>2
<1>10. CASE Flow!Finish \/ Flow!FinishFails \/ Flow!Restart
  BY <1>4, <1>10, NoDownload DEF Flow!Finish, Flow!FinishFails, Flow!Restart, Flow!clockVars
<1>11. CASE Flow!Status \/ Flow!RequestManual \/ Flow!BeginFails \/ UNCHANGED ofFlow
  BY <1>4, <1>11 DEF Flow!Status, Flow!RequestManual, Flow!BeginFails, Flow!clockVars,
                     Flow!flowStored, ofFlow
<1> QED
  BY <1>1, <1>2, <1>3, <1>6, <1>7, <1>8, <1>9, <1>10, <1>11
  DEF Flow!Next, Flow!Step, Flow!Clock, Flow!Environment

LEMMA FlowKindsStep ==
    ASSUME FlowInv, FlowKinds, Flow!Next \/ UNCHANGED ofFlow PROVE FlowKinds'
<1> USE DEF FlowKinds
<1>1. CASE Flow!Clock
  BY <1>1 DEF Flow!Clock, Flow!Hour, Flow!Midnight, Flow!flowStored
<1>2. CASE Flow!Tick \/ Flow!RunManual
  BY <1>2 DEF Flow!Tick, Flow!RunManual, Flow!Begin
<1>3. CASE Flow!Query \/ Flow!Save
  BY <1>3 DEF Flow!Query, Flow!Save
<1>4. CASE Flow!Finish
  <2>1. run.outcome \in {"running", "error", "new_data", "no_new_data"}
    BY DEF FlowInv, FlowShapes
  <2> QED
    BY <1>4, <2>1 DEF Flow!Finish
<1>5. CASE Flow!FinishFails
  <2>1. /\ run.outcome \in {"running", "error", "new_data", "no_new_data"}
        /\ run.by \in {"automatic", "manual"}
    BY DEF FlowInv, FlowShapes
  <2>2. lastAttempt' \in {lastAttempt, run.outcome} /\ scheduler' \in BOOLEAN
        /\ UNCHANGED <<manual, catalogue>>
    BY <1>5, <2>1 DEF Flow!FinishFails
  <2> QED
    BY <2>1, <2>2
<1>6. CASE Flow!Measure \/ Flow!Status \/ Flow!RequestManual
  BY <1>6 DEF Flow!Measure, Flow!Status, Flow!RequestManual, Flow!flowStored
<1>7. CASE Flow!BeginFails
  BY <1>7 DEF Flow!BeginFails
<1>8. CASE Flow!Restart
  BY <1>8 DEF Flow!Restart
<1>9. CASE UNCHANGED ofFlow
  BY <1>9 DEF ofFlow
<1> QED
  BY <1>1, <1>2, <1>3, <1>4, <1>5, <1>6, <1>7, <1>8, <1>9
  DEF Flow!Next, Flow!Step, Flow!Environment

-----------------------------------------------------------------------------
(***************************************************************************)
(* The collector of the MiCOM relays                                       *)
(***************************************************************************)
\* What is known of a relay is of recordings it made and faults it had.
EventBounds ==
    /\ \A r \in Relays : recordings[r] <= MaxEvents
    /\ \A r \in Relays : trips[r] <= MaxTrips /\ faultRow[r] <= MaxTrips
    /\ monitor.fault <= MaxTrips
    /\ \A s \in Slots : monitor.references[s] <= MaxEvents
    /\ download.got \subseteq 0 .. MaxEvents /\ download.selected <= MaxEvents

\* The retries, the counts of a download and the parameters.
CountBounds ==
    /\ refresh \in [Relays -> [updated : BOOLEAN, retry : 0 .. 4]]
    /\ tries \in [Relays -> 0 .. 4]
    /\ download.channel \in 1 .. Channels /\ download.block \in 1 .. Blocks

Parameters ==
    /\ known \in [Relays -> SUBSET {"format", "frequency", "profile"}]
    /\ parts \in [Relays -> SUBSET (Relay!ProfileParts \cup Relay!Defects)]
    /\ enabled \in BOOLEAN /\ flagFile \in BOOLEAN /\ observing \in BOOLEAN

LEMMA RelayTyped == RelayInv /\ EventBounds /\ CountBounds /\ Parameters => Relay!TypeOK
<1> SUFFICES ASSUME RelayInv, EventBounds, CountBounds, Parameters PROVE Relay!TypeOK
  OBVIOUS
<1> DEFINE Of == 0 .. MaxEvents
           OfTrips == 0 .. MaxTrips
<1>0. /\ MaxEvents \in Nat /\ MaxTrips \in Nat /\ Relay!Events = Of
      /\ Relay!Asleep.relay \in Relays /\ Relay!Idle.slot \in Slots
  BY SizesAssumption, BoundsAssumption DEF Relay!Events, Relay!Asleep, Relay!Idle
<1>1. /\ recordings \in [Relays -> Of]
      /\ trips \in [Relays -> OfTrips] /\ faultRow \in [Relays -> OfTrips]
  <2>1. /\ recordings \in [Relays -> Nat]
        /\ trips \in [Relays -> Nat] /\ faultRow \in [Relays -> Nat]
    BY DEF RelayInv, RelayShapes
  <2>2. \A r \in Relays : recordings[r] \in Of /\ trips[r] \in OfTrips /\ faultRow[r] \in OfTrips
    BY <1>0, <2>1 DEF EventBounds
  <2> HIDE DEF Of, OfTrips
  <2> QED
    BY <2>1, <2>2
<1>2. ASSUME NEW r \in Relays, NEW s \in Slots
      PROVE  recorded[r][s] \in Of /\ rows[r][s] \in [signature : Of, blocks : SUBSET Of]
  <2>1. /\ recorded[r][s] \in Nat /\ recordings[r] \in Nat
        /\ rows[r][s] \in [signature : Nat, blocks : SUBSET Nat]
        /\ recorded[r][s] <= recordings[r] /\ rows[r][s].signature <= recorded[r][s]
        /\ rows[r][s] # Relay!None => rows[r][s].blocks = {rows[r][s].signature}
        /\ recordings[r] <= MaxEvents
    BY DEF RelayInv, RelayShapes, EventsInOrder, Relay!RecordingsAreWhole, EventBounds
  <2>2. recorded[r][s] \in Of /\ rows[r][s].signature \in Of
    BY <1>0, <2>1
  <2>3. rows[r][s].blocks \in SUBSET Of
    BY <2>1, <2>2 DEF Relay!None
  <2> HIDE DEF Of
  <2> QED
    BY <2>1, <2>2, <2>3
<1>3. recorded \in [Relays -> [Slots -> Of]]
      /\ rows \in [Relays -> [Slots -> [signature : Of, blocks : SUBSET Of]]]
  BY <1>2 DEF RelayInv, RelayShapes
<1>4. monitor \in [at : {"asleep", "cycle", "format", "frequency", "directory", "records",
                         "block", "index", "profile", "fault", "complete"},
                   relay : Relays, todo : SUBSET Relays, references : [Slots -> Of],
                   left : SUBSET Slots, failed : BOOLEAN, fault : OfTrips]
  <2>1. /\ monitor.references \in [Slots -> Of] /\ monitor.relay \in Relays
        /\ monitor.fault \in OfTrips
    BY <1>0 DEF RelayInv, RelayShapes, EventBounds
  <2> HIDE DEF Of, OfTrips
  <2> QED
    BY <2>1 DEF RelayInv, RelayShapes, Places
<1>5. download \in [slot : Slots, channel : 1 .. Channels, block : 1 .. Blocks,
                    got : SUBSET Of, selected : Of]
  <2>0. download.got \subseteq Of /\ download.selected <= MaxEvents
    BY DEF EventBounds
  <2>2. download.selected \in Nat /\ download.slot \in Slots
    BY <1>0 DEF RelayInv, RelayShapes
  <2>3. download.selected \in Of
    BY <1>0, <2>0, <2>2
  <2>1. download.got \in SUBSET Of /\ download.selected \in Of /\ download.slot \in Slots
    BY <2>0, <2>2, <2>3
  <2> HIDE DEF Of
  <2> QED
    BY <2>1 DEF RelayInv, RelayShapes, CountBounds
<1> HIDE DEF Of
<1>6. /\ refresh \in [Relays -> [updated : BOOLEAN, retry : 0 .. Relay!RetryIntervals]]
      /\ tries \in [Relays -> 0 .. Relay!RetryIntervals]
  BY DEF CountBounds, Relay!RetryIntervals
<1>7. due \in [Relays -> BOOLEAN]
  BY DEF RelayInv, RelayShapes
<1> QED
  BY <1>0, <1>1, <1>3, <1>4, <1>5, <1>6, <1>7, Zenon DEF Parameters, Relay!TypeOK

LEMMA RelayStarts ==
    /\ \A s \in Slots : Relay!Asleep.references[s] = 0
    /\ Relay!Asleep.fault = 0
    /\ Relay!Idle.got = {} /\ Relay!Idle.selected = 0
    /\ Relay!Idle.channel = 1 /\ Relay!Idle.block = 1
BY DEF Relay!Asleep, Relay!Idle

LEMMA RelayBoundsInit == Relay!Init => EventBounds /\ CountBounds /\ Parameters
<1> SUFFICES ASSUME Relay!Init PROVE EventBounds /\ CountBounds /\ Parameters
  OBVIOUS
<1>1. EventBounds
  BY RelayStarts, BoundsAssumption DEF Relay!Init, EventBounds
<1>2. CountBounds
  BY RelayStarts, SizesAssumption DEF Relay!Init, CountBounds
<1>3. Parameters
  BY DEF Relay!Init, Parameters
<1> QED
  BY <1>1, <1>2, <1>3

\* What was read of the relay before its recordings.
DirectoryKept == monitor'.references = monitor.references /\ monitor'.fault = monitor.fault

\* The directory is kept by every step of a reading but the one that reads it.
LEMMA ReferencesKept ==
    ASSUME RelayInv
    PROVE  /\ \A at : Relay!Goto(at) => DirectoryKept
           /\ \A failed : Relay!RecordDone(failed) => DirectoryKept
           /\ Relay!ScheduleRetry => DirectoryKept
BY DEF RelayInv, RelayShapes, Relay!Goto, Relay!RecordDone, Relay!ScheduleRetry, DirectoryKept

LEMMA EventsStep ==
    ASSUME RelayInv, EventBounds, Relay!Next \/ UNCHANGED ofRelay PROVE EventBounds'
<1>1. ASSUME NEW r \in Relays, NEW s \in Slots, Relay!Records(r, s) PROVE EventBounds'
  <2>1. /\ recordings' = [recordings EXCEPT ![r] = recordings[r] + 1] /\ recordings[r] < MaxEvents
        /\ recordings \in [Relays -> Nat] /\ UNCHANGED <<trips, faultRow, monitor, download>>
    BY <1>1 DEF Relay!Records, Relay!stored, RelayInv, RelayShapes
  <2>2. \A q \in Relays : recordings'[q] <= MaxEvents
    BY <2>1, BoundsAssumption DEF EventBounds
  <2> QED
    BY <2>1, <2>2 DEF EventBounds, DirectoryKept
<1>13. ASSUME NEW r \in Relays, Relay!Trips(r) PROVE EventBounds'
  <2>1. /\ trips' = [trips EXCEPT ![r] = trips[r] + 1] /\ trips[r] < MaxTrips
        /\ trips \in [Relays -> Nat] /\ UNCHANGED <<recordings, faultRow, monitor, download>>
    BY <1>13 DEF Relay!Trips, Relay!stored, RelayInv, RelayShapes
  <2>2. \A q \in Relays : trips'[q] <= MaxTrips
    BY <2>1, BoundsAssumption DEF EventBounds
  <2> QED
    BY <2>1, <2>2 DEF EventBounds, DirectoryKept
<1>2. CASE /\ UNCHANGED <<recordings, trips, faultRow, download>>
           /\ DirectoryKept
  BY <1>2 DEF EventBounds, DirectoryKept
<1>3. CASE Relay!Turn \/ Relay!EndCycle \/ \E r \in Relays : Relay!NextRelay(r)
  <2>1. CASE Relay!EndCycle
    BY <2>1, RelayStarts, BoundsAssumption
    DEF Relay!EndCycle, Relay!relayVars, Relay!stored, EventBounds
  <2>2. CASE Relay!Turn \/ \E r \in Relays : Relay!NextRelay(r)
    <3>1. DirectoryKept
      BY <2>2 DEF Relay!Turn, Relay!NextRelay, RelayInv, RelayShapes, DirectoryKept
    <3> QED
      BY <1>2, <2>2, <3>1 DEF Relay!Turn, Relay!NextRelay, Relay!relayVars, Relay!stored
  <2> QED
    BY <1>3, <2>1, <2>2
<1>4. CASE Relay!GetDateFormat \/ Relay!GetConfiguration
  BY <1>2, <1>4, ReferencesKept
  DEF Relay!GetDateFormat, Relay!GetConfiguration, Relay!Learn, Relay!relayVars
<1>5. CASE Relay!ReadReferences
  <2>1. UNCHANGED <<recordings, trips, faultRow, download>> /\ Relay!Relay \in Relays
    BY <1>5 DEF Relay!ReadReferences, Relay!relayVars, Relay!At, Relay!Relay, RelayInv,
       RelayShapes
  <2>2. /\ monitor'.references \in {monitor.references, recorded[Relay!Relay]}
        /\ monitor'.fault \in {monitor.fault, trips[Relay!Relay]}
    BY <1>5, ReferencesKept DEF Relay!ReadReferences, RelayInv, RelayShapes, DirectoryKept
  <2>3. \A s \in Slots : recorded[Relay!Relay][s] <= MaxEvents
    BY <2>1, BoundsAssumption DEF RelayInv, RelayShapes, EventsInOrder, EventBounds
  <2> QED
    BY <2>1, <2>2, <2>3 DEF EventBounds, DirectoryKept
<1>6. ASSUME NEW s \in Slots, Relay!NextRecord(s) PROVE EventBounds'
  <2>1. /\ UNCHANGED <<recordings, trips, faultRow>> /\ DirectoryKept
        /\ download' = download \/ download' = [Relay!Idle EXCEPT !.slot = s]
    BY <1>6, ReferencesKept
    DEF Relay!NextRecord, Relay!relayVars, Relay!stored, RelayInv, RelayShapes, DirectoryKept
  <2>2. /\ download'.got = download.got \/ download'.got = {}
        /\ download'.selected = download.selected \/ download'.selected = 0
    BY <2>1 DEF Relay!Idle
  <2>3. download'.got \subseteq 0 .. MaxEvents /\ download'.selected <= MaxEvents
    BY <2>2, BoundsAssumption DEF EventBounds
  <2> QED
    BY <2>1, <2>3 DEF EventBounds, DirectoryKept
<1>7. CASE Relay!ReadBlock
  <2> DEFINE now == recorded[Relay!Relay][download.slot]
  <2>1. UNCHANGED <<recordings, trips, faultRow>> /\ DirectoryKept
    BY <1>7, ReferencesKept DEF Relay!ReadBlock, Relay!relayVars, Relay!stored
  <2>2. now \in 0 .. MaxEvents
    BY <1>7, BoundsAssumption
    DEF Relay!ReadBlock, Relay!At, Relay!Relay, RelayInv, RelayShapes, EventsInOrder, EventBounds
  <2>3. download'.got = download.got \cup {now} /\ download'.selected = now
    BY <1>7 DEF Relay!ReadBlock, RelayInv, RelayShapes
  <2> HIDE DEF now
  <2> QED
    BY <2>1, <2>2, <2>3 DEF EventBounds, DirectoryKept
<1>8. CASE Relay!ReadIndex
  <2>1. UNCHANGED <<recordings, trips, faultRow>> /\ DirectoryKept
    BY <1>8, ReferencesKept DEF Relay!ReadIndex, Relay!relayVars
  <2>2. download'.got = download.got /\ download'.selected = download.selected
    BY <1>8 DEF Relay!ReadIndex, RelayInv, RelayShapes
  <2> QED
    BY <2>1, <2>2 DEF EventBounds, DirectoryKept
<1>9. CASE Relay!Disabled \/ Relay!RecordFails \/ Relay!RecordsDone \/ Relay!GetProfile
           \/ Relay!Complete
  BY <1>2, <1>9, ReferencesKept
  DEF Relay!Disabled, Relay!RecordFails, Relay!RecordsDone, Relay!GetProfile, Relay!Complete,
      Relay!relayVars, Relay!stored
<1>10. CASE Relay!RefreshLatestFault
  <2>1. /\ UNCHANGED <<recordings, trips, download>> /\ DirectoryKept
        /\ Relay!Relay \in Relays
    BY <1>10, ReferencesKept
    DEF Relay!RefreshLatestFault, Relay!relayVars, Relay!At, Relay!Relay, RelayInv, RelayShapes
  <2>2. \/ UNCHANGED faultRow
        \/ faultRow' = [faultRow EXCEPT
               ![Relay!Relay] = Relay!Newer(faultRow[Relay!Relay], trips[Relay!Relay])]
    BY <1>10 DEF Relay!RefreshLatestFault
  <2>3. Relay!Newer(faultRow[Relay!Relay], trips[Relay!Relay]) <= MaxTrips
    BY <2>1 DEF Relay!Newer, EventBounds
  <2>4. \A r \in Relays : faultRow'[r] <= MaxTrips
    BY <2>2, <2>3 DEF RelayInv, RelayShapes, EventBounds
  <2> QED
    BY <2>1, <2>4 DEF EventBounds, DirectoryKept
<1>11. CASE Relay!ThreadDies \/ Relay!Restart
  <2>1. /\ UNCHANGED <<recordings, trips, faultRow>>
        /\ monitor' = Relay!Asleep /\ download' = Relay!Idle
    BY <1>11 DEF Relay!ThreadDies, Relay!Restart, Relay!relayVars, Relay!stored
  <2>2. /\ \A s \in Slots : monitor'.references[s] = 0
        /\ monitor'.fault = 0 /\ download'.got = {} /\ download'.selected = 0
    BY <2>1, RelayStarts
  <2>3. download'.got \subseteq 0 .. MaxEvents
    BY <2>2
  <2>4. 0 <= MaxEvents /\ 0 <= MaxTrips
    BY BoundsAssumption
  <2>5. /\ \A r \in Relays : recordings'[r] <= MaxEvents
        /\ \A r \in Relays : trips'[r] <= MaxTrips /\ faultRow'[r] <= MaxTrips
    BY <2>1 DEF EventBounds
  <2>6. \A s \in Slots : monitor'.references[s] <= MaxEvents
    BY <2>2, <2>4
  <2> QED
    BY <2>2, <2>3, <2>4, <2>5, <2>6 DEF EventBounds
<1>12. CASE (\E r \in Relays : Relay!Wait(r)) \/ (\E value \in BOOLEAN : Relay!SetEnabled(value))
            \/ UNCHANGED ofRelay
  BY <1>2, <1>12
  DEF Relay!Wait, Relay!SetEnabled, ofRelay, Relay!relayVars, Relay!stored, DirectoryKept
<1> QED
  BY <1>1, <1>3, <1>4, <1>5, <1>6, <1>7, <1>8, <1>9, <1>10, <1>11, <1>12, <1>13
  DEF Relay!Next, Relay!Step, Relay!Environment

\* The fourth interval is the last: it is used from then on.
LEMMA RetriesCounted ==
    ASSUME RelayInv, CountBounds, Relay!ScheduleRetry, Relay!Relay \in Relays
    PROVE  /\ refresh' \in [Relays -> [updated : BOOLEAN, retry : 0 .. 4]]
           /\ tries' \in [Relays -> 0 .. 4]
<1> DEFINE count == Relay!Capped(tries[Relay!Relay] + 1)
           row == Relay!Failed(refresh[Relay!Relay], count)
<1>1. count \in 0 .. 4
  BY DEF CountBounds, Relay!Capped, Relay!RetryIntervals
<1>2. /\ tries' = [tries EXCEPT ![Relay!Relay] = count]
      /\ refresh' = [refresh EXCEPT ![Relay!Relay] = row]
  BY DEF Relay!ScheduleRetry
<1> HIDE DEF count
<1>3. row \in [updated : BOOLEAN, retry : 0 .. 4]
  BY <1>1 DEF CountBounds, Relay!Failed
<1> HIDE DEF row
<1> QED
  BY <1>1, <1>2, <1>3 DEF CountBounds

LEMMA CountsStep ==
    ASSUME RelayInv, CountBounds, Relay!Next \/ UNCHANGED ofRelay PROVE CountBounds'
<1>1. CASE UNCHANGED <<refresh, tries, download>>
  BY <1>1 DEF CountBounds
<1>2. CASE Relay!ScheduleRetry /\ Relay!Relay \in Relays /\ UNCHANGED download
  BY <1>2, RetriesCounted DEF CountBounds
<1>3. CASE Relay!GetDateFormat \/ Relay!GetConfiguration \/ Relay!ReadReferences
           \/ Relay!RecordsDone \/ Relay!GetProfile \/ Relay!RefreshLatestFault
  <2>1. UNCHANGED download /\ Relay!Relay \in Relays
    BY <1>3 DEF Relay!GetDateFormat, Relay!GetConfiguration, Relay!ReadReferences,
       Relay!RecordsDone, Relay!GetProfile, Relay!RefreshLatestFault, Relay!At, Relay!Relay,
       RelayInv, RelayShapes
  <2>2. Relay!ScheduleRetry \/ UNCHANGED <<refresh, tries>>
    BY <1>3 DEF Relay!GetDateFormat, Relay!GetConfiguration, Relay!Learn, Relay!ReadReferences,
       Relay!RecordsDone, Relay!GetProfile, Relay!RefreshLatestFault
  <2> QED
    BY <1>1, <1>2, <2>1, <2>2
<1>4. CASE Relay!Complete
  <2>1. Relay!Relay \in Relays /\ UNCHANGED download
        /\ refresh' = [refresh EXCEPT ![Relay!Relay] = Relay!Completed]
        /\ tries' = [tries EXCEPT ![Relay!Relay] = 0]
    BY <1>4 DEF Relay!Complete, Relay!At, Relay!Relay, RelayInv, RelayShapes
  <2>2. Relay!Completed \in [updated : BOOLEAN, retry : 0 .. 4]
    BY DEF Relay!Completed
  <2> QED
    BY <2>1, <2>2 DEF CountBounds
<1>5. ASSUME UNCHANGED <<refresh, tries>>,
             download'.channel \in 1 .. Channels, download'.block \in 1 .. Blocks
      PROVE  CountBounds'
  BY <1>5 DEF CountBounds
<1>6. ASSUME NEW s \in Slots, Relay!NextRecord(s) PROVE CountBounds'
  <2>1. /\ UNCHANGED <<refresh, tries>>
        /\ download' = download \/ download' = [Relay!Idle EXCEPT !.slot = s]
    BY <1>6 DEF Relay!NextRecord, Relay!stored
  <2>2. /\ download'.channel = download.channel \/ download'.channel = 1
        /\ download'.block = download.block \/ download'.block = 1
    BY <2>1 DEF Relay!Idle
  <2>3. download'.channel \in 1 .. Channels /\ download'.block \in 1 .. Blocks
    BY <2>2, SizesAssumption DEF CountBounds
  <2> QED
    BY <1>5, <2>1, <2>3
<1>7. CASE Relay!ReadBlock
  <2> DEFINE next == IF download.block < Blocks THEN download.block + 1 ELSE 1
  <2>1. next \in 1 .. Blocks
    BY SizesAssumption DEF CountBounds
  <2>2. UNCHANGED <<refresh, tries>>
        /\ download'.channel = download.channel /\ download'.block = next
    BY <1>7 DEF Relay!ReadBlock, Relay!stored, RelayInv, RelayShapes
  <2> QED
    BY <1>5, <2>1, <2>2 DEF CountBounds
<1>8. CASE Relay!ReadIndex
  <2>1. /\ UNCHANGED <<refresh, tries>> /\ download'.block = download.block
        /\ \/ download'.channel = download.channel
           \/ download.channel < Channels /\ download'.channel = download.channel + 1
    BY <1>8 DEF Relay!ReadIndex, RelayInv, RelayShapes
  <2>2. download'.channel \in 1 .. Channels
    BY <2>1, SizesAssumption DEF CountBounds
  <2> QED
    BY <1>5, <2>1, <2>2 DEF CountBounds
<1>9. CASE Relay!EndCycle \/ Relay!ThreadDies \/ Relay!Restart
  <2>1. /\ UNCHANGED refresh /\ download' = Relay!Idle
        /\ tries' = tries \/ tries' = [r \in Relays |-> 0]
    BY <1>9 DEF Relay!EndCycle, Relay!ThreadDies, Relay!Restart, Relay!stored
  <2>2. download'.channel = 1 /\ download'.block = 1
    BY <2>1, RelayStarts
  <2> QED
    BY <2>1, <2>2, SizesAssumption DEF CountBounds
<1>10. CASE Relay!Turn \/ (\E r \in Relays : Relay!NextRelay(r))
            \/ Relay!Disabled \/ Relay!RecordFails
  BY <1>1, <1>10 DEF Relay!Turn, Relay!NextRelay, Relay!Disabled, Relay!RecordFails,
     Relay!stored
<1>11. CASE \/ \E r \in Relays, s \in Slots : Relay!Records(r, s)
            \/ \E r \in Relays : Relay!Trips(r) \/ Relay!Wait(r)
            \/ \E value \in BOOLEAN : Relay!SetEnabled(value)
            \/ UNCHANGED ofRelay
  BY <1>1, <1>11 DEF Relay!Records, Relay!Trips, Relay!Wait, Relay!SetEnabled, Relay!stored,
     ofRelay
<1> QED
  BY <1>3, <1>4, <1>6, <1>7, <1>8, <1>9, <1>10, <1>11
  DEF Relay!Next, Relay!Step, Relay!Environment

LEMMA ParametersStep ==
    ASSUME RelayInv, Parameters, Relay!Next \/ UNCHANGED ofRelay PROVE Parameters'
<1>1. CASE UNCHANGED <<known, parts, enabled, flagFile, observing>>
  BY <1>1 DEF Parameters
<1>2. CASE Relay!Turn
  BY <1>2 DEF Relay!Turn, Relay!flag, Relay!stored, Parameters
<1>3. CASE Relay!GetDateFormat \/ Relay!GetConfiguration
  <2>1. UNCHANGED <<parts, enabled, flagFile, observing>> /\ Relay!Relay \in Relays
    BY <1>3 DEF Relay!GetDateFormat, Relay!GetConfiguration, Relay!flag, Relay!At, Relay!Relay,
       RelayInv, RelayShapes
  <2>2. known' = known \/ \E part \in {"format", "frequency"} : known' = Relay!WithPart(part)
    BY <1>3 DEF Relay!GetDateFormat, Relay!GetConfiguration, Relay!Learn
  <2>3. known' \in [Relays -> SUBSET {"format", "frequency", "profile"}]
    BY <2>1, <2>2 DEF Relay!WithPart, Relay!Relay, Parameters
  <2> QED
    BY <2>1, <2>3 DEF Parameters
<1>4. CASE Relay!GetProfile
  <2>1. UNCHANGED <<enabled, flagFile, observing>> /\ Relay!Relay \in Relays
    BY <1>4 DEF Relay!GetProfile, Relay!flag, Relay!At, Relay!Relay, RelayInv, RelayShapes
  <2>2. known' = known \/ known' = Relay!WithPart("profile")
    BY <1>4 DEF Relay!GetProfile
  <2>3. known' \in [Relays -> SUBSET {"format", "frequency", "profile"}]
    BY <2>1, <2>2 DEF Relay!WithPart, Relay!Relay, Parameters
  <2>4. parts' = parts \/ \E read \in SUBSET (Relay!ProfileParts \cup Relay!Defects) :
            parts' = [parts EXCEPT ![Relay!Relay] = parts[Relay!Relay] \cup read]
    <3>1. ASSUME NEW read \in SUBSET (Relay!ProfileParts \ parts[Relay!Relay]),
                 NEW defects \in SUBSET Relay!Defects,
                 parts' = [parts EXCEPT
                     ![Relay!Relay] = parts[Relay!Relay] \cup read \cup defects]
          PROVE  \E some \in SUBSET (Relay!ProfileParts \cup Relay!Defects) :
                     parts' = [parts EXCEPT ![Relay!Relay] = parts[Relay!Relay] \cup some]
      <4>1. /\ read \cup defects \in SUBSET (Relay!ProfileParts \cup Relay!Defects)
            /\ parts[Relay!Relay] \cup read \cup defects
                   = parts[Relay!Relay] \cup (read \cup defects)
        OBVIOUS
      <4> QED
        BY <3>1, <4>1
    <3> QED
      BY <1>4, <3>1 DEF Relay!GetProfile
  <2>5. parts' \in [Relays -> SUBSET (Relay!ProfileParts \cup Relay!Defects)]
    BY <2>1, <2>4 DEF Parameters
  <2> QED
    BY <2>1, <2>3, <2>5 DEF Parameters
<1>5. ASSUME NEW value \in BOOLEAN, Relay!SetEnabled(value) PROVE Parameters'
  BY <1>5 DEF Relay!SetEnabled, Relay!stored, Parameters
<1>6. CASE Relay!Restart
  BY <1>6 DEF Relay!Restart, Relay!stored, Parameters
<1>7. CASE Relay!EndCycle \/ (\E r \in Relays : Relay!NextRelay(r))
           \/ (\E s \in Slots : Relay!NextRecord(s)) \/ Relay!Disabled \/ Relay!ReadBlock
           \/ Relay!RecordFails
  BY <1>1, <1>7 DEF Relay!EndCycle, Relay!NextRelay, Relay!NextRecord, Relay!Disabled,
     Relay!ReadBlock, Relay!RecordFails, Relay!flag, Relay!stored
<1>8. CASE Relay!ReadReferences \/ Relay!ReadIndex \/ Relay!RecordsDone
           \/ Relay!RefreshLatestFault \/ Relay!Complete
  BY <1>1, <1>8 DEF Relay!ReadReferences, Relay!ReadIndex, Relay!RecordsDone,
     Relay!RefreshLatestFault, Relay!Complete, Relay!flag
<1>9. CASE \/ \E r \in Relays, s \in Slots : Relay!Records(r, s)
           \/ \E r \in Relays : Relay!Trips(r) \/ Relay!Wait(r)
           \/ Relay!ThreadDies \/ UNCHANGED ofRelay
  BY <1>1, <1>9 DEF Relay!Records, Relay!Trips, Relay!Wait, Relay!ThreadDies, Relay!flag, Relay!stored,
     ofRelay
<1> QED
  BY <1>2, <1>3, <1>4, <1>5, <1>6, <1>7, <1>8, <1>9
  DEF Relay!Next, Relay!Step, Relay!Environment

-----------------------------------------------------------------------------
(***************************************************************************)
(* All of them                                                             *)
(***************************************************************************)
TypesInv ==
    /\ BackendsInv
    /\ EventBounds /\ CountBounds /\ Parameters
    /\ Flags
    /\ RecordBounds /\ FlowKinds
    /\ ProbeBounds /\ MeasurementKept
    /\ RpcBounds
    /\ SessionKinds /\ MailKinds

\* The collectors, the download, the port check, the requests and the session stay
\* within their types: the queue of Lechu never outgrows its places (BoundedWorkQueue),
\* a request is not tried more often than it may be (mqtt_rpc.py), nor is a check
\* (globalping_probe.py), a retry of a relay stays at the last interval, and nothing
\* is stored that was not an event of the relay or a record of GWF.
THEOREM BackendsTypeCorrect == Spec => []TypeOK
<1>1. Init => TypesInv
  BY BackendsInit, RelayBoundsInit, FlagsInit, RecordBoundsInit, ProbeBoundsInit, RpcBoundsInit,
     KindsInit
  DEF Init, TypesInv
<1>2. TypesInv /\ [Next]_vars => TypesInv'
  BY BackendsNext, StepsOfServices, EventsStep, CountsStep, ParametersStep, FlagsStay,
     RecordsStep, FlowKindsStep, ProbeStaysBounded, MeasurementStays, RpcStaysBounded,
     SessionStep, MailStep
  DEF TypesInv, BackendsInv
<1>3. TypesInv => TypeOK
  BY RelayTyped, AnalyzerTyped, FlowTyped, ProbeTyped, RpcTyped, MqttTyped
  DEF TypesInv, BackendsInv, TypeOK
<1> QED
  BY <1>1, <1>2, <1>3, PTL DEF Spec
=============================================================================
