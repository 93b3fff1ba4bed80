----------------------------- MODULE LechuMqtt ------------------------------
(***************************************************************************)
(* The MQTT session of Lechu (mqtt_driver.py, mqtt_client_manager.py) and  *)
(* who uses it: the switch of the operator (broker_service.py), the thread *)
(* of the requests that subscribes once (mqtt_rpc.py) and the monitor of   *)
(* the mail server that publishes a retained status (estado_email.py,      *)
(* mqtt_topic_publisher.py).  The network thread of paho (external) keeps  *)
(* connecting while its loop runs and calls back on_connect and            *)
(* on_disconnect; the broker (external) has a clean session, publishes the *)
(* will when a connection is lost and forgets it when it is closed.  paho  *)
(* keeps a status the broker has not confirmed, and repeats it in the next *)
(* session once on_connect is done.  One request at a time is inside stop, *)
(* and paho makes no connection between the disconnection it was asked for *)
(* and the end of its loop.                                                *)
(***************************************************************************)
EXTENDS Integers, FiniteSets

CONSTANTS
    MaxChanges,  \* bound: turns of the switch, changes of the mail server
    MaxFaults    \* bound: lost connections, writes that fail, restarts

VARIABLES
    wire,       \* the broker's view: is there a session?
    rpcHeard,   \* ... is it subscribed to the requests?
    presence,   \* ... the retained status of Lechu
    mailTopic,  \* ... the retained status of the mail server
    wanted,     \* stored: mqtt_connection_enabled
    online,     \* MqttDriver._connected
    looping,    \* MqttDriver._loop_started
    began,      \* MqttClientManager._started
    starter,    \* the thread inside start, if any (_starting)
    caller,     \* is there a thread about to call start for the operator?
    stopping,   \* how far the thread inside stop has come
    net,        \* where the network thread is
    rpcAsked,   \* are the requests among the topics of _on_driver_connect?
    rpc,        \* how far the thread of the requests has come
    mailServer, \* what a check of the mail server would find
    healthFile, \* stored: email_health
    monitored,  \* the monitor of the mail server
    silent,     \* history: was the last publication counted but not made?
    unconfirmed, \* paho: the session of an "offline" of stop it may repeat
    overtaken,  \* history: was presence last written in a session that was being
                \* stopped, repeated from an earlier one, or left by a stop that
                \* took a session for none?
    changes, faults

statusVars == <<presence, unconfirmed, overtaken>>
brokerVars == <<wire, rpcHeard, statusVars, mailTopic>>
sessionVars == <<online, looping, began, starter, caller, stopping, net>>
healthVars == <<mailServer, healthFile, monitored, silent>>
mqttVars == <<brokerVars, wanted, sessionVars, rpcAsked, rpc, healthVars>>
vars == <<mqttVars, changes, faults>>

Statuses == {"conectado", "desconectado"}
Watching == [at |-> "asleep", read |-> "none", last |-> "none"]

\* _start_background_services: the session is started if the switch is on.
Booted(on) ==
    /\ online' = FALSE /\ looping' = FALSE /\ began' = FALSE
    /\ starter' = "none" /\ caller' = on /\ stopping' = "none" /\ net' = "none"
    /\ unconfirmed' = "none"
    /\ rpcAsked' = FALSE /\ rpc' = "append"
    /\ monitored' = Watching

Init ==
    /\ wire = FALSE /\ rpcHeard = FALSE /\ presence = "none" /\ mailTopic = "none"
    /\ wanted \in BOOLEAN
    /\ online = FALSE /\ looping = FALSE /\ began = FALSE
    /\ starter = "none" /\ caller = wanted /\ stopping = "none"
    /\ net = "none" /\ unconfirmed = "none" /\ overtaken = FALSE
    /\ rpcAsked = FALSE /\ rpc = "append"
    /\ mailServer = "conectado" /\ healthFile = "none" /\ monitored = Watching
    /\ silent = FALSE
    /\ changes = 0 /\ faults = 0

Fail == faults < MaxFaults /\ faults' = faults + 1
Change == changes < MaxChanges /\ changes' = changes + 1

Sleep == [monitored EXCEPT !.at = "asleep", !.read = "none"]

-----------------------------------------------------------------------------
(* The broker and the network thread.                                      *)

\* The retained status changes, unless it is said without a session.
Says(status, late) ==
    IF wire /\ online THEN presence' = status /\ overtaken' = late
    ELSE UNCHANGED presence /\ overtaken' = (overtaken \/ (wire /\ status = "offline"))

Cut ==
    /\ wire' = FALSE /\ rpcHeard' = FALSE
    /\ presence' = IF wire THEN "offline" ELSE presence
    /\ overtaken' = (overtaken /\ ~wire)

Lose ==
    /\ wire /\ Fail /\ Cut
    /\ UNCHANGED <<unconfirmed, mailTopic, wanted, sessionVars, rpcAsked, rpc, healthVars,
                   changes>>

Connect ==
    /\ looping /\ net = "none" /\ ~wire /\ ~online /\ stopping # "join"
    /\ wire' = TRUE /\ rpcHeard' = FALSE
    /\ online' = TRUE /\ net' = "connected"
    /\ unconfirmed' \in {"none", IF unconfirmed = "now" THEN "before" ELSE unconfirmed}
    /\ UNCHANGED <<presence, overtaken, mailTopic, wanted, looping, began, starter, caller,
                   stopping, rpcAsked, rpc, healthVars, changes, faults>>

\* A mutant of Resubscribe: only the topics of the configuration are asked for.
ResubscribeDefaults == UNCHANGED rpcHeard

Resubscribe == rpcHeard' = (rpcHeard \/ (wire /\ online /\ rpcAsked))

\* The "online" that follows an "offline" in one session is the last to be repeated.
Announce ==
    /\ Says("online", stopping = "disconnect")
    /\ unconfirmed' = IF online /\ unconfirmed = "now" THEN "none" ELSE unconfirmed

OnConnect ==
    /\ net = "connected"
    /\ Resubscribe /\ Announce
    /\ net' = IF unconfirmed = "before" THEN "repeat" ELSE "none"
    /\ UNCHANGED <<wire, mailTopic, wanted, online, looping, began, starter, caller, stopping,
                   rpcAsked, rpc, healthVars, changes, faults>>

\* paho sends again what an earlier session left unconfirmed.
Repeat ==
    /\ net = "repeat" /\ net' = "none"
    /\ IF wire
       THEN presence' = "offline" /\ overtaken' = TRUE /\ unconfirmed' = "now"
       ELSE UNCHANGED statusVars
    /\ UNCHANGED <<wire, rpcHeard, mailTopic, wanted, online, looping, began, starter,
                   caller, stopping, rpcAsked, rpc, healthVars, changes, faults>>

\* The status that is published here is given up: the client is disconnected.
OnDisconnect ==
    /\ net = "none" /\ online /\ ~wire
    /\ online' = FALSE
    /\ UNCHANGED <<brokerVars, wanted, looping, began, starter, caller, stopping, net,
                   rpcAsked, rpc, healthVars, changes, faults>>

-----------------------------------------------------------------------------
(* MqttClientManager.start: one thread at a time is inside, and a session  *)
(* that was ever established is not started again.                         *)

Enter(who) == starter' = who /\ looping' = TRUE

Call ==
    /\ caller /\ caller' = FALSE
    /\ IF began \/ starter # "none" THEN UNCHANGED <<starter, looping>> ELSE Enter("operator")
    /\ UNCHANGED <<brokerVars, wanted, online, began, stopping, net, rpcAsked, rpc,
                   healthVars, changes, faults>>

\* The wait for on_connect ends well or not; then _started is set.
Started ==
    /\ starter \in {"operator", "monitor"}
    /\ IF online
       THEN /\ starter' = IF starter = "operator" THEN "confirmed" ELSE "monitor confirmed"
            /\ UNCHANGED monitored
       ELSE /\ starter' = "none"
            /\ monitored' = IF starter = "monitor" THEN Sleep ELSE monitored
    /\ UNCHANGED <<brokerVars, wanted, online, looping, began, caller, stopping, net,
                   rpcAsked, rpc, mailServer, healthFile, silent, changes, faults>>

Confirm ==
    /\ starter \in {"confirmed", "monitor confirmed"}
    /\ began' = TRUE /\ starter' = "none"
    /\ monitored' = IF starter = "monitor confirmed" THEN [monitored EXCEPT !.at = "send"]
                    ELSE monitored
    /\ UNCHANGED <<brokerVars, wanted, online, looping, caller, stopping, net, rpcAsked, rpc,
                   mailServer, healthFile, silent, changes, faults>>

-----------------------------------------------------------------------------
(* The switch.                                                             *)

SwitchOn ==
    /\ Change /\ wanted' = TRUE
    /\ caller' = (caller \/ (~online /\ ~began)) \* the status is "desconectado"
    /\ UNCHANGED <<brokerVars, online, looping, began, starter, stopping, net, rpcAsked, rpc,
                   healthVars, faults>>

\* stop takes no lock: the network thread goes on between its steps.  The status is
\* given up without a session, ...
StopPublishes ==
    /\ Change /\ wanted' = FALSE
    /\ stopping = "none" /\ stopping' = "disconnect"
    /\ Says("offline", FALSE)
    /\ unconfirmed' = IF online THEN "now" ELSE unconfirmed
    /\ UNCHANGED <<wire, rpcHeard, mailTopic, online, looping, began, starter, caller, net,
                   rpcAsked, rpc, healthVars, faults>>

\* ... the session, if there is one by now, is closed without a will, ...
StopDisconnects ==
    /\ stopping = "disconnect" /\ stopping' = "join"
    /\ wire' = FALSE /\ rpcHeard' = FALSE
    /\ UNCHANGED <<statusVars, mailTopic, wanted, online, looping, began, starter, caller,
                   net, rpcAsked, rpc, healthVars, changes, faults>>

\* ... the loop is joined, ...
StopJoins ==
    /\ stopping = "join" /\ net = "none"
    /\ stopping' = "clear" /\ looping' = FALSE
    /\ UNCHANGED <<brokerVars, wanted, online, began, starter, caller, net, rpcAsked, rpc,
                   healthVars, changes, faults>>

\* ... and there is no session and no start, whoever made one since.
Stopped ==
    /\ stopping = "clear" /\ stopping' = "none"
    /\ online' = FALSE /\ began' = FALSE
    /\ UNCHANGED <<brokerVars, wanted, looping, starter, caller, net, rpcAsked, rpc,
                   healthVars, changes, faults>>

-----------------------------------------------------------------------------
(* The thread of the requests: MqttClientManager.subscribe, then the       *)
(* registration of its listener.                                           *)

Subscribe ==
    \/ rpc = "append" /\ rpcAsked' = TRUE /\ rpc' = "check" /\ UNCHANGED rpcHeard
    \/ /\ rpc = "check" /\ rpc' = "listening"
       /\ rpcHeard' = (rpcHeard \/ (online /\ wire))
       /\ UNCHANGED rpcAsked

RpcStarts ==
    /\ Subscribe
    /\ UNCHANGED <<wire, statusVars, mailTopic, wanted, sessionVars, healthVars, changes,
                   faults>>

-----------------------------------------------------------------------------
(* The monitor of the mail server.                                         *)

MailServerChanges ==
    /\ Change
    /\ \E s \in Statuses \ {mailServer} : mailServer' = s
    /\ UNCHANGED <<brokerVars, wanted, sessionVars, rpcAsked, rpc, healthFile, monitored,
                   silent, faults>>


Reads(place) == monitored' = [monitored EXCEPT !.at = place, !.read = mailServer]

\* _ensure_started: without a session start is called, which says yes at once
\* when there has been one, and no while another thread is inside.
EnsureStarted ==
    \/ /\ ~online /\ ~began /\ starter = "none"
       /\ Enter("monitor") /\ Reads("starting")
    \/ (online \/ began) /\ Reads("send") /\ UNCHANGED <<starter, looping>>
    \/ /\ ~online /\ ~began /\ starter # "none"
       /\ UNCHANGED <<monitored, starter, looping>>

\* What was found is stored, and published if it is news; or the turn ends with an
\* error.
CheckMail ==
    /\ monitored.at = "asleep"
    /\ \/ /\ healthFile' = mailServer
          /\ IF mailServer = monitored.last
             THEN UNCHANGED <<monitored, starter, looping>>
             ELSE EnsureStarted
          /\ UNCHANGED faults
       \/ Fail /\ UNCHANGED <<healthFile, monitored, starter, looping>>
    /\ UNCHANGED <<brokerVars, wanted, online, began, caller, stopping, net, rpcAsked, rpc,
                   mailServer, silent, changes>>

\* What is sent without a session is given up with a line in the log, and counts
\* as published.
SendHealth ==
    /\ monitored.at = "send"
    /\ mailTopic' = IF online /\ wire THEN monitored.read ELSE mailTopic
    /\ silent' = ~(online /\ wire)
    /\ monitored' = [Sleep EXCEPT !.last = monitored.read]
    /\ UNCHANGED <<wire, rpcHeard, statusVars, wanted, sessionVars, rpcAsked, rpc, mailServer,
                   healthFile, changes, faults>>

Restart ==
    /\ Fail /\ Cut /\ Booted(wanted)
    /\ UNCHANGED <<mailTopic, wanted, mailServer, healthFile, silent, changes>>

-----------------------------------------------------------------------------
Network == Connect \/ OnConnect \/ Repeat \/ OnDisconnect
Stopping == StopDisconnects \/ StopJoins \/ Stopped
Threads == Call \/ Started \/ Confirm \/ Stopping \/ RpcStarts
MailMonitor == CheckMail \/ SendHealth
Environment == Lose \/ SwitchOn \/ StopPublishes \/ MailServerChanges \/ Restart

Next == Network \/ Threads \/ MailMonitor \/ Environment

Spec == Init /\ [][Next]_vars

-----------------------------------------------------------------------------
TypeOK ==
    /\ wire \in BOOLEAN /\ rpcHeard \in BOOLEAN
    /\ presence \in {"none", "online", "offline"}
    /\ mailTopic \in Statuses \cup {"none"}
    /\ wanted \in BOOLEAN /\ online \in BOOLEAN /\ looping \in BOOLEAN /\ began \in BOOLEAN
    /\ starter \in {"none", "operator", "monitor", "confirmed", "monitor confirmed"}
    /\ caller \in BOOLEAN
    /\ stopping \in {"none", "disconnect", "join", "clear"}
    /\ net \in {"none", "connected", "repeat"}
    /\ unconfirmed \in {"none", "now", "before"} /\ overtaken \in BOOLEAN
    /\ rpcAsked \in BOOLEAN /\ rpc \in {"append", "check", "listening"}
    /\ mailServer \in Statuses /\ healthFile \in Statuses \cup {"none"}
    /\ monitored \in [at : {"asleep", "starting", "send"},
                      read : Statuses \cup {"none"}, last : Statuses \cup {"none"}]
    /\ silent \in BOOLEAN

\* Once the callbacks are done, a session that nobody is stopping hears the requests,
\* whichever came first, it or the thread that subscribes; and the retained status
\* says whether there is a session, however it ended, unless a stop overtook the
\* callback that wrote it or what an earlier session said was repeated.
SessionIsHonest ==
    /\ ~wire /\ ~overtaken => presence # "online"
    /\ wire /\ online /\ net = "none" /\ stopping = "none" =>
          /\ presence = "online" \/ overtaken
          /\ rpc = "listening" => rpcHeard

\* No loop runs and nobody is about to start one: a request to connect came
\* while the session was being stopped, or a start ended after a stop.
Abandoned == ~looping /\ starter = "none" /\ ~caller

\* There is a session and the driver was told there is none: it was made while
\* the last one was being stopped.
Overwritten == wire /\ ~online /\ net = "none"

\* With the switch on there is a session, and the retained status of the mail
\* server is its last unless its publication was given up.
Agrees ==
    /\ wanted => \/ Abandoned \/ Overwritten
                 \/ wire /\ online /\ rpcHeard /\ (presence = "online" \/ overtaken)
    /\ healthFile = mailServer
    /\ online /\ ~silent => mailTopic = mailServer
=============================================================================
