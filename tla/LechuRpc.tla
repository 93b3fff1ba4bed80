------------------------------ MODULE LechuRpc ------------------------------
(***************************************************************************)
(* The requests of the mobile application to Lechu over MQTT               *)
(* (mqtt_rpc.py): the network thread puts what arrives in a bounded queue, *)
(* one thread takes the requests in order, asks the service they are about *)
(* and publishes the answer.  The one that changes something, the test     *)
(* mail, is sent through the client of Mensagelo (mensagelo_client.py),    *)
(* which repeats it under one Idempotency-Key.                             *)
(*                                                                         *)
(* The broker (external) delivers a request at least once.  Mensagelo      *)
(* (external here, modules Mensagelo and AlarmDispatch) accepts a key once *)
(* and refuses it with another body.  A request is known by its corr.      *)
(***************************************************************************)
EXTENDS Integers, FiniteSets, Sequences

CONSTANTS
    Requests,
    QueueSize,   \* MQTT_RPC_QUEUE_MAXSIZE
    MaxRetries,  \* MENSAGELO_MAX_RETRIES
    MaxLosses    \* bound: second deliveries, requests and answers that are lost

VARIABLES
    kind,     \* what each request asks for
    pending,  \* deliveries of each request that are still to come
    inbox,    \* _listener_queue
    router,   \* the thread of start
    minute,   \* what the clock shows, which the body of a mail may quote
    mails,    \* Mensagelo: the mails it accepted, a body for each key
    answers,  \* what was published for each request, in order
    served,   \* history: deliveries of each request taken from the queue
    faults

rpcVars == <<kind, pending, inbox, router, minute, mails, answers, served>>
vars == <<rpcVars, faults>>

\* A mail whose body Lechu writes quotes the time; one that comes with a body
\* does not.  A request may have an invalid reply_to or an unknown action, be no
\* JSON at all, or be JSON that is not an object.
Kinds == {"read", "timed_mail", "mail", "unsupported", "unanswerable", "not_object"}
Waiting == [at |-> "wait", request |-> CHOOSE r \in Requests : TRUE, attempt |-> 0,
            body |-> 0, outcome |-> "none"]

Init ==
    /\ kind \in [Requests -> Kinds]
    /\ pending = [r \in Requests |-> 1]
    /\ inbox = <<>> /\ router = Waiting
    /\ minute = 1
    /\ mails = {}
    /\ answers = [r \in Requests |-> <<>>]
    /\ served = [r \in Requests |-> 0]
    /\ faults = 0

Fail == faults < MaxLosses /\ faults' = faults + 1

-----------------------------------------------------------------------------
(* The broker, the clock and the network thread.                           *)

\* A mutant of Deliver: the queue has no bound.
DeliverUnbounded(r) ==
    /\ pending[r] > 0
    /\ inbox' = Append(inbox, r)
    /\ pending' = [pending EXCEPT ![r] = @ - 1]
    /\ UNCHANGED <<kind, router, minute, mails, answers, served, faults>>

\* A request that finds the queue full is dropped with a line in the log.
Deliver(r) ==
    /\ pending[r] > 0
    /\ inbox' = IF Len(inbox) < QueueSize THEN Append(inbox, r) ELSE inbox
    /\ pending' = [pending EXCEPT ![r] = @ - 1]
    /\ UNCHANGED <<kind, router, minute, mails, answers, served, faults>>

Duplicate(r) ==
    /\ Fail
    /\ pending' = [pending EXCEPT ![r] = @ + 1]
    /\ UNCHANGED <<kind, inbox, router, minute, mails, answers, served>>

Tick ==
    /\ minute = 1 /\ minute' = 2
    /\ UNCHANGED <<kind, pending, inbox, router, mails, answers, served, faults>>

-----------------------------------------------------------------------------
(* The thread of the requests.                                             *)

IsMail(r) == kind[r] \in {"mail", "timed_mail"}
Body(r) == IF kind[r] = "timed_mail" THEN minute ELSE 0
Emit(outcome) == router' = [router EXCEPT !.at = "emit", !.outcome = outcome]

\* A mutant of Take: an action nobody knows is not answered.
TakeUnanswered ==
    /\ router.at = "wait" /\ inbox # <<>>
    /\ LET r == Head(inbox)
           taken == [Waiting EXCEPT !.request = r, !.attempt = 1, !.body = Body(r)]
       IN  /\ router' = CASE kind[r] \in {"unanswerable", "unsupported"} -> Waiting
                          [] kind[r] = "not_object" -> [taken EXCEPT !.at = "dead"]
                          [] kind[r] = "read" -> [taken EXCEPT !.at = "ask"]
                          [] OTHER -> [taken EXCEPT !.at = "post"]
           /\ served' = [served EXCEPT ![r] = @ + 1]
    /\ inbox' = Tail(inbox)
    /\ UNCHANGED <<kind, pending, minute, mails, answers, faults>>

\* What is not JSON, or has nobody to answer, is dropped with a line in the log.  JSON
\* that is not an object raises out of the loop (req.get) and ends the thread, which
\* nobody starts again.
Take ==
    /\ router.at = "wait" /\ inbox # <<>>
    /\ LET r == Head(inbox)
           taken == [Waiting EXCEPT !.request = r, !.attempt = 1, !.body = Body(r)]
       IN  /\ router' = CASE kind[r] = "unanswerable" -> Waiting
                          [] kind[r] = "not_object" -> [taken EXCEPT !.at = "dead"]
                          [] kind[r] = "unsupported" ->
                                 [taken EXCEPT !.at = "emit", !.outcome = "error"]
                          [] kind[r] = "read" -> [taken EXCEPT !.at = "ask"]
                          [] OTHER -> [taken EXCEPT !.at = "post"]
           /\ served' = [served EXCEPT ![r] = @ + 1]
    /\ inbox' = Tail(inbox)
    /\ UNCHANGED <<kind, pending, minute, mails, answers, faults>>

\* The states of the GRD, the modem, the generators, the mails and the release
\* of the application are asked once.
Ask ==
    /\ router.at = "ask"
    /\ \/ Emit("ok") /\ UNCHANGED faults
       \/ Fail /\ Emit("error")
    /\ UNCHANGED <<kind, pending, inbox, minute, mails, answers, served>>

\* A mutant of Key: every delivery of a request is a mail of its own.
KeyOfDelivery == <<router.request, served[router.request]>>

\* The Idempotency-Key is made of the corr of the request.
Key == <<router.request, 0>>

\* Network errors, and answers that say the service is full, are repeated.
Repeat ==
    IF router.attempt <= MaxRetries
    THEN router' = [router EXCEPT !.attempt = @ + 1]
    ELSE Emit("error")

Accepted == mails \cup {[key |-> Key, body |-> router.body]}
Conflict == \E m \in mails : m.key = Key /\ m.body # router.body

Post ==
    /\ router.at = "post"
    /\ \/ /\ ~Conflict /\ mails' = Accepted
          /\ Emit("ok")
          /\ UNCHANGED faults
       \/ /\ Conflict /\ Emit("error")
          /\ UNCHANGED <<mails, faults>>
       \/ \* the request is lost or refused, or its answer is
          /\ Fail /\ Repeat
          /\ mails' \in {mails} \cup (IF Conflict THEN {} ELSE {Accepted})
       \/ \* an answer that ends the attempts: not authorised, not valid JSON
          /\ Fail /\ Emit("error")
          /\ mails' \in {mails} \cup (IF Conflict THEN {} ELSE {Accepted})
    /\ UNCHANGED <<kind, pending, inbox, minute, answers, served>>

\* An answer that is published while the session is down is lost.
Answer ==
    /\ router.at = "emit"
    /\ \/ /\ answers' = [answers EXCEPT ![router.request] = Append(@, router.outcome)]
          /\ UNCHANGED faults
       \/ /\ Fail
          /\ answers' = [answers EXCEPT ![router.request] = Append(@, "lost")]
    /\ router' = Waiting
    /\ UNCHANGED <<kind, pending, inbox, minute, mails, served>>

Step == Take \/ Ask \/ Post \/ Answer

Environment == Tick \/ \E r \in Requests : Duplicate(r)

Next == Step \/ Environment \/ \E r \in Requests : Deliver(r)

Spec == Init /\ [][Next]_vars

-----------------------------------------------------------------------------
TypeOK ==
    /\ kind \in [Requests -> Kinds]
    /\ pending \in [Requests -> Nat] /\ served \in [Requests -> Nat]
    /\ inbox \in Seq(Requests) /\ Len(inbox) <= QueueSize
    /\ router \in [at : {"wait", "ask", "post", "emit", "dead"}, request : Requests,
                   attempt : 0 .. MaxRetries + 1, body : 0 .. 2,
                   outcome : {"none", "ok", "error"}]
    /\ minute \in 1 .. 2
    /\ \A r \in Requests : answers[r] \in Seq({"ok", "error", "lost"})

MailsOf(r) == {m \in mails : m.key[1] = r}

\* However often a request is delivered and its mail is posted, one mail is
\* accepted at most; and who is told it was accepted can rely on it.
OneMailPerRequest ==
    \A r \in Requests :
        /\ Cardinality(MailsOf(r)) <= 1
        /\ IsMail(r) /\ (\E i \in 1 .. Len(answers[r]) : answers[r][i] = "ok")
               => MailsOf(r) # {}
        /\ ~IsMail(r) => MailsOf(r) = {}

Unanswered == {"unanswerable", "not_object"}

\* Every delivery the thread took is answered once, if it can be answered; and those
\* the queue took were taken, unless one of them ended the thread.
Agrees ==
    /\ router.at # "dead" => inbox = <<>> /\ router.at = "wait"
    /\ \A r \in Requests :
         Len(answers[r]) = (IF kind[r] \in Unanswered THEN 0 ELSE served[r])
=============================================================================
