--------------------------- MODULE ModbusTransport ---------------------------
(***************************************************************************)
(* One physical endpoint of modbus-transport-service: the HTTP handlers    *)
(* that put work in its queue and wait, each in a thread of its own, the   *)
(* worker thread that owns the socket (endpoint_worker.py), the shutdown   *)
(* handler that stops it, and the device at the other end of the socket.   *)
(*                                                                         *)
(* The queue and the events done and cancelled are shared; the handler     *)
(* that gives up and the worker that looks at "cancelled" take steps of    *)
(* their own, so either may come first.                                    *)
(***************************************************************************)
EXTENDS Integers, Sequences

CONSTANTS
    Reads,     \* requests to /internal/v1/read
    Connects,  \* requests to /internal/v1/endpoints/{endpoint}/connect
    QueueMax,  \* QUEUE_MAXSIZE
    Attempts,  \* attempts of the endpoint
    Nobody     \* no request; in the queue, the None that stop() puts there

ASSUME EndpointAssumption ==
    /\ QueueMax \in Nat \ {0} /\ Attempts \in Nat \ {0}
    /\ Reads \cap Connects = {}
    /\ Nobody \notin Reads \cup Connects
    /\ Reads \cap {"none", "dropped", "failed", "connected"} = {}

Requests == Reads \cup Connects

VARIABLES
    handler,   \* where the handler of each request is
    queue,     \* the items in the queue
    cancelled, \* items whose event "cancelled" is set
    done,      \* items whose event "done" is set
    result,    \* the result of each item; of a read, whose answer it holds
    worker,    \* the thread: where it is, its item and the attempt
    socket,    \* its connection, and the questions not yet answered on it
    stopper    \* where stop() is; stop_event is set once it has begun

vars == <<handler, queue, cancelled, done, result, worker, socket, stopper>>

Stopping == stopper # "none"
Closed == [client |-> FALSE, connected |-> FALSE, owed |-> {}]
Open == [client |-> TRUE, connected |-> TRUE, owed |-> {}]
Refused == [client |-> TRUE, connected |-> FALSE, owed |-> {}]
Connected == socket.connected /\ socket.client

At(place, item, attempt) == [pc |-> place, item |-> item, attempt |-> attempt]

-----------------------------------------------------------------------------
\* Mutants of the actions below.
LoopUntilNone ==
    /\ worker.pc = "loop"
    /\ worker' = At("get", Nobody, 0)
    /\ UNCHANGED <<handler, queue, cancelled, done, result, socket, stopper>>

LookAtNothing ==
    /\ worker.pc = "check"
    /\ worker' = At("start", worker.item, 0)
    /\ UNCHANGED <<handler, queue, cancelled, done, result, socket, stopper>>

AskAgainOnTheSameSocket(outcome) ==
    /\ worker.pc = "ask"
    /\ \/ /\ outcome = "answer"
          /\ \E r \in socket.owed \cup {worker.item} :
                result' = [result EXCEPT ![worker.item] = r]
          /\ worker' = At("finish", worker.item, worker.attempt)
          /\ UNCHANGED socket
       \/ /\ outcome \in {"silence", "invalid"}
          /\ socket' = [socket EXCEPT !.owed =
                          IF outcome = "silence" THEN @ \cup {worker.item} ELSE @]
          /\ worker' = At("next", worker.item, worker.attempt)
          /\ UNCHANGED result
    /\ UNCHANGED <<handler, queue, cancelled, done, stopper>>

FinishOnSuccess ==
    /\ worker.pc = "finish"
    /\ done' = IF result[worker.item] = "failed" THEN done ELSE done \cup {worker.item}
    /\ worker' = At("loop", Nobody, 0)
    /\ UNCHANGED <<handler, queue, cancelled, result, socket, stopper>>

-----------------------------------------------------------------------------
Init ==
    /\ handler = [r \in Requests |-> "new"]
    /\ queue = <<>>
    /\ cancelled = {}
    /\ done = {}
    /\ result = [r \in Requests |-> "none"]
    /\ worker = At("loop", Nobody, 0)
    /\ socket = Closed
    /\ stopper = "none"

(* _submit, in the handler's thread *)

\* put_nowait: a full queue is answered 503.  The server hands no request to
\* a handler once it shuts down.
Submit(r) ==
    /\ ~Stopping
    /\ handler[r] = "new"
    /\ IF Len(queue) < QueueMax
       THEN /\ queue' = Append(queue, r)
            /\ handler' = [handler EXCEPT ![r] = "waiting"]
       ELSE /\ handler' = [handler EXCEPT ![r] = "rejected"]
            /\ UNCHANGED queue
    /\ UNCHANGED <<cancelled, done, result, worker, socket, stopper>>

Answer(r) ==
    /\ handler[r] = "waiting"
    /\ r \in done
    /\ handler' = [handler EXCEPT ![r] = "answered"]
    /\ UNCHANGED <<queue, cancelled, done, result, worker, socket, stopper>>

\* done.wait(wait_timeout) returns False.
Expire(r) ==
    /\ handler[r] = "waiting"
    /\ r \notin done
    /\ handler' = [handler EXCEPT ![r] = "expired"]
    /\ UNCHANGED <<queue, cancelled, done, result, worker, socket, stopper>>

\* cancelled.set() and 504, whatever the worker did meanwhile.
Cancel(r) ==
    /\ handler[r] = "expired"
    /\ cancelled' = cancelled \cup {r}
    /\ handler' = [handler EXCEPT ![r] = "timedout"]
    /\ UNCHANGED <<queue, done, result, worker, socket, stopper>>

-----------------------------------------------------------------------------
(* The worker thread *)

Loop ==
    /\ worker.pc = "loop"
    /\ worker' = At(IF Stopping THEN "ended" ELSE "get", Nobody, 0)
    /\ UNCHANGED <<handler, queue, cancelled, done, result, socket, stopper>>

\* queue.get() blocks while the queue is empty.
Get ==
    /\ worker.pc = "get"
    /\ queue # <<>>
    /\ queue' = Tail(queue)
    /\ worker' = IF Head(queue) = Nobody
                 THEN At("ended", Nobody, 0)
                 ELSE At("check", Head(queue), 0)
    /\ UNCHANGED <<handler, cancelled, done, result, socket, stopper>>

Look ==
    /\ worker.pc = "check"
    /\ IF worker.item \in cancelled
       THEN /\ result' = [result EXCEPT ![worker.item] = "dropped"]
            /\ done' = done \cup {worker.item}
            /\ worker' = At("loop", Nobody, 0)
       ELSE /\ worker' = At("start", worker.item, 0)
            /\ UNCHANGED <<done, result>>
    /\ UNCHANGED <<handler, queue, cancelled, socket, stopper>>

\* _connect keeps a connection that is there and otherwise replaces it.
Reconnected == IF Connected THEN {socket} ELSE {Open, Refused}

\* A request to connect has its result at once.
TryConnect ==
    /\ worker.pc = "start" /\ worker.item \in Connects
    /\ socket' \in Reconnected
    /\ result' = [result EXCEPT ![worker.item] =
                    IF socket'.connected THEN "connected" ELSE "failed"]
    /\ worker' = At("finish", worker.item, 0)
    /\ UNCHANGED <<handler, queue, cancelled, done, stopper>>

\* The head of the loop of _execute_read: the next attempt, or none is left.
Attempt ==
    /\ \/ worker.pc = "start" /\ worker.item \in Reads
       \/ worker.pc = "next"
    /\ IF worker.attempt < Attempts
       THEN /\ socket' \in Reconnected
            /\ worker' = At(IF socket'.connected THEN "ask" ELSE "next",
                            worker.item, worker.attempt + 1)
            /\ UNCHANGED result
       ELSE /\ result' = [result EXCEPT ![worker.item] = "failed"]
            /\ worker' = At("finish", worker.item, worker.attempt)
            /\ UNCHANGED socket
    /\ UNCHANGED <<handler, queue, cancelled, done, stopper>>

\* The question is sent, and the first answer on the connection is taken for
\* its answer.  Without one in time the answer may still come later.
Ask(outcome) ==
    /\ worker.pc = "ask"
    /\ \/ /\ outcome = "answer"
          /\ \E r \in socket.owed \cup {worker.item} :
                result' = [result EXCEPT ![worker.item] = r]
          /\ worker' = At("finish", worker.item, worker.attempt)
          /\ UNCHANGED socket
       \/ /\ outcome \in {"silence", "invalid"}
          /\ socket' = [socket EXCEPT !.owed =
                          IF outcome = "silence" THEN @ \cup {worker.item} ELSE @]
          /\ worker' = At("close", worker.item, worker.attempt)
          /\ UNCHANGED result
    /\ UNCHANGED <<handler, queue, cancelled, done, stopper>>

\* _disconnect after an attempt that failed.
Disconnect ==
    /\ worker.pc = "close"
    /\ socket' = Closed
    /\ worker' = At("next", worker.item, worker.attempt)
    /\ UNCHANGED <<handler, queue, cancelled, done, result, stopper>>

\* The finally of _execute_item.
Finish ==
    /\ worker.pc = "finish"
    /\ done' = done \cup {worker.item}
    /\ worker' = At("loop", Nobody, 0)
    /\ UNCHANGED <<handler, queue, cancelled, result, socket, stopper>>

Work ==
    \/ Loop
    \/ Get
    \/ Look
    \/ TryConnect
    \/ Attempt
    \/ \E outcome \in {"answer", "silence", "invalid"} : Ask(outcome)
    \/ Disconnect
    \/ Finish

-----------------------------------------------------------------------------
(* stop(), in the shutdown handler of app.py.  The server calls it when its  *)
(* handlers have ended.                                                      *)

BeginStop ==
    /\ stopper = "none"
    /\ \A r \in Requests : handler[r] \notin {"waiting", "expired"}
    /\ stopper' = "put"
    /\ UNCHANGED <<handler, queue, cancelled, done, result, worker, socket>>

\* A full queue keeps the None out.
PutNone ==
    /\ stopper = "put"
    /\ queue' = IF Len(queue) < QueueMax THEN Append(queue, Nobody) ELSE queue
    /\ stopper' = "join"
    /\ UNCHANGED <<handler, cancelled, done, result, worker, socket>>

Joined ==
    /\ stopper = "join"
    /\ worker.pc = "ended"
    /\ socket' = Closed
    /\ stopper' = "stopped"
    /\ UNCHANGED <<handler, queue, cancelled, done, result, worker>>

\* join gives up on a worker that is still reading: RuntimeError.
JoinExpires ==
    /\ stopper = "join"
    /\ worker.pc # "ended"
    /\ stopper' = "error"
    /\ UNCHANGED <<handler, queue, cancelled, done, result, worker, socket>>

Stop == BeginStop \/ PutNone \/ Joined \/ JoinExpires

Next ==
    \/ \E r \in Requests : Submit(r) \/ Answer(r) \/ Expire(r) \/ Cancel(r)
    \/ Work
    \/ Stop

Spec == Init /\ [][Next]_vars

\* The worker's thread goes on whenever it can: every call on the socket has a
\* timeout.  A handler ends, and so does stop() once it has begun.
FairSpec ==
    /\ Spec
    /\ WF_vars(Work)
    /\ \A r \in Requests : WF_vars(Answer(r) \/ Expire(r) \/ Cancel(r))
    /\ WF_vars(PutNone \/ Joined \/ JoinExpires)

-----------------------------------------------------------------------------
(* Properties *)

\* Every variable holds a value of its kind; in particular the queue never
\* exceeds its maximum, with the None of stop() in it too.
TypeOK ==
    /\ handler \in [Requests -> {"new", "waiting", "expired", "answered",
                                 "timedout", "rejected"}]
    /\ queue \in Seq(Requests \cup {Nobody}) /\ Len(queue) <= QueueMax
    /\ cancelled \subseteq Requests
    /\ done \subseteq Requests
    /\ result \in [Requests -> Reads \cup {"none", "dropped", "failed", "connected"}]
    /\ worker \in [pc : {"loop", "get", "check", "start", "ask", "close",
                         "next", "finish", "ended"},
                   item : Requests \cup {Nobody},
                   attempt : 0 .. Attempts]
    /\ socket \in [client : BOOLEAN, connected : BOOLEAN, owed : SUBSET Reads]
    /\ stopper \in {"none", "put", "join", "stopped", "error"}

\* A handler that answers has a result, and registers in it are the device's
\* answer to this very request, never a late answer to an earlier one that
\* timed out on the same connection.
AnswersAreOwn ==
    \A r \in Requests :
        /\ handler[r] = "answered" => result[r] # "none"
        /\ result[r] \in Reads => result[r] = r

\* The endpoint is a first-in first-out line of one server: what the worker
\* holds and has not looked at still waits, before all that is in the queue, and a
\* cancelled item has left.
Held(r) == worker.pc = "check" /\ worker.item = r
Queued(r) == \E i \in DOMAIN queue : queue[i] = r
Waiting == {r \in Requests : r \notin cancelled /\ (Held(r) \/ Queued(r))}
Precedes(q, r) ==
    \/ Held(q) /\ Queued(r)
    \/ \E i, j \in DOMAIN queue : i < j /\ queue[i] = q /\ queue[j] = r
Busy == worker.pc \in {"start", "ask", "close", "next", "finish"}

Line == INSTANCE EndpointQueue WITH
    known   <- {r \in Requests : handler[r] \notin {"new", "rejected"}},
    waiting <- Waiting,
    before  <- {pair \in Waiting \X Waiting : Precedes(pair[1], pair[2])},
    serving <- IF Busy THEN worker.item ELSE Nobody

ImplementsEndpointQueue == Line!Spec

\* The worker settles every item that got into the queue, also those behind
\* items that failed or were cancelled and those whose handler has left, unless
\* the service is stopped first.
EveryItemSettles ==
    \A r \in Requests : handler[r] = "waiting" ~> (r \in done \/ Stopping)

\* Once stop() has begun the thread ends, also when it was about to block in
\* get() or when the queue was too full for the None.
StopEndsTheWorker == stopper = "put" ~> worker.pc = "ended"
=============================================================================
