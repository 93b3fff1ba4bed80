----------------------- MODULE ModbusTransportProofs ------------------------
(***************************************************************************)
(* Two proofs about the endpoint of the Modbus transport, for any          *)
(* requests, any length of the queue and any number of attempts.           *)
(*                                                                         *)
(* Nobody is given the answer to a question of somebody else (TInv).  The  *)
(* protocol has nothing to tell late answers from those in time by; the    *)
(* argument is that a connection on which a question is unanswered is      *)
(* never asked again: the worker closes it first.                          *)
(*                                                                         *)
(* The endpoint is the line of EndpointQueue (QInv): a request has at most *)
(* one place, in the queue or in the hands of the worker, and had none     *)
(* before it was submitted.                                                *)
(***************************************************************************)
EXTENDS ModbusTransport, TLAPS

Serves == {"check", "start", "ask", "close", "next", "finish"}

\* What the thread holds, and what waits for it.
LineInOrder ==
    /\ handler \in [Requests -> {"new", "waiting", "expired", "answered",
                                 "timedout", "rejected"}]
    /\ queue \in Seq(Requests \cup {Nobody})
    /\ result \in [Requests -> Reads \cup {"none", "dropped", "failed", "connected"}]
    /\ worker \in [pc : {"loop", "get", "ended"} \cup Serves,
                   item : Requests \cup {Nobody}, attempt : Int]
    /\ worker.pc \in Serves => worker.item \in Requests
    /\ worker.pc \in {"ask", "close", "next"} => worker.item \in Reads

\* A question may be unanswered only on a connection about to be closed.
OwedInOrder == worker.pc # "close" => socket.owed = {}

\* What is done has a result, and so has what is about to be.
ResultsInOrder ==
    /\ worker.pc = "finish" => result[worker.item] # "none"
    /\ \A r \in Requests : r \in done => result[r] # "none"
    /\ \A r \in Requests : handler[r] = "answered" => r \in done

TInv == LineInOrder /\ OwedInOrder /\ ResultsInOrder /\ AnswersAreOwn

-----------------------------------------------------------------------------
LEMMA TInit == Init => TInv
BY EndpointAssumption
DEF Init, TInv, LineInOrder, OwedInOrder, ResultsInOrder, AnswersAreOwn, At, Closed, Serves

\* The worker goes on with what it holds.
LEMMA WorkerMoves ==
    ASSUME TInv, UNCHANGED <<handler, result, queue, done>>,
           NEW pc \in {"loop", "get", "ended"} \cup Serves,
           NEW item \in Requests \cup {Nobody}, NEW attempt \in Int,
           worker' = At(pc, item, attempt), pc \in Serves => item \in Requests,
           pc \in {"ask", "close", "next"} => item \in Reads,
           pc = "finish" => result[item] # "none", pc # "close" => socket'.owed = {}
    PROVE  TInv'
<1>1. /\ worker' \in [pc : {"loop", "get", "ended"} \cup Serves,
                      item : Requests \cup {Nobody}, attempt : Int]
      /\ worker'.pc = pc /\ worker'.item = item
  BY DEF At
<1> QED
  BY <1>1 DEF TInv, LineInOrder, OwedInOrder, ResultsInOrder, AnswersAreOwn

\* It has a result for what it holds, and does not say so yet.
LEMMA ResultIsKnown ==
    ASSUME TInv, UNCHANGED <<handler, queue, done>>, worker.pc \in Serves,
           NEW outcome,
           outcome \in {"failed", "connected"} \/ (outcome = worker.item /\ outcome \in Reads),
           result' = [result EXCEPT ![worker.item] = outcome],
           NEW attempt \in Int, worker' = At("finish", worker.item, attempt),
           socket'.owed = {}
    PROVE  TInv'
<1>1. worker.item \in Requests
  BY DEF TInv, LineInOrder
<1>2. /\ worker' \in [pc : {"loop", "get", "ended"} \cup Serves,
                      item : Requests \cup {Nobody}, attempt : Int]
      /\ worker'.pc = "finish" /\ worker'.item = worker.item
  BY <1>1 DEF At, Serves
<1>3. outcome \in Reads \cup {"failed", "connected"} /\ outcome # "none"
      /\ (outcome \in Reads => outcome = worker.item)
  BY EndpointAssumption
<1>4. /\ result' \in [Requests -> Reads \cup {"none", "dropped", "failed", "connected"}]
      /\ result'[worker.item] = outcome
      /\ \A r \in Requests : r # worker.item => result'[r] = result[r]
  BY <1>1, <1>3 DEF TInv, LineInOrder
<1>5. LineInOrder' /\ OwedInOrder'
  BY <1>1, <1>2, <1>4 DEF TInv, LineInOrder, OwedInOrder
<1>6. ResultsInOrder' /\ AnswersAreOwn'
  BY <1>1, <1>2, <1>3, <1>4 DEF TInv, LineInOrder, ResultsInOrder, AnswersAreOwn
<1> QED
  BY <1>5, <1>6 DEF TInv

\* The handlers and stop() leave the worker and the socket alone, or close it.
LEMMA HandlerStep ==
    ASSUME TInv, NEW r \in Requests, Submit(r) \/ Answer(r) \/ Expire(r) \/ Cancel(r)
    PROVE  TInv'
<1>1. UNCHANGED <<done, result, worker, socket>>
  BY DEF Submit, Answer, Expire, Cancel
<1>2. /\ handler' \in [Requests -> {"new", "waiting", "expired", "answered",
                                    "timedout", "rejected"}]
      /\ queue' \in Seq(Requests \cup {Nobody})
      /\ \A q \in Requests : handler'[q] = "answered" => handler[q] = "answered" \/ q \in done
  <2>1. CASE Submit(r)
    <3>1. CASE queue' = Append(queue, r) /\ handler' = [handler EXCEPT ![r] = "waiting"]
      BY <3>1 DEF TInv, LineInOrder
    <3>2. CASE UNCHANGED queue /\ handler' = [handler EXCEPT ![r] = "rejected"]
      BY <3>2 DEF TInv, LineInOrder
    <3> QED
      BY <2>1, <3>1, <3>2 DEF Submit
  <2>2. CASE Answer(r)
    BY <2>2 DEF Answer, TInv, LineInOrder
  <2>3. CASE Expire(r)
    BY <2>3 DEF Expire, TInv, LineInOrder
  <2>4. CASE Cancel(r)
    BY <2>4 DEF Cancel, TInv, LineInOrder
  <2> QED
    BY <2>1, <2>2, <2>3, <2>4
<1> QED
  BY <1>1, <1>2 DEF TInv, LineInOrder, OwedInOrder, ResultsInOrder, AnswersAreOwn

LEMMA StopStep == ASSUME TInv, Stop PROVE TInv'
<1>1. UNCHANGED <<handler, done, result, worker>> /\ (socket' = socket \/ socket'.owed = {})
      /\ queue' \in Seq(Requests \cup {Nobody})
  BY DEF Stop, BeginStop, PutNone, Joined, JoinExpires, Closed, TInv, LineInOrder
<1> QED
  BY <1>1 DEF TInv, LineInOrder, OwedInOrder, ResultsInOrder, AnswersAreOwn

-----------------------------------------------------------------------------
(* The worker *)

LEMMA LoopStep == ASSUME TInv, Loop \/ Disconnect PROVE TInv'
<1>1. CASE Loop
  <2>1. PICK pc \in {"ended", "get"} : worker' = At(pc, Nobody, 0)
    BY <1>1 DEF Loop
  <2>2. socket'.owed = {}
    BY <1>1 DEF Loop, TInv, OwedInOrder
  <2> QED
    BY <1>1, <2>1, <2>2, WorkerMoves DEF Loop, Serves
<1>2. CASE Disconnect
  BY <1>2, WorkerMoves DEF Disconnect, Closed, TInv, LineInOrder, Serves
<1> QED
  BY <1>1, <1>2

LEMMA GetStep == ASSUME TInv, Get PROVE TInv'
<1>1. /\ UNCHANGED <<handler, done, result, socket>> /\ socket.owed = {}
      /\ queue' = Tail(queue) /\ queue # <<>> /\ queue \in Seq(Requests \cup {Nobody})
  BY DEF Get, TInv, LineInOrder, OwedInOrder
<1>2. queue' \in Seq(Requests \cup {Nobody}) /\ Head(queue) \in Requests \cup {Nobody}
  BY <1>1
<1>3. /\ worker' \in [pc : {"loop", "get", "ended"} \cup Serves,
                      item : Requests \cup {Nobody}, attempt : Int]
      /\ worker'.pc = "ended" \/ (worker'.pc = "check" /\ worker'.item \in Requests)
  BY <1>2 DEF Get, At, Serves
<1> QED
  BY <1>1, <1>2, <1>3
  DEF TInv, LineInOrder, OwedInOrder, ResultsInOrder, AnswersAreOwn, Serves

LEMMA LookStep == ASSUME TInv, Look PROVE TInv'
<1>1. worker.item \in Requests /\ socket' = socket /\ socket.owed = {}
  BY DEF Look, TInv, LineInOrder, OwedInOrder, Serves
<1>2. CASE /\ result' = [result EXCEPT ![worker.item] = "dropped"]
           /\ done' = done \cup {worker.item} /\ worker' = At("loop", Nobody, 0)
  <2>1. /\ worker'.pc = "loop" /\ UNCHANGED <<handler, queue>>
        /\ worker' \in [pc : {"loop", "get", "ended"} \cup Serves,
                        item : Requests \cup {Nobody}, attempt : Int]
    BY <1>2 DEF At, Look
  <2>2. /\ result' \in [Requests -> Reads \cup {"none", "dropped", "failed", "connected"}]
        /\ result'[worker.item] = "dropped"
        /\ \A r \in Requests : r # worker.item => result'[r] = result[r]
    BY <1>1, <1>2 DEF TInv, LineInOrder
  <2>3. LineInOrder' /\ OwedInOrder'
    BY <1>1, <2>1, <2>2 DEF TInv, LineInOrder, OwedInOrder, Serves
  <2>4. ResultsInOrder' /\ AnswersAreOwn'
    BY <1>1, <1>2, <2>1, <2>2, EndpointAssumption
    DEF TInv, LineInOrder, ResultsInOrder, AnswersAreOwn
  <2> QED
    BY <2>3, <2>4 DEF TInv
<1>3. CASE worker' = At("start", worker.item, 0) /\ UNCHANGED <<done, result>>
  BY <1>1, <1>3, WorkerMoves DEF Look, Serves
<1> QED
  BY <1>2, <1>3 DEF Look

LEMMA ConnectStep == ASSUME TInv, TryConnect PROVE TInv'
<1>1. /\ worker.pc \in Serves /\ worker.item \in Requests /\ socket'.owed = {}
      /\ UNCHANGED <<handler, queue, done>>
  BY DEF TryConnect, Reconnected, Open, Refused, TInv, LineInOrder, OwedInOrder, Serves
<1>2. PICK outcome \in {"connected", "failed"} :
        result' = [result EXCEPT ![worker.item] = outcome]
  BY DEF TryConnect
<1>3. worker' = At("finish", worker.item, 0) /\ 0 \in Int
  BY DEF TryConnect
<1> QED
  BY <1>1, <1>2, <1>3, ResultIsKnown
LEMMA AttemptStep == ASSUME TInv, Attempt PROVE TInv'
<1>1. /\ worker.pc \in Serves /\ worker.pc # "close" /\ worker.item \in Requests
      /\ socket.owed = {} /\ UNCHANGED <<handler, queue, done>>
      /\ worker.attempt \in Int
      /\ worker.item \in Reads
  BY DEF Attempt, TInv, LineInOrder, OwedInOrder, Serves
<1>2. CASE /\ socket' \in Reconnected /\ UNCHANGED result
           /\ worker' = At(IF socket'.connected THEN "ask" ELSE "next",
                           worker.item, worker.attempt + 1)
  <2>1. PICK pc \in {"ask", "next"} : worker' = At(pc, worker.item, worker.attempt + 1)
    BY <1>2
  <2>2. worker.attempt + 1 \in Int /\ socket'.owed = {}
    BY <1>1, <1>2 DEF Reconnected, Open, Refused
  <2> QED
    BY <1>1, <1>2, <2>1, <2>2, WorkerMoves DEF Serves
<1>3. CASE /\ result' = [result EXCEPT ![worker.item] = "failed"]
           /\ worker' = At("finish", worker.item, worker.attempt)
           /\ UNCHANGED socket
  BY <1>1, <1>3, ResultIsKnown
<1> QED
  BY <1>2, <1>3 DEF Attempt

LEMMA AskStep ==
    ASSUME TInv, NEW outcome \in {"answer", "silence", "invalid"}, Ask(outcome)
    PROVE  TInv'
<1>1. /\ worker.pc \in Serves /\ worker.item \in Requests /\ socket.owed = {}
      /\ UNCHANGED <<handler, queue, done>> /\ worker.attempt \in Int
      /\ worker.item \in Reads
  BY DEF Ask, TInv, LineInOrder, OwedInOrder, Serves
<1>2. CASE /\ \E r \in socket.owed \cup {worker.item} :
                result' = [result EXCEPT ![worker.item] = r]
           /\ worker' = At("finish", worker.item, worker.attempt)
           /\ UNCHANGED socket
  <2>1. result' = [result EXCEPT ![worker.item] = worker.item]
    BY <1>1, <1>2
  <2> QED
    BY <1>1, <1>2, <2>1, ResultIsKnown
<1>3. CASE worker' = At("close", worker.item, worker.attempt) /\ UNCHANGED result
  BY <1>1, <1>3, WorkerMoves DEF Serves
<1> QED
  BY <1>2, <1>3 DEF Ask

LEMMA FinishStep == ASSUME TInv, Finish PROVE TInv'
<1>1. /\ UNCHANGED <<handler, queue, result, socket>> /\ socket.owed = {}
      /\ done' = done \cup {worker.item} /\ result[worker.item] # "none"
      /\ worker' = At("loop", Nobody, 0)
  BY DEF Finish, TInv, OwedInOrder, ResultsInOrder
<1>2. /\ worker' \in [pc : {"loop", "get", "ended"} \cup Serves,
                      item : Requests \cup {Nobody}, attempt : Int]
      /\ worker'.pc = "loop"
  BY <1>1 DEF At
<1> QED
  BY <1>1, <1>2 DEF TInv, LineInOrder, OwedInOrder, ResultsInOrder, AnswersAreOwn, Serves
-----------------------------------------------------------------------------
LEMMA TStep == TInv /\ [Next]_vars => TInv'
<1> SUFFICES ASSUME TInv, [Next]_vars PROVE TInv'
  OBVIOUS
<1>1. CASE UNCHANGED vars
  BY <1>1 DEF vars, TInv, LineInOrder, OwedInOrder, ResultsInOrder, AnswersAreOwn
<1>2. CASE Work
  BY <1>2, LoopStep, GetStep, LookStep, ConnectStep, AttemptStep, AskStep, FinishStep DEF Work
<1> QED
  BY <1>1, <1>2, HandlerStep, StopStep DEF Next

\* endpoint_worker.py, _execute_read and _disconnect: the registers a handler
\* answers with are the device's answer to its own request, whatever came too late
\* for another one on the same socket.
THEOREM AnswersAlwaysOwn == Spec => []AnswersAreOwn
<1>1. TInv => AnswersAreOwn
  BY DEF TInv
<1> QED
  BY TInit, TStep, <1>1, PTL DEF Spec

-----------------------------------------------------------------------------
(* The line *)

\* A request has at most one place, and what has one was submitted.
PlacesInOrder ==
    /\ \A i \in DOMAIN queue : queue[i] \in Requests => handler[queue[i]] \notin {"new", "rejected"}
    /\ \A i, j \in DOMAIN queue : queue[i] = queue[j] /\ queue[i] \in Requests => i = j
    /\ worker.pc = "check" => /\ handler[worker.item] \notin {"new", "rejected"}
                              /\ \A i \in DOMAIN queue : queue[i] # worker.item

\* Only a handler that gave up cancels.
CancelledInOrder == \A r \in cancelled : r \in Requests /\ handler[r] = "timedout"

QInv == TInv /\ PlacesInOrder /\ CancelledInOrder

LEMMA QInit == Init => QInv
BY TInit DEF Init, QInv, PlacesInOrder, CancelledInOrder, At

\* The handlers of requests that were submitted stay so.
LEMMA QueueStays ==
    ASSUME QInv, TInv', UNCHANGED queue,
           \A r \in Requests : handler[r] \notin {"new", "rejected"} =>
                                   handler'[r] \notin {"new", "rejected"},
           \A r \in cancelled' : r \in Requests /\ handler'[r] = "timedout",
           worker'.pc = "check" => worker' = worker
    PROVE  QInv'
BY DEF QInv, PlacesInOrder, CancelledInOrder, Queued, TInv, LineInOrder, Serves

LEMMA QSubmit == ASSUME QInv, TInv', NEW r \in Requests, Submit(r) PROVE QInv'
<1>0. /\ UNCHANGED <<cancelled, worker>> /\ handler[r] = "new"
      /\ handler \in [Requests -> {"new", "waiting", "expired", "answered",
                                   "timedout", "rejected"}]
      /\ queue \in Seq(Requests \cup {Nobody})
      /\ worker.pc = "check" => worker.item \in Requests
  BY DEF Submit, QInv, TInv, LineInOrder, Serves
<1>1. CASE queue' = Append(queue, r) /\ handler' = [handler EXCEPT ![r] = "waiting"]
  <2>1. /\ DOMAIN queue = 1 .. Len(queue) /\ DOMAIN queue' = 1 .. Len(queue) + 1
        /\ Len(queue) \in Nat /\ queue'[Len(queue) + 1] = r
        /\ \A i \in DOMAIN queue : queue'[i] = queue[i]
    BY <1>0, <1>1
  <2>2. handler'[r] = "waiting" /\ \A q \in Requests : q # r => handler'[q] = handler[q]
    BY <1>0, <1>1
  <2>3. \A i \in DOMAIN queue : queue[i] # r
    BY <1>0 DEF QInv, PlacesInOrder
  <2>4. /\ \A i \in DOMAIN queue' : queue'[i] \in Requests =>
                                        handler'[queue'[i]] \notin {"new", "rejected"}
        /\ \A i, j \in DOMAIN queue' :
               queue'[i] = queue'[j] /\ queue'[i] \in Requests => i = j
    BY <2>1, <2>2, <2>3 DEF QInv, PlacesInOrder
  <2>5. worker'.pc = "check" => /\ handler'[worker'.item] \notin {"new", "rejected"}
                                /\ \A i \in DOMAIN queue' : queue'[i] # worker'.item
    BY <1>0, <2>1, <2>2 DEF QInv, PlacesInOrder
  <2>6. CancelledInOrder'
    BY <1>0, <2>2 DEF QInv, CancelledInOrder
  <2> QED
    BY <2>4, <2>5, <2>6 DEF QInv, PlacesInOrder
<1>2. CASE UNCHANGED queue /\ handler' = [handler EXCEPT ![r] = "rejected"]
  BY <1>0, <1>2, QueueStays DEF QInv, CancelledInOrder
<1> QED
  BY <1>1, <1>2 DEF Submit

\* The other steps of the handlers.
LEMMA QHandler ==
    ASSUME QInv, TInv', NEW r \in Requests, Answer(r) \/ Expire(r) \/ Cancel(r)
    PROVE  QInv'
<1>1. /\ UNCHANGED <<queue, worker>>
      /\ handler \in [Requests -> {"new", "waiting", "expired", "answered",
                                   "timedout", "rejected"}]
      /\ handler[r] \in {"waiting", "expired"}
      /\ handler[r] = "waiting" => UNCHANGED cancelled
  BY DEF Answer, Expire, Cancel, QInv, TInv, LineInOrder
<1>2. PICK place \in {"answered", "expired", "timedout"} :
        /\ handler' = [handler EXCEPT ![r] = place]
        /\ cancelled' = cancelled \/ (place = "timedout" /\ cancelled' = cancelled \cup {r})
  BY DEF Answer, Expire, Cancel
<1>3. handler'[r] = place /\ \A q \in Requests : q # r => handler'[q] = handler[q]
  BY <1>1, <1>2
<1>4. \A q \in cancelled' : q \in Requests /\ handler'[q] = "timedout"
  BY <1>1, <1>2, <1>3 DEF QInv, CancelledInOrder
<1> QED
  BY <1>1, <1>3, <1>4, QueueStays

LEMMA QGet == ASSUME QInv, TInv', Get PROVE QInv'
<1>1. /\ UNCHANGED <<handler, cancelled>> /\ queue' = Tail(queue) /\ queue # <<>>
      /\ queue \in Seq(Requests \cup {Nobody})
      /\ Head(queue) = Nobody \/ (Head(queue) \in Requests /\ Head(queue) # Nobody)
  BY EndpointAssumption DEF Get, QInv, TInv, LineInOrder, Requests
<1>2. /\ Len(queue) \in Nat /\ Len(queue) > 0 /\ Head(queue) = queue[1]
      /\ DOMAIN queue = 1 .. Len(queue) /\ DOMAIN queue' = 1 .. Len(queue) - 1
      /\ \A i \in DOMAIN queue' : queue'[i] = queue[i + 1]
  BY <1>1
<1>3. /\ \A i \in DOMAIN queue' : queue'[i] \in Requests =>
                                      handler'[queue'[i]] \notin {"new", "rejected"}
      /\ \A i, j \in DOMAIN queue' :
             queue'[i] = queue'[j] /\ queue'[i] \in Requests => i = j
  BY <1>1, <1>2 DEF QInv, PlacesInOrder
<1>4. worker'.pc = "check" => worker'.item = Head(queue) /\ Head(queue) # Nobody
  BY DEF Get, At
<1>5. worker'.pc = "check" => /\ handler'[worker'.item] \notin {"new", "rejected"}
                              /\ \A i \in DOMAIN queue' : queue'[i] # worker'.item
  <2> SUFFICES ASSUME worker'.pc = "check"
               PROVE  /\ handler[queue[1]] \notin {"new", "rejected"}
                      /\ \A i \in DOMAIN queue' : queue'[i] # queue[1]
    BY <1>1, <1>2, <1>4
  <2>1. 1 \in DOMAIN queue /\ queue[1] \in Requests
    BY <1>1, <1>2, <1>4
  <2>2. \A i \in DOMAIN queue' : queue'[i] # queue[1]
    BY <1>2, <2>1 DEF QInv, PlacesInOrder
  <2> QED
    BY <2>1, <2>2 DEF QInv, PlacesInOrder
<1> QED
  BY <1>1, <1>3, <1>5 DEF QInv, PlacesInOrder, CancelledInOrder

LEMMA QPutNone == ASSUME QInv, TInv', PutNone PROVE QInv'
<1>0. /\ UNCHANGED <<handler, cancelled, worker>> /\ Nobody \notin Requests
      /\ queue \in Seq(Requests \cup {Nobody})
      /\ worker.pc = "check" => worker.item \in Requests
  BY EndpointAssumption DEF PutNone, QInv, TInv, LineInOrder, Serves, Requests
<1>1. CASE queue' = Append(queue, Nobody)
  <2>1. /\ DOMAIN queue = 1 .. Len(queue) /\ DOMAIN queue' = 1 .. Len(queue) + 1
        /\ Len(queue) \in Nat /\ queue'[Len(queue) + 1] = Nobody
        /\ \A i \in DOMAIN queue : queue'[i] = queue[i]
    BY <1>0, <1>1
  <2>2. PlacesInOrder'
    BY <1>0, <2>1 DEF QInv, PlacesInOrder
  <2> QED
    BY <1>0, <2>2 DEF QInv, CancelledInOrder
<1>2. CASE queue' = queue
  BY <1>0, <1>2, QueueStays DEF QInv, CancelledInOrder
<1> QED
  BY <1>1, <1>2 DEF PutNone

LEMMA QStep == QInv /\ [Next]_vars => QInv'
<1> SUFFICES ASSUME QInv, [Next]_vars PROVE QInv'
  OBVIOUS
<1>1. TInv'
  BY TStep DEF QInv
<1>2. CASE UNCHANGED <<handler, queue, cancelled>> /\ worker'.pc # "check"
  BY <1>1, <1>2, QueueStays DEF QInv, CancelledInOrder
<1>3. CASE UNCHANGED <<handler, queue, cancelled, worker>>
  BY <1>1, <1>3, QueueStays DEF QInv, CancelledInOrder
<1>4. CASE Work
  <2>1. CASE Get
    BY <1>1, <2>1, QGet
  <2>2. ASSUME ~Get PROVE QInv'
    <3>1. UNCHANGED <<handler, queue, cancelled>>
      BY <1>4, <2>2 DEF Work, Loop, Look, TryConnect, Attempt, Ask, Disconnect, Finish
    <3>2. worker'.pc # "check"
      BY <1>4, <2>2 DEF Work, Loop, Look, TryConnect, Attempt, Ask, Disconnect, Finish, At
    <3> QED
      BY <1>2, <3>1, <3>2
  <2> QED
    BY <2>1, <2>2
<1>5. CASE Stop
  BY <1>1, <1>3, <1>5, QPutNone DEF Stop, BeginStop, Joined, JoinExpires
<1>6. CASE \E r \in Requests : Submit(r) \/ Answer(r) \/ Expire(r) \/ Cancel(r)
  BY <1>1, <1>6, QSubmit, QHandler
<1>7. CASE UNCHANGED vars
  BY <1>3, <1>7 DEF vars
<1> QED
  BY <1>4, <1>5, <1>6, <1>7 DEF Next

-----------------------------------------------------------------------------
(* Every step of the endpoint is one of the line, or leaves the line alone. *)

Known == {r \in Requests : handler[r] \notin {"new", "rejected"}}
Before == {pair \in Waiting \X Waiting : Precedes(pair[1], pair[2])}
Serving == IF Busy THEN worker.item ELSE Nobody

LEMMA LineAlone ==
    ASSUME UNCHANGED <<Known, Waiting, Before, Serving>> PROVE UNCHANGED Line!vars
BY DEF Line!vars, Known, Before, Serving

\* A request that waits is in Before with another exactly when both wait and one
\* precedes the other.
LEMMA PairsOfLine ==
    ASSUME NEW q, NEW r
    PROVE  <<q, r>> \in Before <=> q \in Waiting /\ r \in Waiting /\ Precedes(q, r)
BY DEF Before

LEMMA SameWaiting ==
    ASSUME UNCHANGED <<queue, cancelled>>, \A r \in Requests : Held(r)' <=> Held(r)
    PROVE  UNCHANGED <<Waiting, Before>>
<1>1. \A r \in Requests : Queued(r)' <=> Queued(r)
  BY DEF Queued
<1>2. \A q, r \in Requests : Precedes(q, r)' <=> Precedes(q, r)
  BY <1>1 DEF Precedes
<1>3. Waiting' = Waiting
  BY <1>1 DEF Waiting
<1>4. Waiting \subseteq Requests
  BY DEF Waiting
<1> QED
  BY <1>2, <1>3, <1>4 DEF Before

LEMMA SubmitJoins ==
    ASSUME QInv, NEW r \in Requests, Submit(r)
    PROVE  Line!Join(r) \/ UNCHANGED Line!vars
<1>0. /\ UNCHANGED <<cancelled, worker>> /\ handler[r] = "new"
      /\ handler \in [Requests -> {"new", "waiting", "expired", "answered",
                                   "timedout", "rejected"}]
      /\ queue \in Seq(Requests \cup {Nobody})
      /\ Serving' = Serving
      /\ \A q : Held(q)' <=> Held(q)
  BY DEF Submit, QInv, TInv, LineInOrder, Serving, Busy, Held
<1>1. CASE queue' = Append(queue, r) /\ handler' = [handler EXCEPT ![r] = "waiting"]
  <2>1. /\ DOMAIN queue = 1 .. Len(queue) /\ DOMAIN queue' = 1 .. Len(queue) + 1
        /\ Len(queue) \in Nat /\ queue'[Len(queue) + 1] = r
        /\ \A i \in DOMAIN queue : queue'[i] = queue[i]
    BY <1>0, <1>1
  <2>2. r \notin Known /\ Known' = Known \cup {r}
    BY <1>0, <1>1 DEF Known
  <2>3. r \notin cancelled /\ ~Held(r) /\ ~Queued(r)
    BY <1>0 DEF QInv, PlacesInOrder, CancelledInOrder, Held, Queued, TInv, LineInOrder
  <2>4. \A q : Queued(q)' <=> Queued(q) \/ q = r
    BY <2>1 DEF Queued
  <2>5. Waiting' = Waiting \cup {r} /\ r \notin Waiting
    BY <1>0, <2>3, <2>4 DEF Waiting
  <2>6. \A q, s : Precedes(q, s)' <=> Precedes(q, s) \/ (s = r /\ (Held(q) \/ Queued(q)))
    <3> TAKE q, s
    <3>1. (Held(q) /\ Queued(s))' <=> (Held(q) /\ Queued(s)) \/ (s = r /\ Held(q))
      BY <1>0, <2>4
    <3>2. (\E i, j \in DOMAIN queue' : i < j /\ queue'[i] = q /\ queue'[j] = s)
          <=> \/ \E i, j \in DOMAIN queue : i < j /\ queue[i] = q /\ queue[j] = s
              \/ s = r /\ \E i \in DOMAIN queue : queue[i] = q
      BY <2>1
    <3> QED
      BY <3>1, <3>2 DEF Precedes, Queued
  <2>7. Before' = Before \cup (Waiting \X {r})
    <3>1. \A q, s : <<q, s>> \in Before' <=> <<q, s>> \in Before \cup (Waiting \X {r})
      <4> TAKE q, s
      <4>1. <<q, s>> \in Before' <=> q \in Waiting' /\ s \in Waiting' /\ Precedes(q, s)'
        BY DEF Before
      <4>2. ~Precedes(r, s)
        BY <2>3 DEF Precedes, Queued
      <4>3. q \in Waiting => Held(q) \/ Queued(q)
        BY DEF Waiting
      <4>4. s \in Waiting => s # r
        BY <2>5
      <4> QED
        BY <2>3, <2>5, <2>6, <4>1, <4>2, <4>3, <4>4, PairsOfLine
    <3>2. Before \subseteq Waiting \X Waiting /\ Before' \subseteq Waiting' \X Waiting'
      BY DEF Before
    <3> QED
      BY <3>1, <3>2
  <2> QED
    BY <1>0, <2>2, <2>5, <2>7 DEF Line!Join, Known, Before, Serving
<1>2. CASE UNCHANGED queue /\ handler' = [handler EXCEPT ![r] = "rejected"]
  <2>1. Known' = Known
    BY <1>0, <1>2 DEF Known
  <2> QED
    BY <1>0, <1>2, <2>1, SameWaiting, LineAlone
<1> QED
  BY <1>1, <1>2 DEF Submit

LEMMA CancelWithdraws ==
    ASSUME QInv, NEW r \in Requests, Cancel(r)
    PROVE  Line!Withdraw(r) \/ UNCHANGED Line!vars
<1>1. /\ UNCHANGED <<queue, worker>> /\ cancelled' = cancelled \cup {r}
      /\ handler' = [handler EXCEPT ![r] = "timedout"] /\ handler[r] = "expired"
      /\ handler \in [Requests -> {"new", "waiting", "expired", "answered",
                                   "timedout", "rejected"}]
      /\ Serving' = Serving /\ Known' = Known
  BY DEF Cancel, QInv, TInv, LineInOrder, Serving, Busy, Known
<1>2. /\ \A q : (Held(q)' <=> Held(q)) /\ (Queued(q)' <=> Queued(q))
      /\ \A q, s : Precedes(q, s)' <=> Precedes(q, s)
  BY <1>1 DEF Held, Queued, Precedes
<1>3. Waiting' = Waiting \ {r}
  BY <1>1, <1>2 DEF Waiting
<1>4. Before' = {pair \in Before : pair[1] # r /\ pair[2] # r}
  BY <1>2, <1>3 DEF Before
<1>5. CASE r \in Waiting
  BY <1>1, <1>3, <1>4, <1>5 DEF Line!Withdraw, Line!Leave, Known, Before, Serving
<1>6. CASE r \notin Waiting
  <2>1. Before' = Before
    BY <1>2, <1>3, <1>6 DEF Before
  <2> QED
    BY <1>1, <1>3, <1>6, <2>1, LineAlone
<1> QED
  BY <1>5, <1>6

LEMMA GetHolds ==
    ASSUME QInv, Get PROVE UNCHANGED Line!vars
<1>1. /\ UNCHANGED <<handler, cancelled>> /\ queue' = Tail(queue) /\ queue # <<>>
      /\ queue \in Seq(Requests \cup {Nobody}) /\ Nobody \notin Requests
      /\ worker.pc = "get"
  BY EndpointAssumption DEF Get, QInv, TInv, LineInOrder, Requests
<1>2. /\ Len(queue) \in Nat /\ Len(queue) > 0 /\ Head(queue) = queue[1]
      /\ DOMAIN queue = 1 .. Len(queue) /\ DOMAIN queue' = 1 .. Len(queue) - 1
      /\ \A i \in DOMAIN queue' : queue'[i] = queue[i + 1]
  BY <1>1
<1>3. Known' = Known /\ Serving' = Serving
  BY <1>1 DEF Get, At, Known, Serving, Busy
<1>4. \A r \in Requests : ~Held(r) /\ (Held(r)' <=> r = queue[1])
  BY <1>1, <1>2 DEF Get, At, Held
<1>5. \A r \in Requests : Queued(r) <=> r = queue[1] \/ Queued(r)'
  <2> TAKE r \in Requests
  <2>1. ASSUME NEW i \in DOMAIN queue, queue[i] = r, i # 1 PROVE Queued(r)'
    <3>1. i - 1 \in DOMAIN queue' /\ queue'[i - 1] = r
      BY <1>2, <2>1
    <3> QED
      BY <3>1 DEF Queued
  <2>2. ASSUME NEW i \in DOMAIN queue', queue'[i] = r PROVE Queued(r)
    <3>1. i + 1 \in DOMAIN queue /\ queue[i + 1] = r
      BY <1>2, <2>2
    <3> QED
      BY <3>1 DEF Queued
  <2>3. 1 \in DOMAIN queue
    BY <1>2
  <2> QED
    BY <2>1, <2>2, <2>3 DEF Queued
<1>6. ASSUME NEW q \in Requests, NEW r \in Requests
      PROVE  Precedes(q, r)' <=> Precedes(q, r)
  <2>1. ASSUME NEW i \in DOMAIN queue, NEW j \in DOMAIN queue, i < j,
               queue[i] = q, queue[j] = r
        PROVE  Precedes(q, r)'
    <3>1. j - 1 \in DOMAIN queue' /\ queue'[j - 1] = r
      BY <1>2, <2>1
    <3>2. CASE i = 1
      BY <1>4, <2>1, <3>1, <3>2 DEF Precedes, Queued
    <3>3. CASE i # 1
      <4>1. i - 1 \in DOMAIN queue' /\ queue'[i - 1] = q /\ i - 1 < j - 1
        BY <1>2, <2>1, <3>3
      <4> QED
        BY <3>1, <4>1 DEF Precedes
    <3> QED
      BY <3>2, <3>3
  <2>2. ASSUME NEW i \in DOMAIN queue', NEW j \in DOMAIN queue', i < j,
               queue'[i] = q, queue'[j] = r
        PROVE  Precedes(q, r)
    <3>1. /\ i + 1 \in DOMAIN queue /\ j + 1 \in DOMAIN queue /\ i + 1 < j + 1
          /\ queue[i + 1] = q /\ queue[j + 1] = r
      BY <1>2, <2>2
    <3> QED
      BY <3>1 DEF Precedes
  <2>3. ASSUME Held(q)', NEW j \in DOMAIN queue', queue'[j] = r PROVE Precedes(q, r)
    <3>1. /\ 1 \in DOMAIN queue /\ j + 1 \in DOMAIN queue /\ 1 < j + 1
          /\ queue[1] = q /\ queue[j + 1] = r
      BY <1>2, <1>4, <2>3
    <3> QED
      BY <3>1 DEF Precedes
  <2> QED
    BY <1>4, <2>1, <2>2, <2>3 DEF Precedes, Queued
<1>7. Waiting' = Waiting
  BY <1>1, <1>4, <1>5 DEF Waiting
<1>8. Before' = Before
  <2>1. Waiting \subseteq Requests
    BY DEF Waiting
  <2> QED
    BY <1>6, <1>7, <2>1 DEF Before
<1> QED
  BY <1>3, <1>7, <1>8, LineAlone

\* The worker starts what it holds, the first of the line.
LEMMA LookBegins ==
    ASSUME QInv, Look PROVE (\E r \in Requests : Line!Begin(r)) \/ UNCHANGED Line!vars
<1> DEFINE r == worker.item
<1>1. /\ UNCHANGED <<handler, queue, cancelled>> /\ worker.pc = "check"
      /\ r \in Requests /\ r # Nobody /\ Known' = Known /\ Serving = Nobody
      /\ \A q : Held(q) <=> q = r
  BY EndpointAssumption
  DEF Look, QInv, TInv, LineInOrder, Serves, Requests, Known, Serving, Busy, Held
<1>2. ~Queued(r) /\ \A q : Queued(q)' <=> Queued(q)
  BY <1>1 DEF QInv, PlacesInOrder, Queued
<1>3. worker'.pc # "check" /\ \A q : ~Held(q)'
  BY <1>1 DEF Look, At, Held
<1>4. Waiting' = Waiting \ {r}
  BY <1>1, <1>2, <1>3 DEF Waiting
<1>5. \A q, s : q # r => (Precedes(q, s)' <=> Precedes(q, s))
  BY <1>1, <1>2, <1>3 DEF Precedes
<1>6. Before' = {pair \in Before : pair[1] # r /\ pair[2] # r}
  BY <1>4, <1>5 DEF Before
<1>7. CASE r \in cancelled
  <2>1. r \notin Waiting
    BY <1>7 DEF Waiting
  <2>2. Before' = Before
    BY <1>6, <2>1 DEF Before
  <2>3. Serving' = Nobody
    BY <1>1, <1>7 DEF Look, Serving, Busy, At
  <2> QED
    BY <1>1, <1>4, <2>1, <2>2, <2>3, LineAlone
<1>8. CASE r \notin cancelled
  <2>1. r \in Waiting
    BY <1>1, <1>8 DEF Waiting
  <2>2. \A q \in Waiting : <<q, r>> \notin Before
    BY <1>1, <1>2, PairsOfLine DEF Precedes, Queued
  <2>3. Serving' = r
    BY <1>1, <1>8 DEF Look, Serving, Busy, At
  <2> QED
    BY <1>1, <1>4, <1>6, <2>1, <2>2, <2>3 DEF Line!Begin, Line!Leave, Known, Before, Serving
<1> QED
  BY <1>7, <1>8

\* What the worker does with the item it serves.
LEMMA ServingStays ==
    ASSUME UNCHANGED <<handler, queue, cancelled>>, Busy, Busy', worker'.item = worker.item
    PROVE  UNCHANGED Line!vars
<1>1. UNCHANGED <<Known, Serving>> /\ \A r \in Requests : Held(r)' <=> Held(r)
  BY DEF Known, Serving, Busy, Held
<1> QED
  BY <1>1, SameWaiting, LineAlone

LEMMA WorkServes ==
    ASSUME QInv, Work
    PROVE  Line!Next \/ UNCHANGED Line!vars
<1>1. CASE Get \/ Look
  BY <1>1, GetHolds, LookBegins DEF Line!Next
<1>2. CASE Finish
  <2>1. /\ UNCHANGED <<handler, queue, cancelled>> /\ Known' = Known
        /\ \A r \in Requests : Held(r)' <=> Held(r)
        /\ worker.item \in Requests /\ Nobody \notin Requests
        /\ Serving = worker.item /\ Serving' = Nobody
    BY <1>2, EndpointAssumption
    DEF Finish, Known, Held, At, Serving, Busy, QInv, TInv, LineInOrder, Serves, Requests
  <2> QED
    BY <2>1, SameWaiting DEF Line!Next, Line!End, Known, Before, Serving
<1>3. CASE Loop
  <2>1. UNCHANGED <<queue, cancelled, Known, Serving>> /\ \A r \in Requests : Held(r)' <=> Held(r)
    BY <1>3 DEF Loop, Known, Held, At, Serving, Busy
  <2> QED
    BY <2>1, SameWaiting, LineAlone
<1>4. CASE TryConnect \/ Attempt \/ Disconnect
           \/ \E outcome \in {"answer", "silence", "invalid"} : Ask(outcome)
  <2>1. UNCHANGED <<handler, queue, cancelled>> /\ Busy
    BY <1>4 DEF TryConnect, Attempt, Disconnect, Ask, Busy
  <2>2. PICK pc \in {"finish", "ask", "next", "close"}, attempt \in {0, worker.attempt,
             worker.attempt + 1} : worker' = At(pc, worker.item, attempt)
    BY <1>4 DEF TryConnect, Attempt, Disconnect, Ask
  <2>3. Busy' /\ worker'.item = worker.item
    BY <2>2 DEF Busy, At
  <2> QED
    BY <2>1, <2>3, ServingStays
<1> QED
  BY <1>1, <1>2, <1>3, <1>4 DEF Work

\* The None of stop() is nobody's place in the line.
LEMMA StopIsNoRequest ==
    ASSUME QInv, Stop PROVE UNCHANGED Line!vars
<1>1. UNCHANGED <<handler, cancelled, worker, Known, Serving>>
  BY DEF Stop, BeginStop, PutNone, Joined, JoinExpires, Known, Serving, Busy
<1>2. \A q : Held(q)' <=> Held(q)
  BY <1>1 DEF Held
<1>3. CASE queue' = queue
  BY <1>1, <1>2, <1>3, SameWaiting, LineAlone
<1>4. CASE queue' = Append(queue, Nobody)
  <2>0. queue \in Seq(Requests \cup {Nobody}) /\ Nobody \notin Requests
    BY EndpointAssumption DEF QInv, TInv, LineInOrder, Requests
  <2>1. /\ DOMAIN queue = 1 .. Len(queue) /\ DOMAIN queue' = 1 .. Len(queue) + 1
        /\ Len(queue) \in Nat /\ queue'[Len(queue) + 1] = Nobody
        /\ \A i \in DOMAIN queue : queue'[i] = queue[i]
    BY <1>4, <2>0
  <2>2. \A q \in Requests : Queued(q)' <=> Queued(q)
    BY <2>0, <2>1 DEF Queued
  <2>3. \A q, r \in Requests : Precedes(q, r)' <=> Precedes(q, r)
    BY <1>2, <2>0, <2>1, <2>2 DEF Precedes
  <2>4. Waiting' = Waiting
    BY <1>1, <1>2, <2>2 DEF Waiting
  <2>5. Before' = Before
    <3>1. Waiting \subseteq Requests
      BY DEF Waiting
    <3> QED
      BY <2>3, <2>4, <3>1 DEF Before
  <2> QED
    BY <1>1, <2>4, <2>5, LineAlone
<1> QED
  BY <1>3, <1>4 DEF Stop, BeginStop, PutNone, Joined, JoinExpires

LEMMA LineStep == QInv /\ [Next]_vars => [Line!Next]_(Line!vars)
<1> SUFFICES ASSUME QInv, [Next]_vars PROVE Line!Next \/ UNCHANGED Line!vars
  OBVIOUS
<1>1. CASE UNCHANGED vars
  <2>1. UNCHANGED <<queue, cancelled, Known, Serving>> /\ \A r \in Requests : Held(r)' <=> Held(r)
    BY <1>1 DEF vars, Known, Held, Serving, Busy
  <2> QED
    BY <2>1, SameWaiting, LineAlone
<1>2. ASSUME NEW r \in Requests, Submit(r) \/ Cancel(r) PROVE Line!Next \/ UNCHANGED Line!vars
  BY <1>2, SubmitJoins, CancelWithdraws DEF Line!Next
<1>3. ASSUME NEW r \in Requests, Answer(r) \/ Expire(r) PROVE UNCHANGED Line!vars
  <2>1. UNCHANGED <<queue, cancelled, Serving>> /\ \A q \in Requests : Held(q)' <=> Held(q)
    BY <1>3 DEF Answer, Expire, Held, Serving, Busy
  <2>2. Known' = Known
    BY <1>3 DEF Answer, Expire, Known, QInv, TInv, LineInOrder
  <2> QED
    BY <2>1, <2>2, SameWaiting, LineAlone
<1> QED
  BY <1>1, <1>2, <1>3, WorkServes, StopIsNoRequest DEF Next

\* endpoint_worker.py, submit, _run and _execute_item: the thread, its queue and the
\* flags of the handlers that gave up are a first-in first-out line; what the
\* handler withdrew before its turn is never executed, and nobody is overtaken.
THEOREM EndpointIsALine == Spec => ImplementsEndpointQueue
<1>1. Init => Line!Init
  <2> SUFFICES ASSUME Init PROVE Line!Init
    OBVIOUS
  <2>1. Known = {} /\ Waiting = {} /\ Serving = Nobody
    BY DEF Init, Known, Waiting, Held, Queued, Serving, Busy, At
  <2>2. Before = {}
    BY <2>1 DEF Before
  <2> QED
    BY <2>1, <2>2 DEF Line!Init, Known, Before, Serving
<1> QED
  BY <1>1, QInit, QStep, LineStep, PTL DEF Spec, ImplementsEndpointQueue, Line!Spec
=============================================================================
