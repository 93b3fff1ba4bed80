------------------------------- MODULE EdgeLog -------------------------------
(***************************************************************************)
(* What an alarm generator promises to Alarmero: a durable log of edges    *)
(* that only grows, in which the edges of one alarm alternate between      *)
(* "on" and "off", and a confirmed prefix that only grows.  It promises    *)
(* nothing about dates: an edge carries the date its caller gave it.       *)
(***************************************************************************)
EXTENDS Naturals, Sequences

CONSTANTS
    Alarms,   \* the alarm keys
    Instants  \* the dates an edge may carry

VARIABLES
    log,      \* the edges emitted so far; the identifier of an edge is its position
    confirmed \* how many of them the consumer has confirmed

vars == <<log, confirmed>>

Edge == [alarm : Alarms, value : {"off", "on"}, at : Instants]

\* Position i of a log holds the last edge of its alarm.
IsLast(l, i) == \A j \in (i + 1) .. Len(l) : l[j].alarm # l[i].alarm

\* An edge extends a log when it does not repeat the value of the last edge of
\* its alarm.
Extends(l, e) ==
    \A i \in 1 .. Len(l) :
        l[i].alarm = e.alarm /\ IsLast(l, i) => l[i].value # e.value

Init ==
    /\ log = <<>>
    /\ confirmed = 0

Emit(e) ==
    /\ Extends(log, e)
    /\ log' = Append(log, e)
    /\ UNCHANGED confirmed

Confirm(n) ==
    /\ n > confirmed
    /\ confirmed' = n
    /\ UNCHANGED log

Next ==
    \/ \E e \in Edge : Emit(e)
    \/ \E n \in 1 .. Len(log) : Confirm(n)

Spec == Init /\ [][Next]_vars
=============================================================================
