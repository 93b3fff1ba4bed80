---------------------------- MODULE EndpointQueue ----------------------------
(***************************************************************************)
(* What the Modbus transport promises the collectors that share one        *)
(* physical endpoint: requests are served one at a time and in the order   *)
(* they came, and one that was withdrawn before its turn is never served.  *)
(*                                                                         *)
(* The line is the order among those that wait: what matters of a place in *)
(* it is who is before whom.                                               *)
(***************************************************************************)
CONSTANTS Requests, Nobody

VARIABLES
    known,   \* requests that ever joined the line
    waiting, \* those that wait
    before,  \* <<q, r>> of those: q came first
    serving  \* the one the device is busy with, or Nobody

vars == <<known, waiting, before, serving>>

Init ==
    /\ known = {}
    /\ waiting = {}
    /\ before = {}
    /\ serving = Nobody

Leave(r) ==
    /\ r \in waiting
    /\ waiting' = waiting \ {r}
    /\ before' = {pair \in before : pair[1] # r /\ pair[2] # r}

Join(r) ==
    /\ r \notin known
    /\ known' = known \cup {r}
    /\ waiting' = waiting \cup {r}
    /\ before' = before \cup (waiting \X {r})
    /\ UNCHANGED serving

Withdraw(r) ==
    /\ Leave(r)
    /\ UNCHANGED <<known, serving>>

Begin(r) ==
    /\ serving = Nobody
    /\ \A q \in waiting : <<q, r>> \notin before
    /\ Leave(r)
    /\ serving' = r
    /\ UNCHANGED known

End ==
    /\ serving # Nobody
    /\ serving' = Nobody
    /\ UNCHANGED <<known, waiting, before>>

Next ==
    \/ \E r \in Requests : Join(r) \/ Withdraw(r) \/ Begin(r)
    \/ End

Spec == Init /\ [][Next]_vars
=============================================================================
