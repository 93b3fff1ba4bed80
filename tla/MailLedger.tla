----------------------------- MODULE MailLedger -----------------------------
(***************************************************************************)
(* What Mensagelo promises to the services that send mail with an          *)
(* idempotency key: a key is bound to one message for ever, its status     *)
(* only moves forward, and its message is handed to the SMTP server at     *)
(* most once, whatever is retried or restarted.                            *)
(***************************************************************************)
CONSTANTS
    Keys,     \* idempotency keys
    Messages  \* recipients, subject, body and type

VARIABLES
    bound,    \* the message of each key in use
    status,   \* its status
    delivered \* keys whose message the SMTP server accepted

vars == <<bound, status, delivered>>

Init ==
    /\ bound = [k \in {} |-> {}]
    /\ status = [k \in Keys |-> "absent"]
    /\ delivered = {}

Accept(k, m) ==
    /\ status[k] = "absent"
    /\ bound' = [j \in DOMAIN bound \cup {k} |-> IF j = k THEN m ELSE bound[j]]
    /\ status' = [status EXCEPT ![k] = "pending"]
    /\ UNCHANGED delivered

Claim(k) ==
    /\ status[k] = "pending"
    /\ status' = [status EXCEPT ![k] = "processing"]
    /\ UNCHANGED <<bound, delivered>>

Deliver(k) ==
    /\ status[k] = "processing"
    /\ k \notin delivered
    /\ delivered' = delivered \cup {k}
    /\ UNCHANGED <<bound, status>>

Finish(k) ==
    /\ status[k] = "processing"
    /\ \/ k \in delivered /\ status' = [status EXCEPT ![k] = "sent"]
       \/ status' = [status EXCEPT ![k] = "failed"]
    /\ UNCHANGED <<bound, delivered>>

\* A restart gives up every message under way.
GiveUp ==
    /\ status' = [k \in Keys |->
                    IF status[k] = "processing" THEN "failed" ELSE status[k]]
    /\ UNCHANGED <<bound, delivered>>

Next ==
    \/ \E k \in Keys, m \in Messages : Accept(k, m)
    \/ \E k \in Keys : Claim(k)
    \/ \E k \in Keys : Deliver(k)
    \/ \E k \in Keys : Finish(k)
    \/ GiveUp

Spec == Init /\ [][Next]_vars
=============================================================================
