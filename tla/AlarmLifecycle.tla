--------------------------- MODULE AlarmLifecycle ---------------------------
(***************************************************************************)
(* What Alarmero keeps of one alarm and how it changes: the rules of       *)
(* alarm_lifecycle.py and the writes of backend/db.py that carry them out. *)
(*                                                                         *)
(* A row groups what four tables say of the alarm:                         *)
(*   listed      catalog_active, or "never" when alarm_catalog has no row  *)
(*   shown       current_condition and condition_since_at of the catalogue *)
(*   sendStart, sendEnd   the operator's choice of notices                 *)
(*   lifecycle, value, since, incident   the row of alarm_state; "none"    *)
(*               and 0 stand for no row and for a NULL incident_id         *)
(*   incidents   the incidents of the alarm, in the order they began       *)
(*   dispatches  the notices queued, as <<incident, phase>>                *)
(* An incident's identifier, a random uuid, is its position.  Titles and   *)
(* texts never decide anything and are left out, and so is the column      *)
(* "active" of an incident, which says no more than its status.            *)
(***************************************************************************)
EXTENDS Naturals, Sequences

CONSTANTS
    Activation, \* activation_seconds of an alarm
    Recovery    \* recovery_seconds of an alarm

ASSUME DelaysAssumption == Activation \in Nat /\ Recovery \in Nat

Null == 0  \* of a time or of an incident; times begin at 1

Incident == [status     : {"potential", "active", "recovering", "resolved"},
             firstSeen  : Nat \ {Null},
             qualified  : Nat,
             recovering : Nat,
             resolved   : Nat]

Row == [listed     : {"never", "no", "yes"},
        shown      : [value : {"unknown", "off", "on"}, since : Nat],
        sendStart  : BOOLEAN,
        sendEnd    : BOOLEAN,
        lifecycle  : {"none", "inactive", "pending_start", "active", "pending_end"},
        value      : {"off", "on"},
        since      : Nat,
        incident   : Nat,
        incidents  : Seq(Incident),
        dispatches : SUBSET (Nat \X {"start", "end"})]

\* An alarm Alarmero never heard of; the defaults of its row are those of
\* ingest_catalog.
NewRow ==
    [listed     |-> "never",
     shown      |-> [value |-> "unknown", since |-> 0],
     sendStart  |-> TRUE,
     sendEnd    |-> FALSE,
     lifecycle  |-> "none",
     value      |-> "off",
     since      |-> Null,
     incident   |-> Null,
     incidents  |-> <<>>,
     dispatches |-> {}]

-----------------------------------------------------------------------------
\* Mutants of the operators below.
ActiveAgainKeepsIncident(r, at) ==
    [r EXCEPT !.lifecycle = "active", !.value = "on", !.since = at]

DueStrictly(r, now) ==
    \/ r.lifecycle = "pending_start" /\ now > r.since + Activation
    \/ r.lifecycle = "pending_end" /\ now > r.since + Recovery

StartedReusesIncident(r, at) ==
    [r EXCEPT !.lifecycle = "pending_start", !.value = "on", !.since = at,
              !.incident = 1,
              !.incidents = <<[status     |-> "potential",
                               firstSeen  |-> at,
                               qualified  |-> Null,
                               recovering |-> Null,
                               resolved   |-> Null]>>]

ListedStaysInactive(r, c) ==
    [r EXCEPT !.listed = IF @ = "never" THEN "yes" ELSE @, !.shown = c]

ListedResetsChoice(r, c) ==
    [r EXCEPT !.listed = "yes", !.shown = c, !.sendStart = TRUE, !.sendEnd = FALSE]

-----------------------------------------------------------------------------
(* The catalogue *)

\* The upsert of ingest_catalog for an alarm of the snapshot: the operator's
\* choice of notices survives.
Listed(r, c) == [r EXCEPT !.listed = "yes", !.shown = c]

\* What ingest_catalog does first to every alarm of the source.
Unlisted(r) == IF r.listed = "never" THEN r ELSE [r EXCEPT !.listed = "no"]

-----------------------------------------------------------------------------
(* Conditions: condition_transition and _apply_condition *)

\* The errors of _apply_condition: an alarm outside the catalogue, an instant
\* before the present condition, a state that has no such transition.
Accepts(r, v, at) ==
    /\ r.listed = "yes"
    /\ r.lifecycle # "none" => at >= r.since
    /\ \/ r.lifecycle = "none"
       \/ r.value = v
       \/ <<r.lifecycle, v>> \in {<<"inactive", "on">>, <<"pending_start", "off">>,
                                  <<"active", "off">>, <<"pending_end", "on">>}

\* _insert_potential_incident.
Potential(at) ==
    [status     |-> "potential",
     firstSeen  |-> at,
     qualified  |-> Null,
     recovering |-> Null,
     resolved   |-> Null]

Started(r, at) ==
    [r EXCEPT !.lifecycle = "pending_start", !.value = "on", !.since = at,
              !.incident = Len(r.incidents) + 1,
              !.incidents = Append(@, Potential(at))]

BaselineInactive(r, at) ==
    [r EXCEPT !.lifecycle = "inactive", !.value = "off", !.since = at]

Cancelled(r, at) ==
    [r EXCEPT !.lifecycle = "inactive", !.value = "off", !.since = at,
              !.incident = Null,
              !.incidents[r.incident] = [@ EXCEPT !.status = "resolved", !.resolved = at]]

Recovering(r, at) ==
    [r EXCEPT !.lifecycle = "pending_end", !.value = "off", !.since = at,
              !.incidents[r.incident] = [@ EXCEPT !.status = "recovering",
                                                  !.recovering = at]]

ActiveAgain(r, at) ==
    [r EXCEPT !.lifecycle = "active", !.value = "on", !.since = at,
              !.incidents[r.incident] = [@ EXCEPT !.status = "active",
                                                  !.recovering = Null]]

Applied(r, v, at) ==
    CASE r.lifecycle = "none" ->
             IF v = "on" THEN Started(r, at) ELSE BaselineInactive(r, at)
      [] r.lifecycle # "none" /\ r.value = v -> r
      [] r.lifecycle = "inactive"      /\ r.value # v -> Started(r, at)
      [] r.lifecycle = "pending_start" /\ r.value # v -> Cancelled(r, at)
      [] r.lifecycle = "active"        /\ r.value # v -> Recovering(r, at)
      [] r.lifecycle = "pending_end"   /\ r.value # v -> ActiveAgain(r, at)

-----------------------------------------------------------------------------
(* Deadlines: due_transition and _process_due_transitions *)

IsDue(r, now) ==
    \/ r.lifecycle = "pending_start" /\ now >= r.since + Activation
    \/ r.lifecycle = "pending_end" /\ now >= r.since + Recovery

\* _activate_incident; the instant is the deadline, however late it is noticed.
Activated(r) ==
    [r EXCEPT !.lifecycle = "active",
              !.incidents[r.incident] = [@ EXCEPT !.status = "active",
                                                  !.qualified = r.since + Activation],
              !.dispatches = IF r.sendStart THEN @ \cup {<<r.incident, "start">>} ELSE @]

\* _resolve_incident.
Resolved(r) ==
    [r EXCEPT !.lifecycle = "inactive",
              !.incident = Null,
              !.incidents[r.incident] = [@ EXCEPT !.status = "resolved",
                                                  !.resolved = r.since + Recovery],
              !.dispatches = IF r.sendEnd THEN @ \cup {<<r.incident, "end">>} ELSE @]

\* One pass of _process_due_transitions over the row.
AfterDeadlines(r, now) ==
    IF r.listed = "yes" /\ IsDue(r, now)
    THEN IF r.lifecycle = "pending_start" THEN Activated(r) ELSE Resolved(r)
    ELSE r
=============================================================================
