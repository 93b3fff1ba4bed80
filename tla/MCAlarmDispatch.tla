--------------------------- MODULE MCAlarmDispatch ---------------------------
(* Both notices of an incident; as strings, "...:end" is before "...:start". *)
EXTENDS AlarmDispatch

MCRank == [d \in Notice |-> IF d[2] = "end" THEN 0 ELSE 1]
=============================================================================
