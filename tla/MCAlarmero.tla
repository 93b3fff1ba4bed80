----------------------------- MODULE MCAlarmero -----------------------------
(* One source that owns every alarm. *)
EXTENDS Alarmero, TLC

OneSource == [a \in Alarms |-> CHOOSE s \in Sources : TRUE]
BothNotices == {<<TRUE, TRUE>>}
Symmetry == Permutations(Alarms)
=============================================================================
