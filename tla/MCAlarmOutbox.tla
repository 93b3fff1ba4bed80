---------------------------- MODULE MCAlarmOutbox ----------------------------
(* Two alarms, which are interchangeable, and a handful of edges. *)
EXTENDS AlarmOutbox, TLC

Symmetry == Permutations(Alarms)
=============================================================================
