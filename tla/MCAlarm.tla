------------------------------ MODULE MCAlarm ------------------------------
(* Small instance of Alarm: the alarms are interchangeable.                *)
EXTENDS Alarm, TLC

Symmetry == Permutations(Alarm)
=============================================================================
