------------------------------ MODULE MCAlarm ------------------------------
(* Model checking of the alarms. *)
EXTENDS Alarm
==============================================================================
