-------------------------------- MODULE MCAlerts --------------------------------
(* Instances of Alerts for TLC. *)
EXTENDS Alerts

CONSTANTS d1, m1, m2
===============================================================================
