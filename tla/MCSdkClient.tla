------------------------------ MODULE MCSdkClient -------------------------------
(* Instances of SdkClient for TLC. *)
EXTENDS SdkClient

CONSTANTS e1, e2, e3, e4
===============================================================================
