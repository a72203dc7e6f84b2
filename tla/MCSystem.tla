-------------------------------- MODULE MCSystem --------------------------------
(* Instances of System for TLC. *)
EXTENDS System

CONSTANTS e1, e2, e3
===============================================================================
