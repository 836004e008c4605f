------------------------------- MODULE MCHealth -------------------------------
(* Probes that find the report expired together, and two dependencies. *)
EXTENDS Health
===============================================================================
