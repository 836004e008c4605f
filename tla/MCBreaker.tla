------------------------------ MODULE MCBreaker -------------------------------
(* Three callers, with a client of each failure mode. *)
EXTENDS Downstream, TLC

CONSTANTS c1, c2, c3

OneOfEach == (c1 :> "fail-open") @@ (c2 :> "fail-closed") @@ (c3 :> "unknown")
===============================================================================
