----------------------------- MODULE MCIdempotency ----------------------------
(* Requests a1 and a2 repeat each other; b1 reuses their key with another    *)
(* body.                                                                     *)
EXTENDS ChangeJournal, TLC

CONSTANTS a1, a2, b1

MCHash(r) == IF r = b1 THEN "b" ELSE "a"

Symmetry == Permutations({a1, a2})
===============================================================================
