------------------------------ MODULE MCRateLimit -----------------------------
(* Policies for model checking RateLimit: one that refills half a request    *)
(* per time unit, and a larger one a request may have instead.               *)
EXTENDS RateLimit, TLC

CONSTANTS c1, c2

MCCallers == {c1, c2}
Symmetry == Permutations(MCCallers)

TwoPolicies == {[rate |-> 1, burst |-> 1], [rate |-> 2, burst |-> 2]}
===============================================================================
