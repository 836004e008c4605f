---------------------------- MODULE MCFeatureFlags ----------------------------
(* A flag that is off, then rolled out to thirty percent and to everybody, as *)
(* a percentage above a hundred and as an unset one.                          *)
EXTENDS FeatureFlags

Flag(enabled, percent) == [present |-> TRUE, enabled |-> enabled, percent |-> percent]
Ramp == <<Flag(FALSE, 50), Flag(TRUE, 30), Flag(TRUE, 250), Flag(TRUE, 0)>>
BoundarySubjects == {NoSubject, 0, 29, 30, 99}
===============================================================================
