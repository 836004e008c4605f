------------------------------ MODULE Downstream ------------------------------
(***************************************************************************)
(* downstream.Client (downstream/downstream.go): clients of one dependency *)
(* that share a circuit breaker.  CallOp runs its function through         *)
(* Breaker.Do and turns the error into what the client's failure mode      *)
(* says; the breaker sees the error itself.                                *)
(***************************************************************************)
EXTENDS Breaker

CONSTANT Mode     \* Mode[c]: the failure mode of the client that c calls with

\* Any value other than the two constants is treated as FailClosed.
FailureModes == {"fail-open", "fail-closed", "unknown"}

ASSUME ModeAssumption == Mode \in [Callers -> FailureModes]

\* What is returned instead of the error: nothing, with the zero value, or it.
failureResult(mode) == IF mode = "fail-open" THEN "zero" ELSE "error"

\* What CallOp made of what Do returned to c; a panic passes through.
CallOp(c) ==
    CASE result[c] = "ok" -> "value"
      [] result[c] \in {"error", "circuit_open"} -> failureResult(Mode[c])
      [] OTHER -> result[c]

\* Time passes, callers keep calling, and the functions they call return.
\* Nobody is obliged to call State or Reset.
FairSpec ==
    /\ Spec
    /\ WF_vars(Tick)
    /\ \A c \in Callers : /\ WF_vars(Admit(c))
                          /\ WF_vars(\E ok \in BOOLEAN : Finish(c, ok))

\* Once the dependency has recovered, every client gets real results for good
\* and none is left with errors or, silently, with zero values, unless panics
\* took every slot of a half-open period (WedgedUntilReset): no order of late
\* outcomes keeps the shared breaker open.
DegradedEnds ==
    healthy ~> \/ [](breaker.state = "closed" /\ \A c \in Callers : CallOp(c) = "value")
               \/ leaked = HalfOpenMax
===============================================================================
