------------------------------ MODULE MCConsumer ------------------------------
(* Two members and three subscriptions between them.  In the JSON format the *)
(* second event is one that the members cannot decode.                        *)
EXTENDS Consumer

TwoEvents ==
    {e \in Envelopes : /\ e.payload \in {"known", "unknown"} /\ e.time = "fraction"
                       /\ e.tenant # "" /\ e.trace.span # "" /\ e.trace.baggage # "" /\ e.length = "other"}
===============================================================================
