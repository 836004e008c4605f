-------------------------------- MODULE Outbox --------------------------------
(***************************************************************************)
(* What natsbus.ReliablePublisher promises its callers: at-least-once      *)
(* delivery of everything it has answered for.  A message is delivered     *)
(* while its Publish call runs or from the durable queue; it leaves the    *)
(* queue only once delivered; and Publish answers "published" or           *)
(* "dead-lettered" only when that is what happened.  ReliablePublisher.tla *)
(* implements this specification.                                          *)
(***************************************************************************)
CONSTANT Messages

VARIABLES
    queue,        \* dead letters that survive a restart
    delivered,    \* messages the stream has stored at least once
    answer        \* answer[m]: what Publish(m) returned

Answers == {"none", "published", "dead-lettered", "failed", "crashed"}

Init ==
    /\ queue = {}
    /\ delivered = {}
    /\ answer = [m \in Messages |-> "none"]

Deliver(m) ==
    /\ answer[m] = "none" \/ m \in queue
    /\ delivered' = delivered \cup {m}
    /\ UNCHANGED <<queue, answer>>

Enqueue(m) ==
    /\ answer[m] = "none"
    /\ queue' = queue \cup {m}
    /\ UNCHANGED <<delivered, answer>>

Dequeue(m) ==
    /\ m \in queue \cap delivered
    /\ queue' = queue \ {m}
    /\ UNCHANGED <<delivered, answer>>

\* "failed" makes no promise: the caller still owns the message.
Answer(m, a) ==
    /\ answer[m] = "none"
    /\ a = "published" => m \in delivered
    /\ a = "dead-lettered" => m \in queue \cup delivered
    /\ answer' = [answer EXCEPT ![m] = a]
    /\ UNCHANGED <<queue, delivered>>

\* The process dies: some calls in progress are never answered.
Crash(S) ==
    /\ \A m \in S : answer[m] = "none"
    /\ answer' = [m \in Messages |-> IF m \in S THEN "crashed" ELSE answer[m]]
    /\ UNCHANGED <<queue, delivered>>

Next ==
    \/ \E m \in Messages : Deliver(m) \/ Enqueue(m) \/ Dequeue(m)
    \/ \E m \in Messages, a \in Answers \ {"none", "crashed"} : Answer(m, a)
    \/ \E S \in SUBSET Messages : Crash(S)

Spec == Init /\ [][Next]_<<queue, delivered, answer>>
===============================================================================
