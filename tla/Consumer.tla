-------------------------------- MODULE Consumer --------------------------------
(***************************************************************************)
(* A queue group of natsbus.Subscribe (natsbus/consumer.go) on one durable *)
(* JetStream consumer.  Members come and go: they subscribe, drain and     *)
(* close their connection, or crash.  The server, and the client library   *)
(* as vendored, deliver, redeliver and delete the durable consumer; they   *)
(* are modelled from how Subscribe uses them.  The handler decodes the     *)
(* message (Envelope) and may fail.                                        *)
(***************************************************************************)
EXTENDS Propagation, FiniteSets, Functions

CONSTANTS WireFormat,     \* Options.WireFormat of the publisher
          Propagator,     \* the global propagator of the publisher
          Events,         \* events that may be published
          Members,        \* processes of the group
          Count,          \* messages that are published
          MaxStarts       \* bound on the subscriptions

ASSUME ConsumerAssumption ==
    /\ WireFormat \in WireFormats /\ Propagator \in Propagators
    /\ Events \subseteq Envelopes

VARIABLES
    event,      \* the envelope that is published
    decodable,  \* whether UnmarshalMessage takes the message it becomes
    policy,     \* ConsumerOptions.DeliverPolicy
    length,     \* messages in the stream
    durable,    \* the consumer: its incarnation, first and next message
    pending,    \* messages the server delivered and nobody acknowledged
    status,     \* of each member: "off", "on", "draining" or "closed"
    starts,     \* subscriptions so far
    joined,     \* the incarnation each member is subscribed to
    created,    \* the member created it (jsi.dc)
    queue,      \* messages in each member's client
    running,    \* the message each member's handler works on, or 0
    handled     \* history: messages for which a handler returned nil

publication == <<event, decodable, policy>>
server == <<length, durable, pending>>
members == <<status, starts, joined, created>>
groupVars == <<publication, server, members, queue, running, handled>>

Connected(m) == status[m] \in {"on", "draining"}
Message == publishedMessage(event.trace, Propagator, event, WireFormat)

GroupInit ==
    /\ event \in Events /\ policy \in {"new", "all", "last"}
    /\ decodable = (UnmarshalMessage(Message) # Malformed)
    /\ length = 0 /\ durable = [exists |-> FALSE, number |-> 0, first |-> 1, next |-> 1] /\ pending = {}
    /\ status = [m \in Members |-> "off"] /\ starts = 0
    /\ joined = [m \in Members |-> 0] /\ created = [m \in Members |-> FALSE]
    /\ queue = [m \in Members |-> <<>>] /\ running = [m \in Members |-> 0]
    /\ handled = {}

PublishEvent ==
    /\ length < Count
    /\ length' = length + 1
    /\ UNCHANGED <<publication, durable, pending, members, queue, running, handled>>

\* subscribeOptions: where a consumer that has to be created starts.
start ==
    CASE policy = "all" -> 1
      [] policy = "last" -> IF length = 0 THEN 1 ELSE length
      [] OTHER -> length + 1

\* QueueSubscribe joins the durable consumer, or creates it and will delete it.
Subscribe(m) ==
    LET creates == ~durable.exists
    IN  /\ status[m] = "off" /\ starts < MaxStarts
        /\ status' = [status EXCEPT ![m] = "on"]
        /\ starts' = starts + 1
        /\ durable' = IF creates
                      THEN [exists |-> TRUE, number |-> durable.number + 1,
                            first |-> start, next |-> start]
                      ELSE durable
        /\ joined' = [joined EXCEPT ![m] = durable'.number]
        /\ created' = [created EXCEPT ![m] = creates]
        /\ UNCHANGED <<publication, length, pending, queue, running, handled>>

\* Members of an earlier incarnation listen on its subject, in vain.
Attached(m) == durable.exists /\ joined[m] = durable.number
Receives(m) == status[m] = "on" /\ Attached(m)

Deliver(m) ==
    /\ Receives(m) /\ durable.next <= length
    /\ queue' = [queue EXCEPT ![m] = Append(@, durable.next)]
    /\ pending' = pending \cup {durable.next}
    /\ durable' = [durable EXCEPT !.next = @ + 1]
    /\ UNCHANGED <<publication, length, members, running, handled>>

\* After a nak, after AckWait or after its member is gone; a slow member may
\* still have the message.  Bound: one copy per member.
Redeliver(m, i) ==
    /\ Receives(m) /\ i \in pending
    /\ running[m] # i /\ i \notin Range(queue[m])
    /\ queue' = [queue EXCEPT ![m] = Append(@, i)]
    /\ UNCHANGED <<publication, server, members, running, handled>>

Handle(m) ==
    /\ Connected(m) /\ running[m] = 0 /\ queue[m] # <<>>
    /\ running' = [running EXCEPT ![m] = Head(queue[m])]
    /\ queue' = [queue EXCEPT ![m] = Tail(@)]
    /\ UNCHANGED <<publication, server, members, handled>>

\* Mutant: the message is acknowledged although the handler failed.
acknowledged_Always(m, ok) ==
    IF Connected(m) /\ Attached(m) THEN {running[m]} ELSE {}

\* Mutant: ack and nak are swapped.
acknowledged_Swapped(m, ok) ==
    IF ~ok /\ Connected(m) /\ Attached(m) THEN {running[m]} ELSE {}

\* ackMessage after success, nakMessage after an error.  Neither reaches the
\* consumer once the connection is closed or the consumer is gone.
acknowledged(m, ok) ==
    IF ok /\ Connected(m) /\ Attached(m) THEN {running[m]} ELSE {}

\* The handler returns; an acknowledgement may be lost.
Finish(m, ok, lost) ==
    /\ running[m] # 0
    /\ ok => decodable
    /\ pending' = IF lost THEN pending ELSE pending \ acknowledged(m, ok)
    /\ handled' = IF ok THEN handled \cup {running[m]} ELSE handled
    /\ running' = [running EXCEPT ![m] = 0]
    /\ UNCHANGED <<publication, length, durable, members, queue>>

\* once.Do(cleanFn), by the context or by the shutdown function: Drain.
Drain(m) ==
    /\ status[m] = "on"
    /\ status' = [status EXCEPT ![m] = "draining"]
    /\ UNCHANGED <<publication, server, starts, joined, created, queue, running, handled>>

\* The library's checkDrained: nothing is left in the client, and the member
\* that created the durable consumer deletes it.
Delete(m) ==
    /\ status[m] = "draining" /\ created[m]
    /\ queue[m] = <<>> /\ running[m] = 0
    /\ Attached(m)
    /\ durable' = [durable EXCEPT !.exists = FALSE] /\ pending' = {}
    /\ UNCHANGED <<publication, length, members, queue, running, handled>>

\* closeConnection follows Drain at once: what is queued is dropped, while a
\* handler that runs goes on.
closeConnection(m) ==
    /\ status[m] = "draining"
    /\ status' = [status EXCEPT ![m] = "closed"]
    /\ queue' = [queue EXCEPT ![m] = <<>>]
    /\ UNCHANGED <<publication, server, starts, joined, created, running, handled>>

\* The process ends, with or without shutdown.
Exit(m) ==
    /\ status[m] # "off"
    /\ status' = [status EXCEPT ![m] = "off"]
    /\ queue' = [queue EXCEPT ![m] = <<>>]
    /\ running' = [running EXCEPT ![m] = 0]
    /\ UNCHANGED <<publication, server, starts, joined, created, handled>>

GroupNext ==
    \/ PublishEvent
    \/ \E m \in Members :
        \/ Subscribe(m) \/ Deliver(m) \/ Handle(m)
        \/ \E i \in 1..Count : Redeliver(m, i)
        \/ \E ok, lost \in BOOLEAN : Finish(m, ok, lost)
        \/ Drain(m) \/ Delete(m) \/ closeConnection(m) \/ Exit(m)

GroupSpec == GroupInit /\ [][GroupNext]_groupVars

\* The server keeps delivering, handlers return, and a handler that is called
\* for a message again and again succeeds with an acknowledgement that arrives.
GroupFairSpec ==
    /\ GroupSpec
    /\ WF_groupVars(\E m \in Members : Deliver(m))
    /\ \A m \in Members :
        /\ WF_groupVars(Handle(m))
        /\ WF_groupVars(\E ok, lost \in BOOLEAN : Finish(m, ok, lost))
    /\ \A i \in 1..Count :
        /\ SF_groupVars(\E m \in Members : Redeliver(m, i))
        /\ SF_groupVars(\E m \in Members : running[m] = i /\ Finish(m, TRUE, FALSE))
---------------------------------------------------------------------------------
\* At least once: what the durable consumer has passed was handled, or the
\* server still holds it for redelivery, whichever member failed, closed or
\* died with it.
PassedIsHandledOrPending ==
    durable.exists =>
        \A i \in durable.first..(durable.next - 1) : i \in handled \/ i \in pending

\* The envelopes and formats for which the receiver gets what was sent, up to
\* the fraction of a second and the difference of a missing and an empty payload.
Arriving ==
    {x \in Envelopes \X WireFormats :
        LET e == x[1]
            got == UnmarshalMessage(marshalEnvelopeMessage(e, x[2]))
        IN  /\ got # Malformed
            /\ <<got.id, got.tenant, got.trace>> = <<e.id, e.tenant, e.trace>>
            /\ seconds(got.time) = seconds(e.time)
            /\ got.payload = e.payload \/ {got.payload, e.payload} = {"nil", "zero"}}

Undecodable == {e \in Envelopes : e.payload = "unknown"} \X {"json"}
Misread == ((Envelopes \X WireFormats) \ Undecodable) \ Arriving

\* The formats agree: the receiver finds out the format of every envelope, only
\* JSON needs to know the payload's type, and what was handled is what was sent.
FormatsAgree ==
    /\ Misread = {}
    /\ handled # {} => <<event, WireFormat>> \in Arriving

\* Envelopes whose trace context is not what extractMessageContext finds with the
\* propagator q, after a publisher with p sent them.  Baggage needs both
\* propagators and, without a span, a message that can be decoded.
Lost ==
    {x \in Envelopes \X WireFormats \X Propagators \X Propagators :
        LET e == x[1]
            baggage == /\ x[3] = "w3c" /\ x[4] = "w3c"
                       /\ e.trace.span # "" \/ <<e, x[2]>> \notin Undecodable
        IN  extractMessageContext(x[4], publishedMessage(e.trace, x[3], e, x[2]))
                # [e.trace EXCEPT !.baggage = IF baggage THEN @ ELSE ""]}

\* "ensures round-trip fidelity when the global propagator is a no-op": the span
\* context reaches the handler whatever the format and the propagators at both
\* ends, and with a message that cannot be decoded as well.
TraceArrives ==
    /\ Lost = {}
    /\ handled # {} => extractMessageContext("noop", Message).span = event.trace.span

\* A message that can be decoded is handled in the end, unless the consumer is
\* deleted or every member that listens to it is gone for good.
GroupDelivery ==
    \A i \in 1..Count :
        (durable.exists /\ i \in durable.first..length /\ decodable)
        ~> (i \in handled \/ ~durable.exists \/ [](\A m \in Members : ~Receives(m)))
=================================================================================
