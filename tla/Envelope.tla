-------------------------------- MODULE Envelope --------------------------------
(***************************************************************************)
(* The three wire formats of natsbus (natsbus/natsbus.go): how an envelope *)
(* is marshalled, and how the receiver finds out which format it was given *)
(* from the headers and the first bytes.  Identity fields that every       *)
(* format copies are one field, id; the trace context is one field, trace. *)
(* A byte is one of the classes that the detection tells apart.            *)
(***************************************************************************)
EXTENDS Integers, Sequences

WireFormats == {"json", "proto", "proto-headers"}

\* Payloads: none, an Any with no fields, one of a type that the receiver knows
\* and one of a type it does not.
Payloads == {"nil", "zero", "known", "unknown"}

\* Times have a fraction of a second; "zero" is time.Time{}.
Times == {"zero", "whole", "fraction"}

\* A proto envelope begins with the tag and the length of SpecVersion.  The tag,
\* 0x0a, is a newline; the length of "1.0" is an ordinary byte, but other
\* producers' versions may have a length that reads as a space or a brace.
Bytes == {"space", "brace", "other"}

\* traceparent and tracestate, which go together, and baggage.
Contexts == [span : {"", "s"}, baggage : {"", "b"}]
NoContext == [span |-> "", baggage |-> ""]

Envelopes ==
    [id : {"event"}, time : Times, tenant : {"", "t"}, trace : Contexts,
     payload : Payloads, length : Bytes]

Malformed == [error |-> TRUE]

\* time.RFC3339 has no fraction.
seconds(time) == IF time = "fraction" THEN "whole" ELSE time

marshalEnvelopeJSON(e) ==
    [ce |-> FALSE, header |-> NoContext, lead |-> <<"brace">>, body |-> "json",
     fields |-> [e EXCEPT !.time = seconds(e.time)]]

marshalEnvelopeProto(e) ==
    [ce |-> FALSE, header |-> NoContext, lead |-> <<"space", e.length, "other">>,
     body |-> "proto", fields |-> e]

\* The payload alone is the data; an Any without fields has no bytes.  The other
\* fields are headers, the trace context under the names it always has.
marshalEnvelopeProtoHeaders(e) ==
    LET empty == e.payload \in {"nil", "zero"} IN
    [ce |-> TRUE, header |-> e.trace,
     lead |-> IF empty THEN <<>> ELSE <<"space", "other">>,
     body |-> "any",
     fields |-> [e EXCEPT !.time = seconds(e.time),
                          !.payload = IF empty THEN "nil" ELSE e.payload]]

marshalEnvelopeMessage(e, format) ==
    CASE format = "json" -> marshalEnvelopeJSON(e)
      [] format = "proto" -> marshalEnvelopeProto(e)
      [] OTHER -> marshalEnvelopeProtoHeaders(e)

trimLeadingJSONWhitespace(lead) ==
    LET kept == {i \in DOMAIN lead : lead[i] # "space"} IN
    IF kept = {} THEN <<>>
    ELSE SubSeq(lead, CHOOSE i \in kept : \A j \in kept : i <= j, Len(lead))

detectWireFormat(lead) == IF Head(lead) = "brace" THEN "json" ELSE "proto"

\* protojson must know the type of an Any.
unmarshalEnvelopeJSON(message) ==
    IF message.body = "json" /\ message.fields.payload # "unknown"
    THEN message.fields ELSE Malformed

unmarshalEnvelopeProto(message) ==
    IF message.body = "proto" THEN message.fields ELSE Malformed

\* Mutant: JSON or nothing.
fallback_None(message) == Malformed

\* Bytes that were trimmed may have been the tag of a proto envelope.
fallback(message) ==
    IF trimLeadingJSONWhitespace(message.lead) # message.lead
    THEN unmarshalEnvelopeProto(message) ELSE Malformed

UnmarshalEnvelope(message) ==
    LET trimmed == trimLeadingJSONWhitespace(message.lead)
        json == unmarshalEnvelopeJSON(message)
    IN  IF trimmed = <<>> THEN Malformed
        ELSE IF detectWireFormat(trimmed) = "proto" THEN unmarshalEnvelopeProto(message)
        ELSE IF json # Malformed THEN json
        ELSE fallback(message)

\* The payload is a bare Any, whose type the receiver need not know.
unmarshalEnvelopeProtoHeaders(message) ==
    IF message.body = "any" THEN [message.fields EXCEPT !.trace = message.header]
                            ELSE Malformed

hasCloudEventHeaders(message) == message.ce

UnmarshalMessage(message) ==
    IF hasCloudEventHeaders(message) THEN unmarshalEnvelopeProtoHeaders(message)
    ELSE UnmarshalEnvelope(message)
=================================================================================
