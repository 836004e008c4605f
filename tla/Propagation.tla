------------------------------- MODULE Propagation -----------------------------
(***************************************************************************)
(* Trace propagation over NATS (natsbus/propagation.go and the functions   *)
(* of natsbus.go it shares a rule with).  The publisher writes its trace   *)
(* context into the envelope and into the headers, the consumer reads the  *)
(* headers first.  Either process may lack a global propagator, which is a *)
(* no-op until tracing is enabled.                                         *)
(***************************************************************************)
EXTENDS Envelope

Propagators == {"w3c", "noop"}

\* otel's Inject and Extract.
Carried(propagator, ctx) == IF propagator = "w3c" THEN ctx ELSE NoContext

\* Mutant: what the propagator does not carry is lost.
withSpan_None(ctx, span) == ctx

\* Without a propagator the span context is written, or read, by hand; baggage
\* is not.
withSpan(ctx, span) == IF ctx.span # "" THEN ctx ELSE [ctx EXCEPT !.span = span]

injectTraceContext(ctx, propagator, e) ==
    [e EXCEPT !.trace = withSpan(Carried(propagator, ctx), ctx.span)]

\* A header is set for what there is.
injectMessageTraceContext(ctx, propagator, message) ==
    LET new == withSpan(Carried(propagator, ctx), ctx.span) IN
    [message EXCEPT !.header = [key \in DOMAIN @ |-> IF new[key] = "" THEN @[key] ELSE new[key]]]

buildMessage(ctx, propagator, e, format) ==
    injectMessageTraceContext(ctx, propagator,
        marshalEnvelopeMessage(injectTraceContext(ctx, propagator, e), format))

\* PropagatingPublisher.Publish writes the headers once more.
publishedMessage(ctx, propagator, e, format) ==
    injectMessageTraceContext(ctx, propagator, buildMessage(ctx, propagator, e, format))

ExtractContext(propagator, trace) == withSpan(Carried(propagator, trace), trace.span)

headerTraceContextPresent(header) == header.span # ""

\* The context that Consume calls its handler with.
extractMessageContext(propagator, message) ==
    IF headerTraceContextPresent(message.header)
    THEN ExtractContext(propagator, message.header)
    ELSE LET e == UnmarshalMessage(message)
         IN  IF e = Malformed THEN NoContext ELSE ExtractContext(propagator, e.trace)
================================================================================
