------------------------------- MODULE Startup --------------------------------
(***************************************************************************)
(* startup.RunHTTPServer and startup.Lifecycle (startup/http.go,           *)
(* startup/lifecycle.go) with the handlers they serve and the background   *)
(* tasks those hand to async.Runner (async/async.go), and the tracer       *)
(* providers of InitTracing (startup/tracing.go).  RunHTTPServer races     *)
(* with the goroutine that serves, with the signal that stops it, with     *)
(* whoever registers hooks, and with an owner that calls Shutdown itself.  *)
(***************************************************************************)
EXTENDS Integers, Sequences, FiniteSets, Functions

CONSTANTS Hooks,          \* shutdown hooks that may be registered
          Tracers,        \* those of EnableTracingFromEnv, and the providers
          Tracing,        \* the one that RunHTTPServer enables
          NoTracer,       \* the global provider of otel without tracing
          Clients,        \* clients, each with a connection it may keep alive
          Tasks,          \* background tasks
          MaxInFlight     \* capacity of the runner

ASSUME StartupAssumption ==
    /\ Tracing \in Tracers /\ Tracers \subseteq Hooks /\ NoTracer \notin Hooks
    /\ MaxInFlight \in Nat \ {0}

VARIABLES
    hooks,      \* Lifecycle.hooks
    todo,       \* todo[s]: hooks the Shutdown called by s took and has not run
    main,       \* where RunHTTPServer is
    owner,      \* where the other caller of Shutdown is
    errCh,      \* "empty", "err" or "closed" (without a value)
    stopped,    \* ctx.Done
    serving,    \* "no", "yes", "failed" (Serve returned) or "closed"
    connected,  \* clients whose connection is open
    inflight,   \* clients whose handler runs
    cut,        \* those of them whose connection Server.Close has closed
    expired,    \* expired[s]: the context of the Shutdown called by s is done
    errs,       \* RunHTTPServer will report: "listen", "shutdown", "hook"
    provider,   \* the global tracer provider, and with it the propagator
    previous,   \* previous[h]: previousProvider of the hook h
    exporters,  \* tracers whose exporter is open
    opening,    \* the one that InitTracing has just opened an exporter for
    sem,        \* tokens in Runner.sem
    tasks,      \* background tasks that run
    order,      \* history: hooks by registration
    ran         \* history: hooks by execution, with the caller and its expired

lifecycle == <<hooks, todo, order, ran>>
server == <<errCh, serving, connected, inflight, cut>>
async == <<sem, tasks>>
tracing == <<provider, previous, exporters, opening>>
work == <<async, tracing>>
vars == <<lifecycle, main, owner, stopped, expired, errs, server, work>>

Callers == {"main", "owner"}

Init ==
    /\ hooks = <<>> /\ todo = [s \in Callers |-> <<>>]
    /\ main = "start" /\ owner = "idle"
    /\ errCh = "empty" /\ stopped = FALSE
    /\ serving = "no" /\ connected = {} /\ inflight = {} /\ cut = {}
    /\ expired = [s \in Callers |-> FALSE] /\ errs = {}
    /\ provider = NoTracer /\ previous = [h \in Tracers |-> NoTracer]
    /\ exporters = {} /\ opening = NoTracer
    /\ sem = 0 /\ tasks = {}
    /\ order = <<>> /\ ran = <<>>

Registered == Range(order)

OnShutdown(h) ==
    /\ h \notin Registered
    /\ hooks' = Append(hooks, h)
    /\ order' = Append(order, h)

\* Mutant: the hooks stay registered.
take_Kept(s) ==
    /\ todo' = [todo EXCEPT ![s] = hooks]
    /\ UNCHANGED hooks

\* Mutant: hooks run in the order of their registration.
take_Reversed(s) ==
    /\ todo' = [todo EXCEPT ![s] = [i \in DOMAIN hooks |-> hooks[Len(hooks) + 1 - i]]]
    /\ hooks' = <<>>

\* Shutdown takes all hooks under the lock.
take(s) ==
    /\ todo' = [todo EXCEPT ![s] = hooks]
    /\ hooks' = <<>>

\* The loop of Shutdown counts down: the hook it runs next, and those below it.
last(q) == q[Len(q)]

below(q) == SubSeq(q, 1, Len(q) - 1)

\* Mutant: the first hook that fails ends the loop.
afterHook_Stops(s, ok) == IF ok THEN below(todo[s]) ELSE <<>>

\* What is left after a hook returned: an error does not stop the others.
afterHook(s, ok) == below(todo[s])
-------------------------------------------------------------------------------
\* InitTracing opens the exporter, for the service itself or in RunHTTPServer.
OpenExporter(h) ==
    /\ main = "start" /\ opening = NoTracer /\ h \notin Registered
    /\ exporters' = exporters \cup {h} /\ opening' = h
    /\ UNCHANGED <<lifecycle, main, owner, stopped, expired, errs, server,
                   provider, previous, async>>

\* InitTracing installs the provider, and the hook for what it returns.
EnableTracingFromEnv(h) ==
    /\ opening = h /\ opening' = NoTracer
    /\ OnShutdown(h)
    /\ previous' = [previous EXCEPT ![h] = provider]
    /\ provider' = h
    /\ UNCHANGED exporters

\* The exporter stops even if its context is done.
shutdownTracingExporter(h) == exporters \ {h}

\* The resource or the sampler is refused after the exporter was opened.  A service
\* that goes on without its own tracing is one that has not enabled it.
InitFails ==
    /\ opening # NoTracer /\ opening' = NoTracer
    /\ exporters' = shutdownTracingExporter(opening)
    /\ main' = "refused"
    /\ UNCHANGED <<lifecycle, owner, stopped, expired, errs, server, provider, previous, async>>

\* The function that InitTracing returned: an error of the provider's shutdown
\* does not keep the previous one from coming back.
restored(h, ok) == previous[h]

\* TracerProvider.Shutdown does not reach the exporter if its context is done.
flushed(h, s) == IF expired[s] THEN exporters ELSE exporters \ {h}

Register(h) ==
    /\ OnShutdown(h)
    /\ UNCHANGED <<todo, ran, main, owner, stopped, expired, errs, server, work>>

\* The service enables tracing itself, before it calls RunHTTPServer.
EnableTracing(h) ==
    /\ main = "start" /\ h # Tracing
    /\ EnableTracingFromEnv(h)
    /\ UNCHANGED <<todo, ran, main, owner, stopped, expired, errs, server, async>>

\* EnableTracingFromEnv, then the goroutine that serves.
Start(enabled) ==
    /\ main = "start"
    /\ IF enabled THEN EnableTracingFromEnv(Tracing)
       ELSE opening = NoTracer /\ UNCHANGED <<hooks, order, tracing>>
    /\ main' = "select" /\ serving' = "yes"
    /\ UNCHANGED <<todo, ran, owner, stopped, expired, errs, errCh, connected, inflight, cut,
                   async>>

\* The configuration or the endpoint is refused.
StartFails ==
    /\ main = "start" /\ opening = NoTracer
    /\ main' = "refused"
    /\ UNCHANGED <<lifecycle, owner, stopped, expired, errs, server, work>>

\* Serve returns an error: binding or accepting failed.  Connections stay.
ServeFails ==
    /\ serving = "yes"
    /\ serving' = "failed" /\ errCh' = "err"
    /\ UNCHANGED <<lifecycle, main, owner, stopped, expired, errs, connected, inflight, cut, work>>

\* Server.Close or Server.Shutdown: Serve returns ErrServerClosed, and no
\* connection takes another request.
close ==
    /\ serving' = "closed" /\ connected' = {}
    /\ errCh' = IF serving = "yes" THEN "closed" ELSE errCh

\* Somebody else calls Server.Shutdown, or Server.Close, which closes connections
\* under their handlers; a Server.Shutdown does not wait for those any more.
CloseElsewhere(abruptly) ==
    /\ serving # "no"
    /\ close
    /\ cut' = IF abruptly THEN inflight ELSE cut
    /\ UNCHANGED <<lifecycle, main, owner, stopped, expired, errs, inflight, work>>

Stop ==
    /\ ~stopped /\ stopped' = TRUE
    /\ UNCHANGED <<lifecycle, main, owner, expired, errs, server, work>>

Request(c) ==
    /\ c \notin inflight /\ (serving = "yes" \/ c \in connected)
    /\ connected' = connected \cup {c} /\ inflight' = inflight \cup {c}
    /\ UNCHANGED <<lifecycle, main, owner, stopped, expired, errs, errCh, serving, cut, work>>

Respond(c) ==
    /\ c \in inflight /\ inflight' = inflight \ {c} /\ cut' = cut \ {c}
    /\ UNCHANGED <<lifecycle, main, owner, stopped, expired, errs, errCh, serving, connected, work>>
-------------------------------------------------------------------------------
\* select receives the error: the hooks run at once.
ListenFailed ==
    /\ main = "select" /\ errCh = "err"
    /\ errCh' = "closed" /\ errs' = {"listen"}
    /\ take("main") /\ main' = "hooks"
    /\ UNCHANGED <<order, ran, owner, stopped, expired, serving, connected, inflight, cut, work>>

\* select receives from the closed channel: return nil.
ServerClosed ==
    /\ main = "select" /\ errCh = "closed"
    /\ main' = "refused"
    /\ UNCHANGED <<lifecycle, owner, stopped, expired, errs, server, work>>

\* select sees ctx.Done: Server.Shutdown stops accepting and waits.
Done ==
    /\ main = "select" /\ stopped
    /\ main' = "drain"
    /\ close
    /\ UNCHANGED <<lifecycle, owner, stopped, expired, errs, inflight, cut, work>>

\* Mutant: Server.Close instead of Server.Shutdown.
drained_AtOnce == TRUE

\* Mutant: Server.Shutdown is not given the timeout.
drained_NoTimeout == inflight \subseteq cut

\* Server.Shutdown returns.
drained == inflight \subseteq cut \/ expired["main"]

Drained ==
    /\ main = "drain" /\ drained
    /\ errs' = IF inflight \subseteq cut THEN errs ELSE errs \cup {"shutdown"}
    /\ take("main") /\ main' = "hooks"
    /\ UNCHANGED <<order, ran, owner, stopped, expired, server, work>>

\* context.WithTimeout: both phases of a shutdown share it.  The owner has a
\* context of its own.
Expire(s) ==
    /\ ~expired[s] /\ IF s = "main" THEN main \in {"drain", "hooks"} ELSE owner = "called"
    /\ expired' = [expired EXCEPT ![s] = TRUE]
    /\ UNCHANGED <<lifecycle, main, owner, stopped, errs, server, work>>

OwnerShutdown ==
    /\ owner = "idle"
    /\ take("owner") /\ owner' = "called"
    /\ UNCHANGED <<order, ran, main, stopped, expired, errs, server, work>>

RunHook(s, ok) ==
    /\ todo[s] # <<>>
    /\ LET h == last(todo[s]) IN
       IF h \in Tracers
       THEN /\ expired[s] => ~ok
            /\ provider' = restored(h, ok) /\ exporters' = flushed(h, s)
            /\ UNCHANGED <<previous, opening>>
       ELSE UNCHANGED tracing
    /\ ran' = Append(ran, [hook |-> last(todo[s]), by |-> s, late |-> expired[s]])
    /\ todo' = [todo EXCEPT ![s] = afterHook(s, ok)]
    /\ errs' = IF s = "main" /\ ~ok THEN errs \cup {"hook"} ELSE errs
    /\ UNCHANGED <<hooks, order, main, owner, stopped, expired, server, async>>

Return ==
    /\ main = "hooks" /\ todo["main"] = <<>>
    /\ main' = "returned"
    /\ UNCHANGED <<lifecycle, owner, stopped, expired, errs, server, work>>
-------------------------------------------------------------------------------
\* A handler hands over a task; a full runner rejects it and nothing changes.
TryGo(t) ==
    /\ inflight # {} /\ t \notin tasks
    /\ sem < MaxInFlight
    /\ sem' = sem + 1 /\ tasks' = tasks \cup {t}
    /\ UNCHANGED <<lifecycle, main, owner, stopped, expired, errs, server, tracing>>

\* Mutant: a panic does not give the token back.
released_NotOnPanic(panicked) == IF panicked THEN 0 ELSE 1

\* The deferred function gives the token back, after a panic as well.
released(panicked) == 1

TaskEnds(t, panicked) ==
    /\ t \in tasks
    /\ tasks' = tasks \ {t} /\ sem' = sem - released(panicked)
    /\ UNCHANGED <<lifecycle, main, owner, stopped, expired, errs, server, tracing>>

Main ==
    \/ \E h \in Tracers : OpenExporter(h) \/ EnableTracing(h)
    \/ \E enabled \in BOOLEAN : Start(enabled)
    \/ InitFails \/ StartFails \/ ListenFailed \/ ServerClosed \/ Done \/ Drained \/ Return
    \/ \E ok \in BOOLEAN : RunHook("main", ok)

Next ==
    \/ Main
    \/ \E h \in Hooks \ Tracers : Register(h)
    \/ ServeFails \/ Stop \/ OwnerShutdown
    \/ \E abruptly \in BOOLEAN : CloseElsewhere(abruptly)
    \/ \E s \in Callers : Expire(s)
    \/ \E ok \in BOOLEAN : RunHook("owner", ok)
    \/ \E c \in Clients : Request(c) \/ Respond(c)
    \/ \E t \in Tasks : TryGo(t) \/ \E panicked \in BOOLEAN : TaskEnds(t, panicked)

Spec == Init /\ [][Next]_vars

\* RunHTTPServer runs, hooks return, the timeout passes and tasks end; handlers
\* may run forever.
FairSpec ==
    /\ Spec
    /\ WF_vars(Main) /\ WF_vars(Expire("main"))
    /\ WF_vars(\E ok \in BOOLEAN : RunHook("owner", ok))
    /\ \A t \in Tasks : WF_vars(\E panicked \in BOOLEAN : TaskEnds(t, panicked))
-------------------------------------------------------------------------------
Executed == {ran[i].hook : i \in DOMAIN ran}
Waiting == Range(hooks) \cup Range(todo["main"]) \cup Range(todo["owner"])

\* "bounds fire-and-forget work": the tokens taken are those of the tasks that
\* run, so no panic or rejection wears the runner's capacity down.
TokensAreTasks == sem = Cardinality(tasks) /\ sem <= MaxInFlight

\* A registered hook runs once: it waits in the lifecycle or with one caller of
\* Shutdown, or it has run, and never two of these, whoever calls Shutdown.
HooksRunOnce ==
    /\ Registered = Waiting \cup Executed
    /\ Cardinality(Registered) =
          Len(hooks) + Len(todo["main"]) + Len(todo["owner"]) + Len(ran)

\* Hooks of tracers that ran too late to close the exporter.
TooLate == {h \in Tracers : \E i \in DOMAIN ran : ran[i].hook = h /\ ran[i].late}

\* Tracing is undone in the order it was set up, "in reverse order" and whatever
\* fails.  An exporter is open only while InitTracing or a hook is there that will
\* close it, or because Shutdown got to that hook with a context that was done, and
\* RunHTTPServer reports it if it was its own.  The global provider is never one
\* that was shut down, unless two calls of Shutdown share the hooks.
TracingIsUndone ==
    /\ exporters = ((Registered \cap Tracers) \ Executed) \cup TooLate
                      \cup ({opening} \ {NoTracer})
    /\ \A i \in DOMAIN ran : ran[i].hook \in Tracers /\ ran[i].late =>
          ran[i].by = "owner" \/ "hook" \in errs
    /\ Cardinality({ran[i].by : i \in DOMAIN ran}) <= 1 => provider \notin Executed

\* After a signal the hooks that RunHTTPServer runs wait for the handlers: one still
\* in flight was given up by the timeout, and RunHTTPServer reports it, or somebody
\* else's Server.Close had cut its connection.  A failed listener runs the hooks
\* under handlers that still use what they close.
HooksFollowDrain ==
    main = "hooks" /\ ~(inflight \subseteq cut) =>
        "listen" \in errs \/ (expired["main"] /\ "shutdown" \in errs)

\* "joins any returned errors": a hook registered when the server begins to
\* drain runs in the end, whichever hooks before it fail and whoever took it.
DrainRunsHooks ==
    \A h \in Hooks : (main = "drain" /\ h \in Registered) ~> h \in Executed

\* A stop signal ends RunHTTPServer, however long the handlers run.
StopEndsServer == stopped ~> main \in {"returned", "refused"}
===============================================================================
