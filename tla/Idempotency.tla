------------------------------ MODULE Idempotency -----------------------------
(***************************************************************************)
(* idempotency.MiddlewareWithOptions over PostgresStore                    *)
(* (idempotency/idempotency.go): concurrent HTTP requests that carry one   *)
(* Idempotency-Key in one scope, and the row of api_idempotency_keys they  *)
(* share.  Rows of different keys do not interact.                         *)
(*                                                                         *)
(* Time is relative.  age[r] is the time since request r read the clock    *)
(* and row.left the time until the row expires, which is negative once it  *)
(* has.  Cleanup compares expires_at with the clock value its request read *)
(* earlier: expires_at <= now is row.left + age[r] <= 0.                   *)
(***************************************************************************)
EXTENDS Integers, FiniteSets

CONSTANTS Requests,           \* clients' requests; one may be sent again
          Hash(_),            \* Hash(r): RequestHash of its method, path, body
          NoRequest,
          TTL,
          CleanupInterval,
          MaxDelay,           \* bound: time from reading the clock to the insert
          Timely              \* whether every request ends within its TTL

ASSUME IdempotencyAssumption ==
    /\ NoRequest \notin Requests
    /\ TTL \in Nat \ {0} /\ CleanupInterval \in Nat \ {0} /\ MaxDelay \in Nat
    /\ MaxDelay <= TTL
    /\ Timely \in BOOLEAN

VARIABLES
    row,            \* the row of the key
    sinceCleanup,   \* time since lastCleanup, counted up to CleanupInterval
    pc,             \* pc[r]: where the middleware is with r
    age,            \* age[r]: time since r read the clock, counted up to TTL
    answer,         \* answer[r]: the last answer r got
    source,         \* source[r]: whose response r was answered with
    healthy         \* from here on no database call fails, no handler panics

vars == <<row, sinceCleanup, pc, age, answer, source, healthy>>

NoRow == [state |-> "none", req |-> NoRequest, resp |-> NoRequest, left |-> 0]

Init ==
    /\ row = NoRow
    /\ sinceCleanup = CleanupInterval       \* lastCleanup.IsZero()
    /\ pc = [r \in Requests |-> "out"]
    /\ age = [r \in Requests |-> 0]
    /\ answer = [r \in Requests |-> "none"]
    /\ source = [r \in Requests |-> NoRequest]
    /\ healthy = FALSE

Goto(r, label) == pc' = [pc EXCEPT ![r] = label]

Finish(r, a, q) ==
    /\ Goto(r, "out")
    /\ answer' = [answer EXCEPT ![r] = a]
    /\ source' = [source EXCEPT ![r] = q]
    /\ age' = [age EXCEPT ![r] = 0]
-------------------------------------------------------------------------------
\* No key, no scope, or an unreadable body: a 400.
Refuse(r) ==
    /\ pc[r] = "out"
    /\ Finish(r, "error", NoRequest)
    /\ UNCHANGED <<row, sinceCleanup, healthy>>

\* The clock is read and, under lastCleanupMu, the cleanup claimed if due.
Arrive(r) ==
    /\ pc[r] = "out"
    /\ answer' = [answer EXCEPT ![r] = "none"]
    /\ source' = [source EXCEPT ![r] = NoRequest]
    /\ IF sinceCleanup >= CleanupInterval
       THEN Goto(r, "cleanup") /\ sinceCleanup' = 0
       ELSE Goto(r, "begin") /\ UNCHANGED sinceCleanup
    /\ UNCHANGED <<row, age, healthy>>

\* Mutant: a row is deleted when it is about to expire.
expired_Early(r) == row.state # "none" /\ row.left + age[r] <= 1

\* Mutant: only completed rows are deleted.
expired_DoneOnly(r) == row.state = "done" /\ row.left + age[r] <= 0

\* delete ... where expires_at <= now
expired(r) == row.state # "none" /\ row.left + age[r] <= 0

Cleanup(r) ==
    /\ pc[r] = "cleanup"
    /\ row' = IF expired(r) THEN NoRow ELSE row
    /\ Goto(r, "begin")
    /\ UNCHANGED <<sinceCleanup, age, answer, source, healthy>>

\* A failed cleanup is logged and the request goes on.
CleanupFails(r) ==
    /\ pc[r] = "cleanup" /\ ~healthy
    /\ Goto(r, "begin")
    /\ UNCHANGED <<row, sinceCleanup, age, answer, source, healthy>>

\* Mutant: the stored request hash is not compared.
BeginFound_AnyHash(r) ==
    /\ pc[r] = "begin" /\ row.state # "none"
    /\ IF row.state = "pending" THEN Finish(r, "in_progress", NoRequest)
                                ELSE Finish(r, "replay", row.resp)
    /\ UNCHANGED <<row, sinceCleanup, healthy>>

\* Begin finds the key: conflict, still pending, or a replay.
BeginFound(r) ==
    /\ pc[r] = "begin" /\ row.state # "none"
    /\ CASE Hash(row.req) # Hash(r) -> Finish(r, "conflict", NoRequest)
         [] Hash(row.req) = Hash(r) /\ row.state = "pending" ->
                Finish(r, "in_progress", NoRequest)
         [] Hash(row.req) = Hash(r) /\ row.state = "done" ->
                Finish(r, "replay", row.resp)
    /\ UNCHANGED <<row, sinceCleanup, healthy>>

\* Begin's select finds no row and the transaction goes on to insert one.
BeginAbsent(r) ==
    /\ pc[r] = "begin" /\ row.state = "none"
    /\ Goto(r, "insert")
    /\ UNCHANGED <<row, sinceCleanup, age, answer, source, healthy>>

NewRow(r) == [state |-> "pending", req |-> r, resp |-> NoRequest, left |-> TTL - age[r]]

\* The insert and its commit; the unique key lets only one of them through.
Insert(r) ==
    /\ pc[r] = "insert" /\ row.state = "none"
    /\ row' = NewRow(r)
    /\ Goto(r, "handler")
    /\ UNCHANGED <<sinceCleanup, age, answer, source, healthy>>

\* The insert violates the unique key.
InsertLoses(r) ==
    /\ pc[r] = "insert" /\ row.state # "none"
    /\ Finish(r, "error", NoRequest)
    /\ UNCHANGED <<row, sinceCleanup, healthy>>

\* A database call of Begin fails; the commit of the insert may have been
\* applied nevertheless.
BeginFails(r, committed) ==
    /\ pc[r] \in {"begin", "insert"} /\ ~healthy
    /\ committed => pc[r] = "insert" /\ row.state = "none"
    /\ row' = IF committed THEN NewRow(r) ELSE row
    /\ Finish(r, "error", NoRequest)
    /\ UNCHANGED <<sinceCleanup, healthy>>

\* next.ServeHTTP returns.
Handle(r) ==
    /\ pc[r] = "handler"
    /\ Goto(r, "complete")
    /\ UNCHANGED <<row, sinceCleanup, age, answer, source, healthy>>

\* The handler panics: Complete is not deferred and is skipped.
Abort(r) ==
    /\ pc[r] = "handler" /\ ~healthy
    /\ Finish(r, "error", NoRequest)
    /\ UNCHANGED <<row, sinceCleanup, healthy>>

\* update ... where scope and key match, whoever inserted the row; it is not
\* an error when there is none.
Complete(r) ==
    /\ pc[r] = "complete"
    /\ row' = IF row.state = "none" THEN row
              ELSE [state |-> "done", req |-> row.req, resp |-> r,
                    left |-> row.left]
    /\ Finish(r, "executed", r)
    /\ UNCHANGED <<sinceCleanup, healthy>>

\* The update fails, for one because the client has gone and its context is
\* cancelled; the error is logged.
CompleteFails(r) ==
    /\ pc[r] = "complete" /\ ~healthy
    /\ Finish(r, "executed", r)
    /\ UNCHANGED <<row, sinceCleanup, healthy>>

Inside(r) == pc[r] # "out"
Early(r) == pc[r] \in {"cleanup", "begin", "insert"}

\* The process dies and is started again; lastCleanup was only in memory.
Crash ==
    /\ ~healthy
    /\ \E r \in Requests : Inside(r)
    /\ pc' = [r \in Requests |-> "out"]
    /\ answer' = [r \in Requests |-> IF Inside(r) THEN "error" ELSE answer[r]]
    /\ age' = [r \in Requests |-> 0]
    /\ sinceCleanup' = CleanupInterval
    /\ UNCHANGED <<row, source, healthy>>

\* One unit of time passes.
Tick ==
    /\ \A r \in Requests : Early(r) => age[r] < MaxDelay
    /\ Timely => \A r \in Requests : Inside(r) => age[r] + 1 < TTL
    /\ age' = [r \in Requests |->
                  IF Inside(r) /\ age[r] < TTL THEN age[r] + 1 ELSE age[r]]
    /\ row' = IF row.state # "none" /\ row.left > -MaxDelay
              THEN [row EXCEPT !.left = @ - 1] ELSE row
    /\ sinceCleanup' = IF sinceCleanup < CleanupInterval
                       THEN sinceCleanup + 1 ELSE sinceCleanup
    /\ UNCHANGED <<pc, answer, source, healthy>>

Heal ==
    /\ ~healthy
    /\ healthy' = TRUE
    /\ UNCHANGED <<row, sinceCleanup, pc, age, answer, source>>

Step(r) ==
    \/ Cleanup(r) \/ CleanupFails(r)
    \/ BeginFound(r) \/ BeginAbsent(r)
    \/ Insert(r) \/ InsertLoses(r)
    \/ Handle(r) \/ Complete(r) \/ CompleteFails(r)
    \/ \E committed \in BOOLEAN : BeginFails(r, committed)

Next ==
    \/ \E r \in Requests : Refuse(r) \/ Arrive(r) \/ Step(r) \/ Abort(r)
    \/ Crash
    \/ Tick
    \/ Heal

Spec == Init /\ [][Next]_vars

\* Requests under way go on, time passes, and clients keep retrying.
FairSpec ==
    /\ Spec
    /\ WF_vars(Tick)
    /\ \A r \in Requests : WF_vars(Step(r)) /\ WF_vars(Arrive(r))
-------------------------------------------------------------------------------
Answers == {"none", "conflict", "in_progress", "replay", "error", "executed"}
Running(r) == pc[r] \in {"handler", "complete"}

\* Every variable keeps to its range.
TypeOK ==
    /\ row \in [state : {"none", "pending", "done"},
                req   : Requests \cup {NoRequest},
                resp  : Requests \cup {NoRequest},
                left  : -MaxDelay..TTL]
    /\ sinceCleanup \in 0..CleanupInterval
    /\ pc \in [Requests -> {"out", "cleanup", "begin", "insert", "handler",
                            "complete"}]
    /\ age \in [Requests -> 0..TTL]
    /\ answer \in [Requests -> Answers]
    /\ source \in [Requests -> Requests \cup {NoRequest}]
    /\ healthy \in BOOLEAN

\* While a request that ends within its TTL is between Begin and Complete, the
\* row is the one it inserted: no cleanup, however late its clock value is
\* used, has made room for another execution.
RunningOwnsRow ==
    \A r \in Requests : Running(r) => row.state = "pending" /\ row.req = r

\* Two requests with the same key never execute at the same time.
OneExecution ==
    \A r, q \in Requests : Running(r) /\ Running(q) => r = q

\* A replayed response was produced for the same method, path and body; any
\* other request is refused ("Idempotency key already exists for a different
\* request").
ReplayMatchesRequest ==
    \A r \in Requests : answer[r] = "replay" =>
        /\ source[r] # NoRequest
        /\ Hash(source[r]) = Hash(r)

\* A key is forgotten only after its TTL has passed in real time, whatever
\* stale clock value the cleaning request holds.
KeyOutlivesTTL == [][row.state # "none" /\ row'.state = "none" => row.left <= 0]_vars

\* A key left pending by a panic, a crash or a failed Complete does not stay
\* so: as long as clients retry, it is cleaned up and can be used again.
PendingIsResolved ==
    <>[]healthy => (row.state = "pending" ~> row.state # "pending")
===============================================================================
