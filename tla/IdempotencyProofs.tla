--------------------------- MODULE IdempotencyProofs --------------------------
(***************************************************************************)
(* One execution at a time, faithful replays, and one journalled change    *)
(* per key, for any set of requests, any TTL and any cleanup interval, as  *)
(* long as every request ends within its TTL; and, without that condition, *)
(* keys that are kept for their TTL.                                       *)
(***************************************************************************)
EXTENDS ChangeJournal, TLAPS

\* The row of a running request expires when that request's age reaches the
\* TTL, which a timely request does not live to see.
RowOutlivesOwner ==
    \A r \in Requests :
        /\ Inside(r) => age[r] < TTL
        /\ Running(r) => row.left = TTL - age[r]

\* A stored response belongs to a request with the hash stored beside it.
RowIsConsistent ==
    /\ row.state # "none" => row.req \in Requests
    /\ row.state = "done" => row.resp \in Requests /\ Hash(row.resp) = Hash(row.req)

\* A request that is not under way has no clock value.
FreshOutside == \A r \in Requests : ~Inside(r) => age[r] = 0

IInv == /\ TypeOK
        /\ FreshOutside
        /\ RunningOwnsRow
        /\ RowOutlivesOwner
        /\ RowIsConsistent
        /\ ReplayMatchesRequest

USE IdempotencyAssumption DEF IdempotencyAssumption

\* Init establishes the types.
LEMMA InitTypes == Init => TypeOK
<1> SUFFICES ASSUME Init PROVE TypeOK
  OBVIOUS
<1>1. row \in [state : {"none", "pending", "done"},
               req   : Requests \cup {NoRequest},
               resp  : Requests \cup {NoRequest},
               left  : -MaxDelay..TTL]
  BY DEF Init, NoRow
<1>2. sinceCleanup \in 0..CleanupInterval
  BY DEF Init
<1>3. /\ pc \in [Requests -> {"out", "cleanup", "begin", "insert", "handler",
                              "complete"}]
      /\ age \in [Requests -> 0..TTL]
      /\ answer \in [Requests -> Answers]
      /\ source \in [Requests -> Requests \cup {NoRequest}]
  BY DEF Init, Answers
<1>4. healthy \in BOOLEAN
  BY Zenon DEF Init
<1> QED
  BY <1>1, <1>2, <1>3, <1>4 DEF TypeOK

\* Init establishes the invariant: nobody is inside.
LEMMA InitIInv == Init => IInv
<1> SUFFICES ASSUME Init PROVE IInv
  OBVIOUS
<1>1. TypeOK
  BY InitTypes
<1>2. RunningOwnsRow /\ RowOutlivesOwner /\ FreshOutside
  BY DEF Init, RunningOwnsRow, RowOutlivesOwner, FreshOutside, Running, Inside
<1>3. RowIsConsistent
  BY DEF Init, RowIsConsistent, NoRow
<1>4. ReplayMatchesRequest
  BY DEF Init, ReplayMatchesRequest
<1> QED
  BY <1>1, <1>2, <1>3, <1>4 DEF IInv

\* A request that is answered leaves; the others stay where they are.
LEMMA FinishLeaves ==
    ASSUME TypeOK, NEW r \in Requests, NEW a \in Answers,
           NEW q \in Requests \cup {NoRequest}, Finish(r, a, q)
    PROVE  /\ pc' \in [Requests -> {"out", "cleanup", "begin", "insert",
                                    "handler", "complete"}]
           /\ age' \in [Requests -> 0..TTL]
           /\ answer' \in [Requests -> Answers]
           /\ source' \in [Requests -> Requests \cup {NoRequest}]
           /\ pc'[r] = "out" /\ age'[r] = 0 /\ answer'[r] = a /\ source'[r] = q
           /\ \A x \in Requests : x # r =>
                  /\ pc'[x] = pc[x] /\ age'[x] = age[x]
                  /\ answer'[x] = answer[x] /\ source'[x] = source[x]
  BY DEF TypeOK, Finish, Goto

\* Leaving preserves the invariant when the row is left alone and a replay is
\* faithful.
LEMMA FinishIInv ==
    ASSUME IInv, NEW r \in Requests, NEW a \in Answers,
           NEW q \in Requests \cup {NoRequest}, Finish(r, a, q),
           a = "replay" => q \in Requests /\ Hash(q) = Hash(r),
           UNCHANGED <<row, sinceCleanup, healthy>>
    PROVE  IInv'
<1>1. TypeOK'
  BY FinishLeaves DEF IInv, TypeOK
<1>2. RunningOwnsRow' /\ RowOutlivesOwner' /\ FreshOutside'
  BY SMTT(30), FinishLeaves
  DEF IInv, RunningOwnsRow, RowOutlivesOwner, FreshOutside, Running, Inside
<1>3. RowIsConsistent'
  BY DEF IInv, RowIsConsistent
<1>4. ReplayMatchesRequest'
  <2> SUFFICES ASSUME NEW x \in Requests, answer'[x] = "replay"
               PROVE  source'[x] # NoRequest /\ Hash(source'[x]) = Hash(x)
    BY DEF ReplayMatchesRequest
  <2>1. CASE x = r
    BY <2>1, FinishLeaves DEF IInv
  <2>2. CASE x # r
    BY <2>2, FinishLeaves DEF IInv, ReplayMatchesRequest
  <2> QED
    BY <2>1, <2>2
<1> QED
  BY <1>1, <1>2, <1>3, <1>4 DEF IInv

\* Moving on to a step that is not the handler, with the row left alone,
\* preserves the invariant.
LEMMA GotoIInv ==
    ASSUME IInv, NEW r \in Requests, Inside(r),
           NEW label \in {"cleanup", "begin", "insert", "complete"}, Goto(r, label),
           label = "complete" => Running(r),
           UNCHANGED <<row, sinceCleanup, age, answer, source, healthy>>
    PROVE  IInv'
<1>1. /\ pc' \in [Requests -> {"out", "cleanup", "begin", "insert", "handler",
                               "complete"}]
      /\ pc'[r] = label
      /\ \A x \in Requests : x # r => pc'[x] = pc[x]
  BY DEF IInv, TypeOK, Goto
<1>2. TypeOK'
  BY <1>1 DEF IInv, TypeOK
<1>3. \A x \in Requests : (Running(x)' => Running(x)) /\ (Inside(x)' <=> Inside(x))
  BY <1>1 DEF Running, Inside
<1>4. RunningOwnsRow' /\ RowOutlivesOwner' /\ FreshOutside'
  BY <1>3 DEF IInv, RunningOwnsRow, RowOutlivesOwner, FreshOutside
<1>5. RowIsConsistent' /\ ReplayMatchesRequest'
  BY DEF IInv, RowIsConsistent, ReplayMatchesRequest
<1> QED
  BY <1>2, <1>4, <1>5 DEF IInv

\* An arriving request is not running yet and its clock value is fresh.
LEMMA ArriveIInv ==
    ASSUME IInv, NEW r \in Requests, Arrive(r)
    PROVE  IInv'
<1>1. PICK label \in {"cleanup", "begin"} : Goto(r, label)
  BY DEF Arrive
<1>2. /\ pc' \in [Requests -> {"out", "cleanup", "begin", "insert", "handler",
                               "complete"}]
      /\ pc'[r] = label
      /\ \A x \in Requests : x # r => pc'[x] = pc[x]
  BY <1>1 DEF IInv, TypeOK, Goto
<1>3. /\ answer' \in [Requests -> Answers]
      /\ source' \in [Requests -> Requests \cup {NoRequest}]
      /\ sinceCleanup' \in 0..CleanupInterval
  BY DEF IInv, TypeOK, Arrive, Answers
<1>4. TypeOK'
  BY <1>2, <1>3 DEF IInv, TypeOK, Arrive
<1>5. age[r] < TTL
  BY DEF IInv, FreshOutside, Inside, Arrive
<1>6. RunningOwnsRow' /\ RowOutlivesOwner'
  BY <1>2, <1>5 DEF IInv, RunningOwnsRow, RowOutlivesOwner, Running, Inside, Arrive
<1>7. RowIsConsistent' /\ ReplayMatchesRequest'
  BY DEF IInv, TypeOK, RowIsConsistent, ReplayMatchesRequest, Arrive
<1>8. FreshOutside'
  BY <1>2 DEF IInv, FreshOutside, Inside, Arrive
<1> QED
  BY <1>4, <1>6, <1>7, <1>8 DEF IInv

\* Deleting the row disturbs nobody: the row of a running request has not
\* expired, however old the clock value of the cleaning request is.
LEMMA CleanupIInv ==
    ASSUME IInv, NEW r \in Requests, Cleanup(r)
    PROVE  IInv'
<1>1. CASE ~expired(r)
  BY <1>1, GotoIInv DEF Cleanup, Inside
<1>2. CASE expired(r)
  <2>1. /\ row' = NoRow
        /\ UNCHANGED <<sinceCleanup, age, answer, source, healthy>>
    BY <1>2 DEF Cleanup
  <2>2. /\ pc' \in [Requests -> {"out", "cleanup", "begin", "insert", "handler",
                                 "complete"}]
        /\ pc[r] = "cleanup" /\ pc'[r] = "begin"
        /\ \A x \in Requests : x # r => pc'[x] = pc[x]
    BY DEF Cleanup, IInv, TypeOK, Goto
  <2>3. row.left <= 0
    BY <1>2 DEF IInv, TypeOK, expired
  <2>4. \A x \in Requests : ~Running(x)
    BY <2>3 DEF IInv, TypeOK, RowOutlivesOwner, Running, Inside
  <2>5. \A x \in Requests : ~Running(x)' /\ (Inside(x)' <=> Inside(x))
    BY <2>2, <2>4 DEF Running, Inside
  <2>6. NoRow \in [state : {"none", "pending", "done"},
                   req   : Requests \cup {NoRequest},
                   resp  : Requests \cup {NoRequest},
                   left  : -MaxDelay..TTL]
    BY DEF NoRow
  <2>7. TypeOK'
    BY <2>1, <2>2, <2>6 DEF IInv, TypeOK
  <2>8. RunningOwnsRow' /\ RowOutlivesOwner' /\ FreshOutside'
    BY <2>1, <2>5 DEF IInv, RunningOwnsRow, RowOutlivesOwner, FreshOutside
  <2>9. RowIsConsistent' /\ ReplayMatchesRequest'
    BY <2>1 DEF IInv, RowIsConsistent, ReplayMatchesRequest, NoRow
  <2> QED
    BY <2>7, <2>8, <2>9 DEF IInv
<1> QED
  BY <1>1, <1>2

\* The row a request inserts expires TTL after the request read the clock.
LEMMA NewRowType ==
    ASSUME IInv, NEW r \in Requests
    PROVE  NewRow(r) \in [state : {"none", "pending", "done"},
                          req   : Requests \cup {NoRequest},
                          resp  : Requests \cup {NoRequest},
                          left  : -MaxDelay..TTL]
<1>1. TTL - age[r] \in -MaxDelay..TTL
  BY DEF IInv, TypeOK
<1> QED
  BY <1>1 DEF NewRow

\* Insert succeeds only without a row, so nobody else is running.
LEMMA InsertIInv ==
    ASSUME IInv, NEW r \in Requests, Insert(r)
    PROVE  IInv'
<1>1. /\ row' = NewRow(r) /\ row.state = "none" /\ pc[r] = "insert"
      /\ UNCHANGED <<sinceCleanup, age, answer, source, healthy>>
  BY DEF Insert
<1>2. /\ pc' \in [Requests -> {"out", "cleanup", "begin", "insert", "handler",
                               "complete"}]
      /\ pc'[r] = "handler"
      /\ \A x \in Requests : x # r => pc'[x] = pc[x]
  BY DEF Insert, IInv, TypeOK, Goto
<1>3. TypeOK'
  BY <1>1, <1>2, NewRowType DEF IInv, TypeOK
<1>4. \A x \in Requests : /\ Running(x)' => x = r
                          /\ Inside(x)' <=> Inside(x)
  BY <1>1, <1>2 DEF IInv, RunningOwnsRow, Running, Inside
<1>5. RunningOwnsRow' /\ RowOutlivesOwner' /\ FreshOutside'
  BY <1>1, <1>4 DEF IInv, RunningOwnsRow, RowOutlivesOwner, FreshOutside, NewRow
<1>6. RowIsConsistent' /\ ReplayMatchesRequest'
  BY <1>1 DEF IInv, RowIsConsistent, ReplayMatchesRequest, NewRow
<1> QED
  BY <1>3, <1>5, <1>6 DEF IInv

\* A commit that is applied although it was reported failed leaves a pending
\* row that nobody is running for.
LEMMA BeginFailsIInv ==
    ASSUME IInv, NEW r \in Requests, NEW committed \in BOOLEAN,
           BeginFails(r, committed)
    PROVE  IInv'
<1>1. Finish(r, "error", NoRequest) /\ "error" \in Answers
  BY DEF BeginFails, Answers
<1>2. CASE ~committed
  BY <1>1, <1>2, FinishIInv DEF BeginFails
<1>3. CASE committed
  <2>1. /\ row' = NewRow(r) /\ row.state = "none"
        /\ UNCHANGED <<sinceCleanup, healthy>>
    BY <1>3 DEF BeginFails
  <2>2. TypeOK'
    BY <1>1, <2>1, FinishLeaves, NewRowType DEF IInv, TypeOK
  <2>3. \A x \in Requests : ~Running(x)'
    BY <1>1, <2>1, FinishLeaves DEF IInv, RunningOwnsRow, Running
  <2>4. RunningOwnsRow' /\ RowOutlivesOwner' /\ FreshOutside'
    BY <1>1, <2>3, FinishLeaves
    DEF IInv, RunningOwnsRow, RowOutlivesOwner, FreshOutside, Inside
  <2>5. RowIsConsistent'
    BY <2>1 DEF RowIsConsistent, NewRow
  <2>6. ReplayMatchesRequest'
    BY <1>1, FinishLeaves DEF IInv, ReplayMatchesRequest
  <2> QED
    BY <2>2, <2>4, <2>5, <2>6 DEF IInv
<1> QED
  BY <1>2, <1>3

\* The running request completes its own row, so the response it stores has
\* the hash of the row.
LEMMA CompleteIInv ==
    ASSUME IInv, NEW r \in Requests, Complete(r)
    PROVE  IInv'
<1>1. Finish(r, "executed", r) /\ "executed" \in Answers
  BY DEF Complete, Answers
<1>2. Running(r) /\ row.state = "pending" /\ row.req = r
  BY DEF IInv, RunningOwnsRow, Running, Complete
<1>3. /\ row' = [state |-> "done", req |-> row.req, resp |-> r, left |-> row.left]
      /\ UNCHANGED <<sinceCleanup, healthy>>
  BY <1>2 DEF Complete
<1>4. TypeOK'
  BY <1>1, <1>3, FinishLeaves DEF IInv, TypeOK
<1>5. \A x \in Requests : ~Running(x)'
  BY <1>1, <1>2, FinishLeaves DEF IInv, RunningOwnsRow, Running
<1>6. RunningOwnsRow' /\ RowOutlivesOwner' /\ FreshOutside'
  BY <1>1, <1>5, FinishLeaves
  DEF IInv, RunningOwnsRow, RowOutlivesOwner, FreshOutside, Inside
<1>7. RowIsConsistent'
  BY <1>2, <1>3 DEF RowIsConsistent
<1>8. ReplayMatchesRequest'
  BY <1>1, FinishLeaves DEF IInv, ReplayMatchesRequest
<1> QED
  BY <1>4, <1>6, <1>7, <1>8 DEF IInv

\* Begin replays only a response stored under the hash of the request.
LEMMA BeginFoundIInv ==
    ASSUME IInv, NEW r \in Requests, BeginFound(r)
    PROVE  IInv'
<1>1. UNCHANGED <<row, sinceCleanup, healthy>>
  BY DEF BeginFound
<1>2. {"conflict", "in_progress", "replay"} \subseteq Answers
  BY DEF Answers
<1>3. CASE Finish(r, "conflict", NoRequest)
  BY <1>1, <1>2, <1>3, FinishIInv
<1>4. CASE Finish(r, "in_progress", NoRequest)
  BY <1>1, <1>2, <1>4, FinishIInv
<1>5. CASE /\ Hash(row.req) = Hash(r) /\ row.state = "done"
           /\ Finish(r, "replay", row.resp)
  <2>1. row.resp \in Requests /\ Hash(row.resp) = Hash(r)
    BY <1>5 DEF IInv, RowIsConsistent
  <2> QED
    BY <1>1, <1>2, <1>5, <2>1, FinishIInv
<1>6. row.state \in {"pending", "done"}
  BY DEF BeginFound, IInv, TypeOK
<1> QED
  BY <1>3, <1>4, <1>5, <1>6, Zenon DEF BeginFound

\* A crash empties the middleware and leaves the row to be cleaned up.
LEMMA CrashIInv ==
    ASSUME IInv, Crash
    PROVE  IInv'
<1>1. TypeOK'
  <2>1. row' = row /\ source' = source /\ healthy' = healthy
    BY DEF Crash
  <2>2. sinceCleanup' \in 0..CleanupInterval
    BY DEF Crash
  <2>3. /\ pc' \in [Requests -> {"out", "cleanup", "begin", "insert", "handler",
                                 "complete"}]
        /\ age' \in [Requests -> 0..TTL]
        /\ answer' \in [Requests -> Answers]
    BY DEF Crash, IInv, TypeOK, Answers
  <2> QED
    BY <2>1, <2>2, <2>3 DEF IInv, TypeOK
<1>2. RunningOwnsRow' /\ RowOutlivesOwner' /\ FreshOutside'
  BY DEF Crash, RunningOwnsRow, RowOutlivesOwner, FreshOutside, Running, Inside
<1>3. RowIsConsistent'
  BY DEF Crash, IInv, RowIsConsistent
<1>4. ReplayMatchesRequest'
  BY DEF Crash, IInv, ReplayMatchesRequest
<1> QED
  BY <1>1, <1>2, <1>3, <1>4 DEF IInv

\* Time brings the running request and its row equally close to the end.
LEMMA TickIInv ==
    ASSUME Timely, IInv, Tick
    PROVE  IInv'
<1>1. /\ UNCHANGED <<pc, answer, source, healthy>>
      /\ age' \in [Requests -> 0..TTL]
      /\ \A x \in Requests : Inside(x) => age'[x] = age[x] + 1 /\ age'[x] < TTL
      /\ \A x \in Requests : ~Inside(x) => age'[x] = age[x]
  BY DEF Tick, IInv, TypeOK
<1>2. CASE row.state # "none" /\ row.left > -MaxDelay
  <2>1. /\ row' = [row EXCEPT !.left = row.left - 1]
        /\ row'.state = row.state /\ row'.req = row.req /\ row'.resp = row.resp
        /\ row'.left = row.left - 1
    BY <1>2 DEF Tick, IInv, TypeOK
  <2>2. row.left - 1 \in -MaxDelay..TTL
    BY <1>2 DEF IInv, TypeOK
  <2>3. sinceCleanup' \in 0..CleanupInterval
    BY DEF Tick, IInv, TypeOK
  <2>4. TypeOK'
    BY <1>1, <2>1, <2>2, <2>3 DEF IInv, TypeOK
  <2>5. RunningOwnsRow'
    BY <1>1, <2>1 DEF IInv, RunningOwnsRow, Running
  <2>6. RowOutlivesOwner'
    BY <1>1, <2>1 DEF IInv, TypeOK, RowOutlivesOwner, Running, Inside
  <2>7. RowIsConsistent'
    BY <2>1 DEF IInv, RowIsConsistent
  <2>8. ReplayMatchesRequest' /\ FreshOutside'
    BY <1>1 DEF IInv, ReplayMatchesRequest, FreshOutside, Inside
  <2> QED
    BY <2>4, <2>5, <2>6, <2>7, <2>8 DEF IInv
<1>3. CASE ~(row.state # "none" /\ row.left > -MaxDelay)
  <2>1. row' = row
    BY <1>3 DEF Tick
  <2>2. sinceCleanup' \in 0..CleanupInterval
    BY DEF Tick, IInv, TypeOK
  <2>3. TypeOK'
    BY <1>1, <2>1, <2>2 DEF IInv, TypeOK
  <2>4. \A x \in Requests : ~Running(x)
    BY <1>3 DEF IInv, TypeOK, RunningOwnsRow, RowOutlivesOwner, Running, Inside
  <2>5. RunningOwnsRow' /\ RowOutlivesOwner'
    BY <1>1, <2>4 DEF RunningOwnsRow, RowOutlivesOwner, Running, Inside
  <2>6. RowIsConsistent' /\ ReplayMatchesRequest' /\ FreshOutside'
    BY <1>1, <2>1 DEF IInv, RowIsConsistent, ReplayMatchesRequest, FreshOutside, Inside
  <2> QED
    BY <2>3, <2>5, <2>6 DEF IInv
<1> QED
  BY <1>2, <1>3

\* Every step of the middleware and its environment preserves the invariant.
LEMMA NextIInv ==
    ASSUME Timely, IInv, [Next]_vars
    PROVE  IInv'
<1>1. {"error", "executed"} \subseteq Answers
  BY DEF Answers
<1>2. ASSUME NEW r \in Requests, Refuse(r) PROVE IInv'
  BY <1>1, <1>2, FinishIInv DEF Refuse
<1>3. ASSUME NEW r \in Requests, Arrive(r) PROVE IInv'
  BY <1>3, ArriveIInv
<1>4. ASSUME NEW r \in Requests, Abort(r) PROVE IInv'
  BY <1>1, <1>4, FinishIInv DEF Abort
<1>5. ASSUME NEW r \in Requests, Step(r) PROVE IInv'
  <2>1. CASE Cleanup(r)
    BY <2>1, CleanupIInv
  <2>2. CASE CleanupFails(r)
    BY <2>2, GotoIInv DEF CleanupFails, Inside
  <2>3. CASE BeginFound(r)
    BY <2>3, BeginFoundIInv
  <2>4. CASE BeginAbsent(r)
    BY <2>4, GotoIInv DEF BeginAbsent, Inside
  <2>5. CASE Insert(r)
    BY <2>5, InsertIInv
  <2>6. CASE InsertLoses(r)
    BY <1>1, <2>6, FinishIInv DEF InsertLoses
  <2>7. CASE Handle(r)
    BY <2>7, GotoIInv DEF Handle, Inside, Running
  <2>8. CASE Complete(r)
    BY <2>8, CompleteIInv
  <2>9. CASE CompleteFails(r)
    BY <1>1, <2>9, FinishIInv DEF CompleteFails
  <2>10. ASSUME NEW committed \in BOOLEAN, BeginFails(r, committed) PROVE IInv'
    BY <2>10, BeginFailsIInv
  <2> QED
    BY <1>5, <2>1, <2>2, <2>3, <2>4, <2>5, <2>6, <2>7, <2>8, <2>9, <2>10 DEF Step
<1>6. CASE Crash
  BY <1>6, CrashIInv
<1>7. CASE Tick
  BY <1>7, TickIInv
<1>8. CASE Heal \/ UNCHANGED vars
  <2>1. UNCHANGED <<row, sinceCleanup, pc, age, answer, source>>
    BY <1>8 DEF Heal, vars
  <2>2. healthy' \in BOOLEAN
    BY <1>8, Zenon DEF Heal, vars, IInv, TypeOK
  <2>3. TypeOK'
    BY <2>1, <2>2 DEF IInv, TypeOK
  <2> QED
    BY <2>1, <2>3
    DEF IInv, FreshOutside, RunningOwnsRow, RowOutlivesOwner, RowIsConsistent,
        ReplayMatchesRequest, Running, Inside
<1> QED
  BY <1>2, <1>3, <1>4, <1>5, <1>6, <1>7, <1>8 DEF Next

\* The inductive invariant holds throughout.
LEMMA Invariance ==
    ASSUME Timely
    PROVE  Spec => []IInv
<1>1. Init => IInv
  BY InitIInv
<1>2. IInv /\ [Next]_vars => IInv'
  BY NextIInv
<1> QED
  BY <1>1, <1>2, PTL DEF Spec

\* While a timely request is between Begin and Complete, the key's row is its
\* own pending row, for every TTL, cleanup interval and number of requests.
THEOREM RowOwnership ==
    ASSUME Timely
    PROVE  Spec => []RunningOwnsRow
<1>1. IInv => RunningOwnsRow
  BY DEF IInv
<1> QED
  BY <1>1, Invariance, PTL

\* Requests with the same key never execute at the same time (Begin, Cleanup).
THEOREM SingleExecution ==
    ASSUME Timely
    PROVE  Spec => []OneExecution
<1>1. IInv => OneExecution
  BY DEF IInv, RunningOwnsRow, OneExecution
<1> QED
  BY <1>1, Invariance, PTL

\* A replayed response was produced for the same request hash (Begin, Complete).
THEOREM FaithfulReplay ==
    ASSUME Timely
    PROVE  Spec => []ReplayMatchesRequest
<1>1. IInv => ReplayMatchesRequest
  BY DEF IInv
<1> QED
  BY <1>1, Invariance, PTL

\* What the clocks may hold, whether or not requests end within their TTL: a
\* request's clock value is never from the future.
Clocks ==
    /\ row \in [state : {"none", "pending", "done"},
                req   : Requests \cup {NoRequest},
                resp  : Requests \cup {NoRequest},
                left  : Int]
    /\ age \in [Requests -> Nat]

\* A step that touches the row deletes, inserts, completes or ages it.
LEMMA RowSteps ==
    ASSUME [Next]_vars
    PROVE  \/ row' = row
           \/ \E r \in Requests : \/ Cleanup(r) \/ Insert(r) \/ Complete(r)
                                  \/ \E committed \in BOOLEAN : BeginFails(r, committed)
           \/ Tick
  BY Zenon DEF Next, Step, vars, Refuse, Arrive, Abort, CleanupFails, BeginFound,
         BeginAbsent, InsertLoses, Handle, CompleteFails, Crash, Heal

\* A step leaves the ages alone, resets some of them, or is a tick.
LEMMA AgeSteps ==
    ASSUME Clocks, [Next]_vars
    PROVE  \/ age' = age
           \/ \E r \in Requests : age' = [age EXCEPT ![r] = 0]
           \/ age' = [r \in Requests |-> 0]
           \/ Tick
<1>1. ASSUME NEW r \in Requests, Step(r) PROVE \/ age' = age
                                               \/ age' = [age EXCEPT ![r] = 0]
  <2>1. CASE \/ Cleanup(r) \/ CleanupFails(r) \/ BeginAbsent(r) \/ Insert(r) \/ Handle(r)
    BY <2>1, Zenon DEF Cleanup, CleanupFails, BeginAbsent, Insert, Handle
  <2>2. CASE \/ InsertLoses(r) \/ Complete(r) \/ CompleteFails(r)
             \/ \E committed \in BOOLEAN : BeginFails(r, committed)
    BY <2>2, Zenon DEF InsertLoses, Complete, CompleteFails, BeginFails, Finish
  <2>3. CASE BeginFound(r)
    <3>1. row.state \in {"pending", "done"}
      BY <2>3 DEF BeginFound, Clocks
    <3> QED
      BY <2>3, <3>1, Zenon DEF BeginFound, Finish
  <2> QED
    BY <1>1, <2>1, <2>2, <2>3, Zenon DEF Step
<1>2. ASSUME NEW r \in Requests, Refuse(r) \/ Arrive(r) \/ Abort(r)
      PROVE  \/ age' = age
             \/ age' = [age EXCEPT ![r] = 0]
  BY <1>2, Zenon DEF Refuse, Arrive, Abort, Finish
<1>3. CASE Crash \/ Heal \/ UNCHANGED vars
  BY <1>3, Zenon DEF Crash, Heal, vars
<1> QED
  BY <1>1, <1>2, <1>3, Zenon DEF Next

\* Every step keeps the clocks.
LEMMA NextClocks ==
    ASSUME Clocks, [Next]_vars
    PROVE  Clocks'
<1> DEFINE Rows == [state : {"none", "pending", "done"},
                    req   : Requests \cup {NoRequest},
                    resp  : Requests \cup {NoRequest},
                    left  : Int]
<1>1. row \in Rows /\ age \in [Requests -> Nat]
  BY DEF Clocks
<1>2. age' \in [Requests -> Nat]
  <2>1. CASE Tick
    <3>1. age' = [r \in Requests |->
                    IF Inside(r) /\ age[r] < TTL THEN age[r] + 1 ELSE age[r]]
      BY <2>1 DEF Tick
    <3> QED
      BY <1>1, <3>1
  <2> QED
    BY <1>1, <2>1, AgeSteps
<1>3. NoRow \in Rows
  BY DEF NoRow
<1>4. ASSUME NEW r \in Requests PROVE NewRow(r) \in Rows
  BY <1>1, <1>4 DEF NewRow
<1>5. row' \in Rows
  <2>1. ASSUME NEW r \in Requests, Cleanup(r) PROVE row' \in Rows
    BY <2>1, <1>1, <1>3, Zenon DEF Cleanup
  <2>2. ASSUME NEW r \in Requests, Insert(r) PROVE row' \in Rows
    BY <2>2, <1>4, Zenon DEF Insert
  <2>3. ASSUME NEW r \in Requests, Complete(r) PROVE row' \in Rows
    BY <2>3, <1>1 DEF Complete
  <2>4. ASSUME NEW r \in Requests, NEW committed \in BOOLEAN,
               BeginFails(r, committed) PROVE row' \in Rows
    BY <2>4, <1>1, <1>4, Zenon DEF BeginFails
  <2>5. CASE Tick
    BY <2>5, <1>1 DEF Tick
  <2> QED
    BY <1>1, <2>1, <2>2, <2>3, <2>4, <2>5, RowSteps
<1> QED
  BY <1>2, <1>5 DEF Clocks

\* A key is deleted only after its TTL (Cleanup), whatever clock value the
\* cleaning request holds and however long requests take: a clock value read
\* earlier can only make the cleanup forget later.  Unlike the theorems above
\* this one does not rest on requests ending within their TTL.
THEOREM KeysOutliveTTL == Spec => KeyOutlivesTTL
<1>1. Init => Clocks
  BY DEF Init, Clocks, NoRow
<1>2. Clocks /\ [Next]_vars => Clocks'
  BY NextClocks
<1>3. Clocks /\ [Next]_vars =>
        [row.state # "none" /\ row'.state = "none" => row.left <= 0]_vars
  <2> SUFFICES ASSUME Clocks, [Next]_vars, row.state # "none", row'.state = "none"
               PROVE  row.left <= 0
    OBVIOUS
  <2>1. ASSUME NEW r \in Requests, Cleanup(r) PROVE row.left <= 0
    <3>1. expired(r)
      BY <2>1 DEF Cleanup
    <3> QED
      BY <3>1 DEF expired, Clocks
  <2>2. ASSUME NEW r \in Requests, Insert(r) PROVE FALSE
    BY <2>2 DEF Insert
  <2>3. ASSUME NEW r \in Requests, Complete(r) PROVE FALSE
    BY <2>3 DEF Complete
  <2>4. ASSUME NEW r \in Requests, NEW committed \in BOOLEAN,
               BeginFails(r, committed) PROVE FALSE
    BY <2>4 DEF BeginFails
  <2>5. CASE Tick
    BY <2>5 DEF Tick, Clocks
  <2> QED
    BY <2>1, <2>2, <2>3, <2>4, <2>5, RowSteps
<1> QED
  BY <1>1, <1>2, <1>3, PTL DEF Spec, KeyOutlivesTTL
-------------------------------------------------------------------------------
(* The handlers that write their changes through the journal.              *)

ChangeTypeOK ==
    /\ dbtx \in {"tx", "db"}
    /\ step \in [Requests -> {"start", "audited", "written", "respond"}]
    /\ status \in [Requests -> {"none", "ok", "failed"}]
    /\ audit \in Nat /\ journal \in Nat
    /\ stored \in {"none", "ok", "failed"} /\ unknown \in BOOLEAN

\* Nothing is written under a key that has no row, and only a running request
\* is in the middle of a change.
NothingUnclaimed ==
    /\ row.state = "none" => audit = 0 /\ journal = 0
    /\ \A r \in Requests : ~Running(r) => step[r] = "start"
    /\ \A r \in Requests : pc[r] = "complete" => step[r] = "respond"

\* What a running request has written, by how far its handler is; nobody else
\* has written anything.
WrittenSoFar ==
    \A r \in Requests : Running(r) =>
        /\ step[r] = "start" => audit = 0 /\ journal = 0
        /\ step[r] = "audited" => audit = inserted /\ journal = 0
        /\ step[r] = "written" => dbtx = "tx" /\ audit = 0 /\ journal = 0
        /\ step[r] = "respond" =>
              /\ status[r] = "ok" => journal = 1
              /\ status[r] = "failed" /\ ~unknown => journal = 0

ChangeInv ==
    /\ IInv
    /\ ChangeTypeOK /\ NothingUnclaimed /\ WrittenSoFar
    /\ OneChangePerKey /\ StoredAnswerIsTrue
\* With the handlers the middleware takes the steps it takes without them.
LEMMA ChangeStepIsStep ==
    ASSUME [ChangeNext]_allVars
    PROVE  [Next]_vars
<1>1. ASSUME NEW r \in Requests, ChangeStep(r) PROVE [Next]_vars
  <2>1. CASE Elsewhere(r) \/ Cleaned(r) \/ Return(r) \/ Completed(r)
    BY <2>1 DEF Elsewhere, Cleaned, Return, Completed, Next, Step
  <2>2. CASE Dropped(r)
    BY <2>2 DEF Dropped, Next, Step
  <2>3. CASE UNCHANGED vars
    BY <2>3
  <2> QED
    BY <1>1, <2>1, <2>2, <2>3
    DEF ChangeStep, MarshalFails, InsertAuditEntry, InsertChangeJournal, InsertFails,
        Commit
<1>2. CASE \E r \in Requests : Refuse(r) \/ Arrive(r)
  BY <1>2 DEF Next
<1>3. CASE Crashed
  BY <1>3 DEF Crashed, Next
<1>4. CASE Tick \/ Heal
  BY <1>4 DEF Next
<1>5. CASE UNCHANGED allVars
  BY <1>5 DEF allVars
<1> QED
  BY <1>1, <1>2, <1>3, <1>4, <1>5 DEF ChangeNext

\* At first nothing is written.
LEMMA InitChangeInv == ChangeInit => ChangeInv
<1> SUFFICES ASSUME ChangeInit PROVE ChangeInv
  OBVIOUS
<1>1. IInv
  BY InitIInv DEF ChangeInit
<1>2. ChangeTypeOK
  BY Zenon DEF ChangeInit, ChangeTypeOK
<1>3. NothingUnclaimed /\ WrittenSoFar
  BY DEF ChangeInit, Init, NothingUnclaimed, WrittenSoFar, Running
<1>4. OneChangePerKey /\ StoredAnswerIsTrue
  BY DEF ChangeInit, Init, NoRow, OneChangePerKey, StoredAnswerIsTrue
<1> QED
  BY <1>1, <1>2, <1>3, <1>4 DEF ChangeInv

\* A request that runs is the only one, and the row is its own pending row.
LEMMA RunsAlone ==
    ASSUME IInv, NEW r \in Requests, Running(r)
    PROVE  row.state = "pending" /\ \A x \in Requests : Running(x) => x = r
  BY DEF IInv, RunningOwnsRow

\* The handler of r is the only one that writes, so a step of it preserves the
\* invariant when it keeps r's own account straight.
LEMMA HandlerInv ==
    ASSUME Timely, ChangeInv, NEW r \in Requests, pc[r] = "handler",
           UNCHANGED <<vars, dbtx, stored>>, ChangeTypeOK',
           \A x \in Requests : x # r => step'[x] = step[x],
           OneChangePerKey',
           step'[r] # "start",
           step'[r] = "audited" => audit' = inserted /\ journal' = 0,
           step'[r] = "written" => dbtx = "tx" /\ audit' = 0 /\ journal' = 0,
           step'[r] = "respond" =>
              /\ status'[r] = "ok" => journal' = 1
              /\ status'[r] = "failed" /\ ~unknown' => journal' = 0
    PROVE  ChangeInv'
<1>1. IInv'
  BY NextIInv DEF ChangeInv
<1>2. Running(r) /\ UNCHANGED <<row, pc>>
  BY DEF Running, vars
<1>3. row.state = "pending" /\ \A x \in Requests : Running(x) => x = r
  BY <1>2, RunsAlone DEF ChangeInv
<1>4. NothingUnclaimed'
  BY <1>2, <1>3 DEF ChangeInv, NothingUnclaimed, Running
<1>5. WrittenSoFar'
  BY <1>2, <1>3 DEF WrittenSoFar, Running, inserted
<1>6. StoredAnswerIsTrue'
  BY <1>2, <1>3 DEF StoredAnswerIsTrue
<1> QED
  BY <1>1, <1>4, <1>5, <1>6 DEF ChangeInv

\* What the handler of r has written when it is about to take its next step.
LEMMA HandlerAccount ==
    ASSUME ChangeInv, NEW r \in Requests, pc[r] = "handler"
    PROVE  /\ step[r] = "start" => audit = 0 /\ journal = 0
           /\ step[r] = "audited" => audit = inserted /\ journal = 0
           /\ step[r] = "written" => dbtx = "tx" /\ audit = 0 /\ journal = 0
  BY DEF ChangeInv, WrittenSoFar, Running

\* A request whose payload cannot be marshalled has written nothing.
LEMMA MarshalFailsInv ==
    ASSUME Timely, ChangeInv, NEW r \in Requests, MarshalFails(r)
    PROVE  ChangeInv'
<1>1. /\ UNCHANGED <<vars, dbtx, stored, audit, journal, unknown>>
      /\ pc[r] = "handler" /\ step[r] = "start"
  BY DEF MarshalFails, written
<1>2. ChangeTypeOK' /\ step'[r] = "respond" /\ \A x \in Requests : x # r => step'[x] = step[x]
  BY DEF ChangeInv, ChangeTypeOK, MarshalFails, written, Respond, Advance
<1>3. OneChangePerKey'
  BY <1>1 DEF ChangeInv, OneChangePerKey
<1> QED
  BY <1>1, <1>2, <1>3, HandlerAccount, HandlerInv
  DEF MarshalFails, Respond, ChangeInv, ChangeTypeOK

\* The audit entry is written first, at once or with the transaction.
LEMMA InsertAuditEntryInv ==
    ASSUME Timely, ChangeInv, NEW r \in Requests, InsertAuditEntry(r)
    PROVE  ChangeInv'
<1>1. /\ UNCHANGED <<vars, dbtx, stored, journal, status, unknown>>
      /\ pc[r] = "handler" /\ step[r] = "start" /\ audit' = audit + inserted
  BY DEF InsertAuditEntry
<1>2. audit = 0 /\ journal = 0
  BY <1>1, HandlerAccount
<1>3. ChangeTypeOK' /\ step'[r] = "audited" /\ \A x \in Requests : x # r => step'[x] = step[x]
  BY DEF ChangeInv, ChangeTypeOK, InsertAuditEntry, Advance, inserted
<1>4. OneChangePerKey'
  BY <1>1, <1>2 DEF OneChangePerKey, inserted
<1> QED
  BY <1>1, <1>2, <1>3, <1>4, HandlerInv DEF inserted

\* The journal row follows its audit entry.
LEMMA InsertChangeJournalInv ==
    ASSUME Timely, ChangeInv, NEW r \in Requests, InsertChangeJournal(r)
    PROVE  ChangeInv'
<1>1. /\ UNCHANGED <<vars, dbtx, stored, audit, unknown>>
      /\ pc[r] = "handler" /\ step[r] = "audited" /\ journal' = journal + inserted
  BY DEF InsertChangeJournal
<1>2. audit = inserted /\ journal = 0
  BY <1>1, HandlerAccount
<1>3. /\ ChangeTypeOK'
      /\ \A x \in Requests : x # r => step'[x] = step[x]
      /\ IF dbtx = "db" THEN step'[r] = "respond" /\ status'[r] = "ok"
                        ELSE step'[r] = "written"
  BY DEF ChangeInv, ChangeTypeOK, InsertChangeJournal, Respond, Advance, inserted
<1>4. OneChangePerKey'
  BY <1>1, <1>2 DEF OneChangePerKey, inserted
<1>5. dbtx \in {"tx", "db"}
  BY DEF ChangeInv, ChangeTypeOK
<1> QED
  BY <1>1, <1>2, <1>3, <1>4, <1>5, HandlerInv DEF inserted

\* A failed insert may have been applied only on a bare connection, and then
\* the answer is known to be uncertain.
LEMMA InsertFailsInv ==
    ASSUME Timely, ChangeInv, NEW r \in Requests, NEW applied \in BOOLEAN,
           InsertFails(r, applied)
    PROVE  ChangeInv'
<1>1. /\ UNCHANGED <<vars, dbtx, stored>>
      /\ pc[r] = "handler" /\ step[r] \in {"start", "audited"}
      /\ applied => dbtx = "db"
      /\ audit' = IF applied /\ step[r] = "start" THEN audit + 1 ELSE audit
      /\ journal' = IF applied /\ step[r] = "audited" THEN journal + 1 ELSE journal
  BY DEF InsertFails
<1>2. /\ journal = 0 /\ audit \in {0, 1}
      /\ step[r] = "start" => audit = 0
      /\ step[r] = "audited" => audit = inserted
  BY <1>1, HandlerAccount DEF inserted
<1>3. unknown' \in BOOLEAN /\ (applied => unknown')
  BY DEF InsertFails
<1>4. /\ step' \in [Requests -> {"start", "audited", "written", "respond"}]
      /\ status' \in [Requests -> {"none", "ok", "failed"}]
      /\ step'[r] = "respond" /\ status'[r] = "failed"
      /\ \A x \in Requests : x # r => step'[x] = step[x]
  BY DEF ChangeInv, ChangeTypeOK, InsertFails, Respond, Advance
<1>5. ChangeTypeOK'
  BY <1>1, <1>2, <1>3, <1>4 DEF ChangeInv, ChangeTypeOK
<1>6. OneChangePerKey'
  BY <1>1, <1>2 DEF ChangeInv, OneChangePerKey, inserted
<1>7. ~unknown' => journal' = 0
  BY <1>1, <1>2, <1>3
<1> QED
  BY <1>1, <1>4, <1>5, <1>6, <1>7, HandlerInv
\* The commit writes both rows or none; the answer is uncertain only if it was
\* applied and reported failed.
LEMMA CommitInv ==
    ASSUME Timely, ChangeInv, NEW r \in Requests, NEW ok \in BOOLEAN,
           NEW applied \in BOOLEAN, Commit(r, ok, applied)
    PROVE  ChangeInv'
<1>1. /\ UNCHANGED <<vars, dbtx, stored>>
      /\ pc[r] = "handler" /\ step[r] = "written"
      /\ ok => applied
      /\ audit' = (IF applied THEN audit + 1 ELSE audit)
      /\ journal' = (IF applied THEN journal + 1 ELSE journal)
  BY DEF Commit
<1>2. dbtx = "tx" /\ audit = 0 /\ journal = 0
  BY <1>1, HandlerAccount
<1>3. unknown' \in BOOLEAN /\ (applied /\ ~ok => unknown')
  BY DEF Commit
<1>4. /\ step' \in [Requests -> {"start", "audited", "written", "respond"}]
      /\ status' \in [Requests -> {"none", "ok", "failed"}]
      /\ step'[r] = "respond" /\ status'[r] = (IF ok THEN "ok" ELSE "failed")
      /\ \A x \in Requests : x # r => step'[x] = step[x]
  BY DEF ChangeInv, ChangeTypeOK, Commit, Respond, Advance
<1>5. ChangeTypeOK'
  BY <1>1, <1>2, <1>3, <1>4 DEF ChangeInv, ChangeTypeOK
<1>6. OneChangePerKey'
  BY <1>1, <1>2 DEF OneChangePerKey
<1>7. /\ status'[r] = "ok" => journal' = 1
      /\ status'[r] = "failed" /\ ~unknown' => journal' = 0
  BY <1>1, <1>2, <1>3, <1>4
<1> QED
  BY <1>1, <1>4, <1>5, <1>6, <1>7, HandlerInv

\* The middleware's own steps preserve the invariant where the account of the
\* key is unchanged, whoever runs afterwards ran before, and the row is
\* neither freed nor completed.
LEMMA MiddlewareInv ==
    ASSUME ChangeInv, IInv', UNCHANGED changeVars,
           row'.state = "none" => row.state = "none",
           row'.state = "done" => row.state = "done",
           \A x \in Requests : Running(x)' <=> Running(x),
           \A x \in Requests : pc'[x] = "complete" => pc[x] = "complete" \/ step[x] = "respond"
    PROVE  ChangeInv'
<1>1. UNCHANGED <<dbtx, step, status, audit, journal, stored, unknown>>
  BY DEF changeVars, written
<1>2. ChangeTypeOK' /\ OneChangePerKey' /\ StoredAnswerIsTrue'
  BY <1>1, SMTT(20) DEF ChangeInv, ChangeTypeOK, OneChangePerKey, StoredAnswerIsTrue
<1>3. NothingUnclaimed'
  BY <1>1 DEF ChangeInv, NothingUnclaimed
<1>4. WrittenSoFar'
  BY <1>1 DEF ChangeInv, WrittenSoFar, inserted
<1> QED
  BY <1>2, <1>3, <1>4 DEF ChangeInv

\* Requests that come, are refused, are answered or wait do not touch the
\* account; an inserted row starts with nothing written under it.
LEMMA ElsewhereInv ==
    ASSUME Timely, ChangeInv, NEW r \in Requests,
           Elsewhere(r) \/ ((Refuse(r) \/ Arrive(r)) /\ UNCHANGED changeVars)
    PROVE  ChangeInv'
<1>1. UNCHANGED changeVars
  BY DEF Elsewhere
<1>2. IInv'
  BY ChangeStepIsStep, NextIInv DEF ChangeInv, ChangeNext, ChangeStep
<1>3. pc \in [Requests -> {"out", "cleanup", "begin", "insert", "handler", "complete"}]
  BY DEF ChangeInv, IInv, TypeOK
<1>4. CASE Insert(r)
  <2>1. row.state = "none" /\ row'.state = "pending" /\ pc[r] = "insert"
    BY <1>4 DEF Insert, NewRow
  <2>2. \A x \in Requests : ~Running(x)
    BY <2>1 DEF ChangeInv, IInv, RunningOwnsRow
  <2>3. pc'[r] = "handler" /\ \A x \in Requests : x # r => pc'[x] = pc[x]
    BY <1>3, <1>4 DEF Insert, Goto
  <2>4. /\ UNCHANGED <<dbtx, step, status, audit, journal, stored, unknown>>
        /\ audit = 0 /\ journal = 0 /\ \A x \in Requests : step[x] = "start"
    BY <1>1, <2>1, <2>2 DEF changeVars, written, ChangeInv, NothingUnclaimed
  <2>5. ChangeTypeOK' /\ OneChangePerKey' /\ StoredAnswerIsTrue'
    BY <2>1, <2>4 DEF ChangeInv, ChangeTypeOK, OneChangePerKey, StoredAnswerIsTrue
  <2>6. NothingUnclaimed' /\ WrittenSoFar'
    BY <2>1, <2>2, <2>3, <2>4 DEF NothingUnclaimed, WrittenSoFar, Running
  <2> QED
    BY <1>2, <2>5, <2>6 DEF ChangeInv
<1>5. CASE ~Insert(r)
  <2>1. /\ row' = row \/ (row.state = "none" /\ row'.state = "pending")
        /\ \/ \E label \in {"cleanup", "begin", "insert"} : Goto(r, label)
           \/ Goto(r, "out")
        /\ ~Running(r)
    <3>1. row.state \in {"none", "pending", "done"}
      BY DEF ChangeInv, IInv, TypeOK
    <3>2. CASE BeginFound(r)
      BY <3>1, <3>2, Zenon DEF BeginFound, Finish, Running
    <3>3. CASE Refuse(r) \/ Arrive(r) \/ CleanupFails(r) \/ BeginAbsent(r) \/ InsertLoses(r)
      BY <3>3 DEF Refuse, Arrive, CleanupFails, BeginAbsent, InsertLoses, Finish, Running
    <3>4. ASSUME NEW committed \in BOOLEAN, BeginFails(r, committed)
          PROVE  /\ row' = row \/ (row.state = "none" /\ row'.state = "pending")
                 /\ Goto(r, "out") /\ ~Running(r)
      BY <3>4 DEF BeginFails, NewRow, Finish, Running
    <3> QED
      BY <1>5, <3>2, <3>3, <3>4 DEF Elsewhere
  <2>2. \A x \in Requests : Running(x)' <=> Running(x)
    BY <1>3, <2>1 DEF Goto, Running
  <2>3. \A x \in Requests : pc'[x] = "complete" => pc[x] = "complete"
    BY <1>3, <2>1 DEF Goto
  <2> QED
    BY <1>1, <1>2, <2>1, <2>2, <2>3, MiddlewareInv
<1> QED
  BY <1>4, <1>5

\* The account ends with the key's row, which nobody is running for.
LEMMA CleanedInv ==
    ASSUME Timely, ChangeInv, NEW r \in Requests, Cleaned(r)
    PROVE  ChangeInv'
<1>1. IInv'
  BY ChangeStepIsStep, NextIInv DEF ChangeInv, ChangeNext, ChangeStep
<1>2. /\ pc[r] = "cleanup" /\ Goto(r, "begin") /\ row' \in {NoRow, row}
      /\ UNCHANGED <<dbtx, step, status>>
  BY DEF Cleaned, Cleanup
<1>3. \A x \in Requests : /\ Running(x)' <=> Running(x)
                          /\ pc'[x] = "complete" => pc[x] = "complete"
  BY <1>2 DEF ChangeInv, IInv, TypeOK, Goto, Running
<1>4. CASE row'.state = "none"
  <2>1. audit' = 0 /\ journal' = 0 /\ stored' = "none" /\ unknown' = FALSE
    BY <1>4 DEF Cleaned
  <2>2. \A x \in Requests : ~Running(x)'
    BY <1>1, <1>4 DEF IInv, RunningOwnsRow
  <2>3. ChangeTypeOK'
    BY <1>2, <2>1, Zenon DEF ChangeInv, ChangeTypeOK
  <2>5. OneChangePerKey' /\ StoredAnswerIsTrue'
    BY <1>4, <2>1 DEF OneChangePerKey, StoredAnswerIsTrue
  <2>4. NothingUnclaimed' /\ WrittenSoFar'
    BY <1>2, <1>3, <2>1, <2>2 DEF ChangeInv, NothingUnclaimed, WrittenSoFar, Running
  <2> QED
    BY <1>1, <2>3, <2>4, <2>5 DEF ChangeInv
<1>5. CASE row'.state # "none"
  <2>1. UNCHANGED changeVars /\ row' = row
    BY <1>2, <1>5, SMTT(20) DEF Cleaned, changeVars, NoRow
  <2> QED
    BY <1>1, <1>3, <1>5, <2>1, MiddlewareInv
<1> QED
  BY <1>4, <1>5
\* The handler returns with its answer decided.
LEMMA ReturnInv ==
    ASSUME Timely, ChangeInv, NEW r \in Requests, Return(r)
    PROVE  ChangeInv'
<1>1. IInv'
  BY ChangeStepIsStep, NextIInv DEF ChangeInv, ChangeNext, ChangeStep
<1>2. /\ UNCHANGED changeVars /\ row' = row /\ step[r] = "respond"
      /\ pc[r] = "handler" /\ Goto(r, "complete")
  BY DEF Return, Handle
<1>3. \A x \in Requests : /\ Running(x)' <=> Running(x)
                          /\ pc'[x] = "complete" => pc[x] = "complete" \/ x = r
  BY <1>2 DEF ChangeInv, IInv, TypeOK, Goto, Running
<1> QED
  BY <1>1, <1>2, <1>3, MiddlewareInv

\* A request that leaves the handler has no change in hand.
LEMMA LeftType ==
    ASSUME ChangeTypeOK, NEW r \in Requests, Left(r)
    PROVE  /\ step' \in [Requests -> {"start", "audited", "written", "respond"}]
           /\ status' \in [Requests -> {"none", "ok", "failed"}]
           /\ step'[r] = "start"
           /\ \A x \in Requests : x # r => step'[x] = step[x] /\ status'[x] = status[x]
  BY DEF ChangeTypeOK, Left, Advance

\* The answer stored is the one its handler gave for what it wrote.
LEMMA CompletedInv ==
    ASSUME Timely, ChangeInv, NEW r \in Requests, Completed(r)
    PROVE  ChangeInv'
<1>1. IInv'
  BY ChangeStepIsStep, NextIInv DEF ChangeInv, ChangeNext, ChangeStep
<1>2. Running(r) /\ pc[r] = "complete" /\ step[r] = "respond"
  BY DEF Completed, Complete, Running, ChangeInv, NothingUnclaimed
<1>3. row.state = "pending" /\ \A x \in Requests : Running(x) => x = r
  BY <1>2, RunsAlone DEF ChangeInv
<1>4. /\ row'.state = "done" /\ stored' = status[r]
      /\ UNCHANGED <<dbtx, audit, journal, unknown>>
  BY <1>3 DEF Completed, Complete
<1>5. pc'[r] = "out" /\ \A x \in Requests : x # r => pc'[x] = pc[x]
  BY DEF Completed, Complete, Finish, Goto, ChangeInv, IInv, TypeOK
<1>6. \A x \in Requests : ~Running(x)'
  BY <1>3, <1>5 DEF Running
<1>7. ChangeTypeOK'
  BY <1>4, LeftType DEF Completed, ChangeInv, ChangeTypeOK
<1>8. OneChangePerKey'
  BY <1>4 DEF ChangeInv, OneChangePerKey
<1>9. StoredAnswerIsTrue'
  BY <1>2, <1>4, SMTT(20) DEF ChangeInv, WrittenSoFar, StoredAnswerIsTrue
<1>10. NothingUnclaimed'
  BY <1>3, <1>4, <1>5, <1>6, LeftType
  DEF Completed, ChangeInv, NothingUnclaimed, Running
<1>11. WrittenSoFar'
  BY <1>6 DEF WrittenSoFar
<1> QED
  BY <1>1, <1>7, <1>8, <1>9, <1>10, <1>11 DEF ChangeInv

\* A request that is lost leaves the row pending, with what it wrote.
LEMMA DroppedInv ==
    ASSUME Timely, ChangeInv, NEW r \in Requests, Dropped(r)
    PROVE  ChangeInv'
<1>1. IInv'
  BY ChangeStepIsStep, NextIInv DEF ChangeInv, ChangeNext, ChangeStep
<1>2. Running(r) /\ row' = row /\ Finish(r, answer'[r], source'[r])
  BY DEF Dropped, CompleteFails, Abort, Running, Finish, Goto, ChangeInv, IInv, TypeOK
<1>3. row.state = "pending" /\ \A x \in Requests : Running(x) => x = r
  BY <1>2, RunsAlone DEF ChangeInv
<1>4. pc'[r] = "out" /\ \A x \in Requests : x # r => pc'[x] = pc[x]
  BY <1>2 DEF Finish, Goto, ChangeInv, IInv, TypeOK
<1>5. \A x \in Requests : ~Running(x)'
  BY <1>3, <1>4 DEF Running
<1>6. UNCHANGED <<dbtx, audit, journal, stored, unknown>> /\ Left(r)
  BY DEF Dropped, written
<1>7. ChangeTypeOK' /\ OneChangePerKey'
  BY <1>6, LeftType DEF ChangeInv, ChangeTypeOK, OneChangePerKey
<1>8. StoredAnswerIsTrue' /\ WrittenSoFar'
  BY <1>2, <1>3, <1>5, SMTT(20) DEF StoredAnswerIsTrue, WrittenSoFar
<1>9. NothingUnclaimed'
  BY <1>2, <1>3, <1>4, <1>5, <1>6, LeftType DEF ChangeInv, NothingUnclaimed, Running
<1> QED
  BY <1>1, <1>7, <1>8, <1>9 DEF ChangeInv

\* A crash rolls transactions back and leaves the rest as it is.
LEMMA CrashedInv ==
    ASSUME Timely, ChangeInv, Crashed
    PROVE  ChangeInv'
<1>1. IInv'
  BY ChangeStepIsStep, NextIInv DEF ChangeInv, ChangeNext
<1>2. /\ row' = row /\ pc' = [x \in Requests |-> "out"]
      /\ UNCHANGED <<dbtx, audit, journal, stored, unknown>>
      /\ step' = [x \in Requests |-> "start"]
      /\ status' = [x \in Requests |-> "none"]
  BY DEF Crashed, Crash, written
<1>3. ChangeTypeOK' /\ OneChangePerKey'
  BY <1>2, SMTT(20) DEF ChangeInv, ChangeTypeOK, OneChangePerKey
<1>4. NothingUnclaimed' /\ WrittenSoFar' /\ StoredAnswerIsTrue'
  BY <1>2 DEF ChangeInv, NothingUnclaimed, WrittenSoFar, StoredAnswerIsTrue, Running
<1> QED
  BY <1>1, <1>3, <1>4 DEF ChangeInv
\* Every step of the handlers, the middleware and their environment preserves
\* the invariant of the change.
LEMMA NextChangeInv ==
    ASSUME Timely, ChangeInv, [ChangeNext]_allVars
    PROVE  ChangeInv'
<1>1. ASSUME NEW r \in Requests, ChangeStep(r) PROVE ChangeInv'
  BY <1>1, ElsewhereInv, CleanedInv, MarshalFailsInv, InsertAuditEntryInv,
     InsertChangeJournalInv, InsertFailsInv, CommitInv, ReturnInv, CompletedInv,
     DroppedInv DEF ChangeStep
<1>2. ASSUME NEW r \in Requests, (Refuse(r) \/ Arrive(r)) /\ UNCHANGED changeVars
      PROVE  ChangeInv'
  BY <1>2, ElsewhereInv
<1>3. CASE Crashed
  BY <1>3, CrashedInv
<1>4. CASE ((Tick \/ Heal) /\ UNCHANGED changeVars) \/ UNCHANGED allVars
  <2>1. IInv'
    BY ChangeStepIsStep, NextIInv DEF ChangeInv
  <2>2. UNCHANGED changeVars /\ pc' = pc
    BY <1>4 DEF Tick, Heal, allVars, vars
  <2>3. row'.state = row.state
    BY <1>4 DEF Tick, Heal, allVars, vars, ChangeInv, IInv, TypeOK
  <2> QED
    BY <2>1, <2>2, <2>3, MiddlewareInv DEF Running
<1> QED
  BY <1>1, <1>2, <1>3, <1>4 DEF ChangeNext

\* The invariant of the change holds throughout.
LEMMA ChangeInvariance ==
    ASSUME Timely
    PROVE  ChangeSpec => []ChangeInv
<1>1. ChangeInit => ChangeInv
  BY InitChangeInv
<1>2. ChangeInv /\ [ChangeNext]_allVars => ChangeInv'
  BY NextChangeInv
<1> QED
  BY <1>1, <1>2, PTL DEF ChangeSpec

\* The handlers that journal their changes leave the middleware's behaviour
\* alone: a run with them is a run of the middleware, so what is proved of the
\* middleware holds with them too.
THEOREM HandlersRefineMiddleware == ChangeSpec => Spec
<1>1. ChangeInit => Init
  BY DEF ChangeInit
<1>2. [ChangeNext]_allVars => [Next]_vars
  BY ChangeStepIsStep
<1> QED
  BY <1>1, <1>2, PTL DEF ChangeSpec, Spec

\* WriteMutation writes at most one change and one audit entry for a key,
\* whatever fails and whoever retries; in a transaction neither without the
\* other.
THEOREM ChangeWrittenOnce ==
    ASSUME Timely
    PROVE  ChangeSpec => []OneChangePerKey
<1>1. ChangeInv => OneChangePerKey
  BY DEF ChangeInv
<1> QED
  BY <1>1, ChangeInvariance, PTL

\* The answer stored for a key tells truly whether the change was written, but
\* for a statement or commit that was applied without anybody knowing.
THEOREM ReplayTellsTheTruth ==
    ASSUME Timely
    PROVE  ChangeSpec => []StoredAnswerIsTrue
<1>1. ChangeInv => StoredAnswerIsTrue
  BY DEF ChangeInv
<1> QED
  BY <1>1, ChangeInvariance, PTL
===============================================================================
