---------------------------- MODULE ChangeJournal -----------------------------
(***************************************************************************)
(* changejournal.WriteMutation (changejournal/changejournal.go), called by *)
(* the handlers behind the idempotency middleware (Idempotency.tla).  The  *)
(* handler of a request writes its change through the DBTX it is given, a  *)
(* transaction that it then commits or a bare *sql.DB, and answers; the    *)
(* middleware stores the answer in the row of the key.  What the handler   *)
(* does around WriteMutation is the caller's code (external).              *)
(***************************************************************************)
EXTENDS Idempotency

VARIABLES
    dbtx,       \* what handlers pass to WriteMutation: "tx" or "db"
    step,       \* step[r]: how far the handler of r is
    audit,      \* rows of audit_entries written under the present key
    journal,    \* rows of change_journal written under the present key
    status,     \* status[r]: what the handler of r answers
    stored,     \* response_code of the key's row
    unknown     \* history: a statement or a commit that failed was applied

written == <<audit, journal, stored, unknown>>
changeVars == <<dbtx, step, status, written>>
allVars == <<vars, changeVars>>

ChangeInit ==
    /\ Init
    /\ dbtx \in {"tx", "db"}
    /\ step = [r \in Requests |-> "start"]
    /\ status = [r \in Requests |-> "none"]
    /\ audit = 0 /\ journal = 0 /\ stored = "none" /\ unknown = FALSE

Advance(r, label) == step' = [step EXCEPT ![r] = label]

\* The handler is done with the change and answers.
Respond(r, code) ==
    /\ Advance(r, "respond")
    /\ status' = [status EXCEPT ![r] = code]

\* An insert outside of a transaction is there at once.
inserted == IF dbtx = "db" THEN 1 ELSE 0
-------------------------------------------------------------------------------
\* The metadata or the payload cannot be marshalled: nothing was written.
MarshalFails(r) ==
    /\ pc[r] = "handler" /\ step[r] = "start"
    /\ Respond(r, "failed")
    /\ UNCHANGED <<vars, dbtx, written>>

InsertAuditEntry(r) ==
    /\ pc[r] = "handler" /\ step[r] = "start"
    /\ audit' = audit + inserted
    /\ Advance(r, "audited")
    /\ UNCHANGED <<vars, dbtx, journal, status, stored, unknown>>

\* Mutant: the row is not written, and the sequence is zero.
InsertChangeJournal_Skipped(r) ==
    /\ pc[r] = "handler" /\ step[r] = "audited"
    /\ IF dbtx = "db" THEN Respond(r, "ok")
                      ELSE Advance(r, "written") /\ UNCHANGED status
    /\ UNCHANGED <<vars, dbtx, written>>

\* The row gets its sequence and WriteMutation returns.
InsertChangeJournal(r) ==
    /\ pc[r] = "handler" /\ step[r] = "audited"
    /\ journal' = journal + inserted
    /\ IF dbtx = "db" THEN Respond(r, "ok")
                      ELSE Advance(r, "written") /\ UNCHANGED status
    /\ UNCHANGED <<vars, dbtx, audit, stored, unknown>>

\* Mutant: WriteMutation goes on without the audit entry.
InsertFails_Continues(r, applied) ==
    /\ pc[r] = "handler" /\ step[r] = "start" /\ ~healthy
    /\ Advance(r, "audited")
    /\ UNCHANGED <<vars, dbtx, status, written>>

\* An insert fails and WriteMutation returns the error; the transaction is then
\* rolled back, and a bare connection may have lost only the confirmation.
InsertFails(r, applied) ==
    /\ pc[r] = "handler" /\ step[r] \in {"start", "audited"} /\ ~healthy
    /\ applied => dbtx = "db"
    /\ audit' = IF applied /\ step[r] = "start" THEN audit + 1 ELSE audit
    /\ journal' = IF applied /\ step[r] = "audited" THEN journal + 1 ELSE journal
    /\ unknown' = (unknown \/ applied)
    /\ Respond(r, "failed")
    /\ UNCHANGED <<vars, dbtx, stored>>

\* The handler commits, and may be told of a failure although it was applied.
Commit(r, ok, applied) ==
    /\ pc[r] = "handler" /\ step[r] = "written"
    /\ ok => applied
    /\ ~ok => ~healthy
    /\ IF applied THEN audit' = audit + 1 /\ journal' = journal + 1
                  ELSE UNCHANGED <<audit, journal>>
    /\ unknown' = (unknown \/ (applied /\ ~ok))
    /\ Respond(r, IF ok THEN "ok" ELSE "failed")
    /\ UNCHANGED <<vars, dbtx, stored>>
-------------------------------------------------------------------------------
(* The middleware around it.                                               *)

\* The handler returns what it answers.
Return(r) ==
    /\ step[r] = "respond"
    /\ Handle(r)
    /\ UNCHANGED changeVars

Left(r) ==
    /\ Advance(r, "start")
    /\ status' = [status EXCEPT ![r] = "none"]

\* The status code of the handler's answer is stored, whatever it is.
Completed(r) ==
    /\ Complete(r)
    /\ stored' = IF row.state = "none" THEN stored ELSE status[r]
    /\ Left(r)
    /\ UNCHANGED <<dbtx, audit, journal, unknown>>

\* The response is lost, or the handler panics: a transaction is rolled back.
Dropped(r) ==
    /\ CompleteFails(r) \/ Abort(r)
    /\ Left(r)
    /\ UNCHANGED <<dbtx, written>>

Crashed ==
    /\ Crash
    /\ step' = [r \in Requests |-> "start"]
    /\ status' = [r \in Requests |-> "none"]
    /\ UNCHANGED <<dbtx, written>>

\* With the key's row the account of what was written under it ends.
Cleaned(r) ==
    /\ Cleanup(r)
    /\ IF row'.state = "none"
       THEN audit' = 0 /\ journal' = 0 /\ stored' = "none" /\ unknown' = FALSE
       ELSE UNCHANGED written
    /\ UNCHANGED <<dbtx, step, status>>

\* Steps that do not touch the change.
Elsewhere(r) ==
    /\ \/ CleanupFails(r) \/ BeginFound(r) \/ BeginAbsent(r)
       \/ Insert(r) \/ InsertLoses(r)
       \/ \E committed \in BOOLEAN : BeginFails(r, committed)
    /\ UNCHANGED changeVars

ChangeStep(r) ==
    \/ Elsewhere(r) \/ Cleaned(r)
    \/ MarshalFails(r) \/ InsertAuditEntry(r) \/ InsertChangeJournal(r)
    \/ \E applied \in BOOLEAN : InsertFails(r, applied)
    \/ \E ok, applied \in BOOLEAN : Commit(r, ok, applied)
    \/ Return(r) \/ Completed(r) \/ Dropped(r)

ChangeNext ==
    \/ \E r \in Requests : (Refuse(r) \/ Arrive(r)) /\ UNCHANGED changeVars
    \/ \E r \in Requests : ChangeStep(r)
    \/ Crashed
    \/ (Tick \/ Heal) /\ UNCHANGED changeVars

\* Requests under way go on, time passes, and clients keep retrying.
ChangeSpec ==
    /\ ChangeInit /\ [][ChangeNext]_allVars
    /\ WF_allVars(Tick /\ UNCHANGED changeVars)
    /\ \A r \in Requests :
        /\ WF_allVars(ChangeStep(r))
        /\ WF_allVars(Arrive(r) /\ UNCHANGED changeVars)
-------------------------------------------------------------------------------
\* A change is written at most once for a key, whatever fails and whoever
\* retries, and never without its audit entry.  In a transaction there is never
\* one without the other; on a bare connection an audit entry may stay alone.
OneChangePerKey ==
    /\ audit <= 1 /\ journal <= audit
    /\ dbtx = "tx" => journal = audit

\* The answer that is replayed for a key tells what was written: a success, that
\* the change is in the journal; a failure, that it is not, but for a statement
\* or a commit that was applied without anybody knowing.
StoredAnswerIsTrue ==
    row.state = "done" =>
        /\ stored = "ok" => journal = 1
        /\ stored = "failed" /\ ~unknown => journal = 0
===============================================================================
