------------------------------- MODULE Database --------------------------------
(***************************************************************************)
(* postgres.Open, OpenAndInit and OpenAndMigrate (postgres/open.go) around *)
(* startup.Do (startup/retry.go) and migrate.Run (migrate/migrate.go): who *)
(* may still use the database handle, and who has closed it.  Each attempt *)
(* pings, migrates and calls init with the one handle of the whole call.   *)
(***************************************************************************)
EXTENDS Integers

CONSTANTS MaxAttempts,      \* startup.Config.MaxAttempts
          Migrations        \* migrations in the source

VARIABLES
    migrating,  \* OpenAndMigrate or OpenAndMigrateIOFS, not OpenAndInit
    command,    \* Options.Command
    pc,         \* the next step of the call
    db,         \* the handle: "none", "open" or "closed"
    attempt,    \* the attempt of startup.Do
    version,    \* the schema version in the database
    result      \* "none", "db" or "error"

vars == <<migrating, command, pc, db, attempt, version, result>>
options == <<migrating, command>>

\* ParseCommand accepts these; any other value fails before the driver opens.
Commands == {"up", "down", "version"}

Init ==
    /\ migrating \in BOOLEAN /\ command \in Commands
    /\ pc = "open" /\ db = "none" /\ attempt = 1
    /\ version \in 0..Migrations /\ result = "none"

Return(r) == result' = r /\ pc' = "done"

\* sql.Open only checks its arguments.
Open ==
    /\ pc = "open"
    /\ \/ db' = "open" /\ pc' = "ping" /\ UNCHANGED result
       \/ Return("error") /\ UNCHANGED db
    /\ UNCHANGED <<options, attempt, version>>

\* startup.Do after an attempt failed: OpenAndInit closes the handle at the end.
failed(handle) ==
    IF attempt = MaxAttempts
    THEN Return("error") /\ db' = "closed"
    ELSE pc' = "delay" /\ db' = handle /\ UNCHANGED result

\* The delay between attempts passes, or the context ends it.
Delay ==
    /\ pc = "delay"
    /\ \/ attempt' = attempt + 1 /\ pc' = "ping" /\ UNCHANGED <<db, result>>
       \/ Return("error") /\ db' = "closed" /\ UNCHANGED attempt
    /\ UNCHANGED <<options, version>>

\* A closed handle answers no ping.
Ping ==
    /\ pc = "ping"
    /\ \/ /\ db = "open"
          /\ pc' = IF migrating THEN "migrate" ELSE "init"
          /\ UNCHANGED <<db, result>>
       \/ failed(db)
    /\ UNCHANGED <<options, attempt, version>>

\* migrate.Run fails before the driver is opened, which leaves the handle alone.
Refused ==
    /\ pc = "migrate"
    /\ failed(db)
    /\ UNCHANGED <<options, attempt, version>>

\* The version a command leaves if it returns nil or ErrNoChange; there is
\* nothing to roll back at version 0, which is an error.
execute(v) ==
    CASE command = "up" -> Migrations
      [] command = "down" -> v - 1
      [] OTHER -> v

\* postgres.Postgres.Close, of the vendored driver, closes its connection and
\* the handle it was built from.  Every return of run after buildRunner, and
\* every failure in buildRunner after WithInstance, goes through it.
closed == "closed"

Migrate ==
    /\ pc = "migrate"
    /\ \/ /\ execute(version) \in 0..Migrations
          /\ version' = execute(version)
          /\ (db' = closed /\ pc' = "init" /\ UNCHANGED result) \/ failed(closed)
       \/ failed(closed) /\ UNCHANGED version
    /\ UNCHANGED <<options, attempt>>

\* The caller's init; it may be nil or never touch the database.
CallInit ==
    /\ pc = "init"
    /\ \/ Return("db") /\ UNCHANGED db
       \/ failed(db)
    /\ UNCHANGED <<options, attempt, version>>

Next == Open \/ Delay \/ Ping \/ Refused \/ Migrate \/ CallInit

Spec == Init /\ [][Next]_vars

\* "connects to Postgres, applies file-based migrations, and then calls init":
\* the handle that init is given, and that a successful call returns, is open.
HandleIsUsable == pc = "init" \/ result = "db" => db = "open"
================================================================================
