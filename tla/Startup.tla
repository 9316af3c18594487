------------------------------ MODULE Startup ------------------------------
(***************************************************************************)
(* The life of the server process (cmd/server/main.go): it connects to the *)
(* database with retries, brings the schema up to date and serves.  When a *)
(* step fails it exits and docker-compose starts it again.                 *)
(*                                                                         *)
(* golang-migrate stores in schema_migrations the version it is about to   *)
(* reach and a dirty flag, runs the migration's SQL, and clears the flag:  *)
(* three statements, each committed by itself.  It refuses to run on a     *)
(* dirty schema.  Only an operator who drops the schema helps then         *)
(* (make migrate-down).                                                    *)
(***************************************************************************)
EXTENDS Integers

CONSTANTS
  MaxRetries,  \* attempts of connectWithRetry
  Last,        \* the migrations are 1..Last
  MaxFaults,   \* bound on crashes, outages and failing migrations
  MaxResets    \* bound on the operator's resets

ASSUME StartupAssumption ==
  /\ MaxRetries \in Nat \ {0} /\ Last \in Nat \ {0}
  /\ MaxFaults \in Nat /\ MaxResets \in Nat

VARIABLES
  db,        \* PostgreSQL: "up" or "down"
  server,    \* where main is, or "exited"
  attempts,  \* failed attempts of connectWithRetry
  version, dirty,  \* schema_migrations
  schema,    \* the migrations whose SQL is in effect
  faults, resets   \* how often the environment has interfered

migrations == <<version, dirty, schema>>
bootVars == <<db, server, attempts, version, dirty, schema, faults, resets>>

BootInit ==
  /\ db \in {"up", "down"} /\ server = "exited" /\ attempts = 0
  /\ version = 0 /\ dirty = FALSE /\ schema = {}
  /\ faults = 0 /\ resets = 0

-----------------------------------------------------------------------------
(* main. *)

\* docker-compose: restart: unless-stopped.
Boot ==
  /\ server = "exited"
  /\ server' = "connecting" /\ attempts' = 0
  /\ UNCHANGED <<db, migrations, faults, resets>>

\* connectWithRetry returns: its counter is gone.
Connect ==
  /\ server = "connecting" /\ db = "up"
  /\ server' = "migrating" /\ attempts' = 0
  /\ UNCHANGED <<db, migrations, faults, resets>>

\* Mutant: the loop ends one attempt late.
OneMoreAttempt(n) == n > MaxRetries

OutOfAttempts(n) == n = MaxRetries

\* After the last attempt main calls log.Fatalf.
ConnectFails ==
  /\ server = "connecting" /\ db = "down"
  /\ attempts' = attempts + 1
  /\ server' = IF OutOfAttempts(attempts + 1) THEN "exited" ELSE "connecting"
  /\ UNCHANGED <<db, migrations, faults, resets>>

\* Mutant: ErrNoChange is an error like any other.
UpToDateFatal == "exited"

\* ErrNoChange is not an error.
UpToDate == "serving"

\* m.Up begins with the version and the flag.
ReadVersion ==
  /\ server = "migrating" /\ db = "up" /\ ~dirty
  /\ server' = IF version = Last THEN UpToDate ELSE "mark"
  /\ UNCHANGED <<db, attempts, migrations, faults, resets>>

\* Mutant: a failing migration is logged and the server goes on.
LogAndServe == "serving"

\* log.Fatalf
Fatal == "exited"

RefuseDirty ==
  /\ server = "migrating" /\ db = "up" /\ dirty
  /\ server' = Fatal
  /\ UNCHANGED <<db, attempts, migrations, faults, resets>>

\* SetVersion(v, true)
MarkDirty ==
  /\ server = "mark" /\ db = "up"
  /\ version' = version + 1 /\ dirty' = TRUE
  /\ server' = "run"
  /\ UNCHANGED <<db, attempts, schema, faults, resets>>

\* The SQL of one migration is one query: all of it takes effect or nothing.
RunMigration ==
  /\ server = "run" /\ db = "up"
  /\ schema' = schema \cup {version}
  /\ server' = "clear"
  /\ UNCHANGED <<db, attempts, version, dirty, faults, resets>>

\* The SQL is refused.
MigrationFails ==
  /\ server = "run" /\ db = "up" /\ faults < MaxFaults
  /\ faults' = faults + 1
  /\ server' = Fatal
  /\ UNCHANGED <<db, attempts, migrations, resets>>

\* SetVersion(v, false), and on to the next migration.
ClearDirty ==
  /\ server = "clear" /\ db = "up"
  /\ dirty' = FALSE
  /\ server' = IF version = Last THEN "serving" ELSE "mark"
  /\ UNCHANGED <<db, attempts, version, schema, faults, resets>>

\* A statement of runMigrations finds the database gone.
MigrateFails ==
  /\ server \in {"migrating", "mark", "run", "clear"} /\ db = "down"
  /\ server' = Fatal
  /\ UNCHANGED <<db, attempts, migrations, faults, resets>>

\* main, but for the step that runs a migration's SQL.
StartStep ==
  \/ Boot \/ Connect \/ ConnectFails
  \/ ReadVersion \/ RefuseDirty \/ MarkDirty \/ ClearDirty \/ MigrateFails

-----------------------------------------------------------------------------
(* The environment. *)

DbUp ==
  /\ db = "down" /\ db' = "up"
  /\ UNCHANGED <<server, attempts, migrations, faults, resets>>

\* A server that is serving goes on when the database is gone.
DbDown ==
  /\ db = "up" /\ db' = "down"
  /\ faults < MaxFaults /\ faults' = faults + 1
  /\ UNCHANGED <<server, attempts, migrations, resets>>

ServerCrash ==
  /\ server # "exited" /\ server' = "exited"
  /\ faults < MaxFaults /\ faults' = faults + 1
  /\ UNCHANGED <<db, attempts, migrations, resets>>

\* make migrate-down, while no migration runs: DROP SCHEMA takes
\* schema_migrations with it.
Reset ==
  /\ db = "up" /\ server \in {"exited", "connecting", "migrating", "serving"}
  /\ resets < MaxResets /\ resets' = resets + 1
  /\ version' = 0 /\ dirty' = FALSE /\ schema' = {}
  /\ UNCHANGED <<db, server, attempts, faults>>

-----------------------------------------------------------------------------
(* Properties. *)

BootTypeOK ==
  /\ db \in {"up", "down"}
  /\ server \in {"exited", "connecting", "migrating", "mark", "run", "clear", "serving"}
  /\ attempts \in 0..MaxRetries
  /\ version \in 0..Last /\ dirty \in BOOLEAN /\ schema \subseteq 1..Last
  /\ faults \in 0..MaxFaults /\ resets \in 0..MaxResets

\* The server begins to serve on a complete schema only, wherever earlier starts
\* have died.  (A reset can still take the tables from a server that serves.)
ServesCompleteSchema ==
  [][server # "serving" /\ server' = "serving" => schema' = 1..Last /\ ~dirty']_bootVars

\* When the database stays up the server ends up serving, unless a migration was
\* cut short and waits for the operator.
ComesUp == <>[](db = "up") => <>[](server = "serving" \/ dirty)
=============================================================================
