----------------------------- MODULE Migrations -----------------------------
(***************************************************************************)
(* The database of the service and what prepares it: docker/entrypoint.sh    *)
(* runs migrations/run_migrations.py until it succeeds or MaxAttempts have    *)
(* failed, and then starts the service all the same.  A run is a process of   *)
(* its own with three parts, each with transactions of its own: the schema,   *)
(* the default rows of config_entries, and the seed of the graph.  The        *)
(* database may go away and come back at any time, and an operator edits the  *)
(* rows.                                                                    *)
(*                                                                         *)
(* The vertices of AGE and the tables are created in one transaction, so the  *)
(* dimension of the column embedding_vectors.embedding stands for all of      *)
(* them.                                                                    *)
(***************************************************************************)
EXTENDS Naturals, Sequences, FiniteSets

CONSTANTS
  HasDatabase,   \* SDP_DATABASE_DSN is set
  Backends,      \* values the operator may want for graph_backend
  Dimensions,    \* values the operator may give to embedding_dimension
  SeedItems,     \* what seed_store writes, in its order
  Edits,         \* client writes that change a node of the seed
  MaxAttempts    \* 30 in the code

\* No row for a key
NoRows == [backend |-> "no row", dimension |-> 0]

ASSUME MigrationsAssumption ==
  /\ HasDatabase \in BOOLEAN
  /\ Backends \subseteq {NoRows.backend, "auto", "memory", "postgres", "invalid"}
  /\ Dimensions \subseteq Nat
  /\ Len(SeedItems) \in Nat /\ DOMAIN SeedItems = 1..Len(SeedItems)
  /\ \A i \in DOMAIN SeedItems : SeedItems[i] \notin Edits
  /\ MaxAttempts \in Nat \ {0}

VARIABLES
  up,         \* the database answers
  wanted,     \* what the operator wants in config_entries; NoRows leaves a row alone
  entries,    \* the rows of config_entries
  column,     \* dimension of the embedding column; 0 before there are tables
  disk,       \* nodes in the database: seed items, and writes of clients
  container,  \* "stopped", "migrating", "exec", and then what Bootstrap makes of it
  job,        \* the run of run_migrations.py
  attempt     \* failed runs of this start of the container

dbVars == <<up, wanted, entries, column, disk>>
jobVars == <<container, job, attempt>>

DefaultBackend == "auto"
DefaultDimension == 128

Keys == {"backend", "dimension"}
DefaultConfig == [backend |-> DefaultBackend, dimension |-> DefaultDimension]
NoConfig == NoRows

IdleJob == [stage |-> "begin", config |-> NoConfig, dimension |-> 0]

Init_db ==
  /\ up \in (IF HasDatabase THEN BOOLEAN ELSE {FALSE})
  /\ wanted \in [backend : Backends, dimension : Dimensions]
  /\ entries = NoRows
  /\ column = 0
  /\ disk = {}

Init_job ==
  /\ container = "stopped"
  /\ job = IdleJob
  /\ attempt = 0

-----------------------------------------------------------------------------
(* External: the database, and the operator *)

DatabaseChanges ==
  /\ HasDatabase
  /\ up' = ~ up
  /\ UNCHANGED <<wanted, entries, column, disk, jobVars>>

\* Rows can be edited once there is a table for them.
OperatorEdits ==
  \E k \in Keys :
     /\ up
     /\ column # 0
     /\ wanted[k] # NoRows[k]
     /\ entries' = [entries EXCEPT ![k] = wanted[k]]
     /\ UNCHANGED <<up, wanted, column, disk, jobVars>>

-----------------------------------------------------------------------------
(* Configuration *)

\* _load_from_kv_table finds rows: the database answers and has the table.
RowsReadable == HasDatabase /\ up /\ column # 0

\* Mutant: an unreachable database is taken for the choice to run without one.
LoadedConfig_Downgrades ==
  IF RowsReadable
  THEN [k \in Keys |-> IF entries[k] = NoRows[k] THEN DefaultConfig[k] ELSE entries[k]]
  ELSE [DefaultConfig EXCEPT !.backend = "memory"]

\* get_app_config: the rows that can be read, over the defaults.
LoadedConfig ==
  [k \in Keys |-> IF RowsReadable /\ entries[k] # NoRows[k] THEN entries[k] ELSE DefaultConfig[k]]

\* from_mapping raises ValueError.
Refused(config) == config.backend = "invalid"

-----------------------------------------------------------------------------
(* The entrypoint and the job *)

\* entrypoint.sh, with or without a database to prepare
Deploy ==
  /\ container = "stopped"
  /\ container' = IF HasDatabase THEN "migrating" ELSE "exec"
  /\ job' = IdleJob
  /\ attempt' = 0
  /\ UNCHANGED dbVars

\* _embedding_dimension: the configuration is cached, a refused one is not and
\* counts as the default.
ReadDimension ==
  /\ container = "migrating"
  /\ job.stage = "begin"
  /\ job' = [stage |-> "apply",
             config |-> IF Refused(LoadedConfig) THEN NoConfig ELSE LoadedConfig,
             dimension |-> IF Refused(LoadedConfig) THEN DefaultDimension ELSE LoadedConfig.dimension]
  /\ UNCHANGED <<dbVars, container, attempt>>

\* Mutant: the tables are dropped and created.
ApplyMigrations_Recreate ==
  /\ container = "migrating"
  /\ job.stage = "apply"
  /\ up
  /\ column' = job.dimension
  /\ disk' = {}
  /\ job' = [job EXCEPT !.stage = "config"]
  /\ UNCHANGED <<up, wanted, entries, container, attempt>>

\* apply_migrations: one transaction; CREATE TABLE IF NOT EXISTS keeps a table as
\* it is.
ApplyMigrations ==
  /\ container = "migrating"
  /\ job.stage = "apply"
  /\ up
  /\ column' = IF column = 0 THEN job.dimension ELSE column
  /\ job' = [job EXCEPT !.stage = "config"]
  /\ UNCHANGED <<up, wanted, entries, disk, container, attempt>>

\* ON CONFLICT (config_namespace, config_key) DO NOTHING
DefaultRow(k) == IF entries[k] = NoRows[k] THEN DefaultConfig[k] ELSE entries[k]

LoadConfig ==
  /\ container = "migrating"
  /\ job.stage = "config"
  /\ up
  /\ entries' = [k \in Keys |-> DefaultRow(k)]
  /\ job' = [job EXCEPT !.stage = "open"]
  /\ UNCHANGED <<up, wanted, column, disk, container, attempt>>

\* PostgresGraphStore(dsn) takes the cached configuration, or loads it now.
OpenStore ==
  LET config == IF job.config = NoConfig THEN LoadedConfig ELSE job.config
  IN  /\ container = "migrating"
      /\ job.stage = "open"
      /\ ~ Refused(config)
      /\ job' = [job EXCEPT !.stage = "seed", !.config = config]
      /\ UNCHANGED <<dbVars, container, attempt>>

\* The database after the first k items: an item of the seed replaces what a
\* client made of its node.
SeededDisk(k) ==
  (disk \ (IF k = 0 THEN {} ELSE Edits)) \cup {SeedItems[i] : i \in 1..k}

\* A vector goes into the column only if it has the column's dimension.
Writable(config) == column = config.dimension

\* Mutant: an exception ends the seed and is not reported.
SeedGraph_Swallows ==
  \E k \in 0..Len(SeedItems) :
     /\ container = "migrating"
     /\ job.stage = "seed"
     /\ up
     /\ Writable(job.config)
     /\ disk' = SeededDisk(k)
     /\ container' = "exec"
     /\ job' = [job EXCEPT !.stage = "done"]
     /\ UNCHANGED <<up, wanted, entries, column, attempt>>

\* seed_graph to its end: the run succeeds and the entrypoint starts the service.
SeedGraph ==
  /\ container = "migrating"
  /\ job.stage = "seed"
  /\ up
  /\ Writable(job.config)
  /\ disk' = SeededDisk(Len(SeedItems))
  /\ container' = "exec"
  /\ job' = [job EXCEPT !.stage = "done"]
  /\ UNCHANGED <<up, wanted, entries, column, attempt>>

\* What the failing part leaves behind: the schema and the rows are rolled back,
\* the seed stays as far as it got.
LeftBehind ==
  IF job.stage = "seed" /\ Writable(job.config)
  THEN \E k \in 0..(Len(SeedItems) - 1) : disk' = SeededDisk(k)
  ELSE UNCHANGED disk

\* Parts that may raise: those that use the database, which may be away or have a
\* column that does not fit, and the one that may have to load the configuration.
MayRaise ==
  \/ job.stage \in {"apply", "config", "seed"}
  \/ job.stage = "open" /\ job.config = NoConfig /\ Refused(LoadedConfig)

\* [ "${attempt}" -ge 30 ] after the increment
GivesUp == attempt + 1 >= MaxAttempts

\* Mutant: the loop has no limit.
JobFails_KeepsTrying ==
  /\ container = "migrating"
  /\ MayRaise
  /\ LeftBehind
  /\ job' = IdleJob
  /\ UNCHANGED <<up, wanted, entries, column, container, attempt>>

\* The run ends with an exception: another one, or the service without it.
JobFails ==
  /\ container = "migrating"
  /\ MayRaise
  /\ LeftBehind
  /\ attempt' = IF GivesUp THEN attempt ELSE attempt + 1
  /\ container' = IF GivesUp THEN "exec" ELSE "migrating"
  /\ job' = IdleJob
  /\ UNCHANGED <<up, wanted, entries, column>>

\* The container is stopped during a run.
JobKilled ==
  /\ container = "migrating"
  /\ LeftBehind
  /\ container' = "stopped"
  /\ job' = IdleJob
  /\ attempt' = 0
  /\ UNCHANGED <<up, wanted, entries, column>>

JobStep ==
  ReadDimension \/ ApplyMigrations \/ LoadConfig \/ OpenStore \/ SeedGraph \/ JobFails
=============================================================================
