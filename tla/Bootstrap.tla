------------------------------ MODULE Bootstrap ------------------------------
(***************************************************************************)
(* From the start of a container to graph writes: after the migrations       *)
(* (Migrations), the process comes by its configuration and its graph store.  *)
(* sdp/config.py caches both loaders for the life of the process; build_store *)
(* and get_store of sdp/graph_store.py check, build and assign without a      *)
(* lock; the import of sdp/api.py loads the configuration, seeds the store    *)
(* and swallows a failure of the seeding.  GET /healthz asks the store, and   *)
(* builds it if there is none.  The process may be restarted.               *)
(***************************************************************************)
EXTENDS Migrations

CONSTANTS
  Threads,       \* threads serving POST /graph/nodes and the like
  Writes         \* graph writes clients send, each once a process

ASSUME BootstrapAssumption == Edits \subseteq Writes /\ IsFiniteSet(Threads)

VARIABLES
  config,    \* the cached AppConfig
  store,     \* _STORE
  built,     \* in-memory stores built by this process, numbered from 1
  ram,       \* what each of them holds
  thread,    \* per thread: where it is in get_store, and its write or Probe
  health,    \* the latest answer of GET /healthz, "unavailable" before the first
  acked,     \* history variable: writes confirmed to a client by this process
  durable    \* history variable: writes the Postgres store has confirmed, ever

processVars == <<config, store, built, ram, thread, health, acked, durable>>
vars == <<dbVars, jobVars, processVars>>

NoStore  == [kind |-> "none", number |-> 0]
Postgres == [kind |-> "postgres", number |-> 0]
Memory(n) == [kind |-> "memory", number |-> n]

Probe == "healthz"

IdleThread == [stage |-> "idle", write |-> "none", store |-> NoStore]
Instances == 1..(Cardinality(Threads) + 1)

Init_process ==
  /\ config = NoConfig
  /\ store = NoStore
  /\ built = 0
  /\ ram = [n \in Instances |-> {}]
  /\ thread = [t \in Threads |-> IdleThread]
  /\ health = "unavailable"
  /\ acked = {}

Init ==
  /\ Init_db
  /\ Init_job
  /\ Init_process
  /\ durable = {}

-----------------------------------------------------------------------------
(* The import of sdp/api.py *)

\* A backend from_mapping refuses ends the process, otherwise the loaded
\* configuration is the one it keeps.
Start ==
  /\ container = "exec"
  /\ IF Refused(LoadedConfig)
     THEN container' = "stopped" /\ UNCHANGED config
     ELSE container' = "seeding" /\ config' = LoadedConfig
  /\ UNCHANGED <<dbVars, job, attempt, store, built, ram, thread, health, acked, durable>>

-----------------------------------------------------------------------------
(* The store *)

\* The backend build_store constructs, or "error"; Postgres has to answer and to
\* have its extensions, which come with the tables.
build_store ==
  IF config.backend = "memory" THEN "memory"
  ELSE IF HasDatabase THEN (IF up /\ column # 0 THEN "postgres" ELSE "error")
  ELSE IF config.backend = "postgres" THEN "error"
  ELSE "memory"

\* A store of that kind: a new object if it is in memory.
NewStore(kind) == IF kind = "memory" THEN Memory(built + 1) ELSE Postgres

BuiltAfter(kind) == IF kind = "memory" THEN built + 1 ELSE built

Items == {SeedItems[i] : i \in DOMAIN SeedItems}

\* seed_store(s): in memory to its end, in Postgres as far as the database lets it
\* (an exception is swallowed).
SeedInto(s) ==
  \/ /\ s.kind = "memory"
     /\ ram' = [ram EXCEPT ![s.number] = @ \cup Items]
     /\ UNCHANGED disk
  \/ /\ s.kind = "postgres"
     /\ \E k \in 0..Len(SeedItems) :
           /\ k # 0 => up /\ Writable(config)
           /\ disk' = SeededDisk(k)
     /\ UNCHANGED ram

\* seed_store() in the importing thread: get_store builds the store unless there
\* is one; if that fails nothing is seeded.
SeedStore ==
  \/ /\ store = NoStore
     /\ build_store = "error"
     /\ UNCHANGED <<store, built, ram, disk>>
  \/ /\ store = NoStore
     /\ build_store # "error"
     /\ store' = NewStore(build_store)
     /\ built' = BuiltAfter(build_store)
     /\ SeedInto(NewStore(build_store))
  \/ /\ store # NoStore
     /\ SeedInto(store)
     /\ UNCHANGED <<store, built>>

\* Mutant: the import leaves the store to the first request.
ImportSeeds_No == UNCHANGED <<store, built, ram, disk>>

\* The module-level call of sdp/api.py builds and seeds the store.
ImportSeeds == SeedStore

\* A server goes on from the import to its startup hook, an embedding application
\* goes straight to requests.
SeedAtImport ==
  /\ container = "seeding"
  /\ container' \in {"startup", "serving"}
  /\ ImportSeeds
  /\ UNCHANGED <<up, wanted, entries, column, job, attempt, config, thread, health, acked, durable>>

\* _bootstrap_graph_engine
SeedAtStartup ==
  /\ container = "startup"
  /\ container' = "serving"
  /\ SeedStore
  /\ UNCHANGED <<up, wanted, entries, column, job, attempt, config, thread, health, acked, durable>>

\* get_store finds _STORE set, or goes on to build one.  One monitor sends probes,
\* and waits for the answer.
Arrive(t, w) ==
  /\ container = "serving"
  /\ thread[t].stage = "idle"
  /\ w \notin acked
  /\ w = Probe => \A u \in Threads : thread[u].write # Probe
  /\ thread' = [thread EXCEPT ![t] =
                  [stage |-> IF store = NoStore THEN "build" ELSE "return",
                   write |-> w, store |-> NoStore]]
  /\ UNCHANGED <<dbVars, jobVars, config, store, built, ram, health, acked, durable>>

\* What /healthz has to say, if it was asked.
HealthAfter(t, ready) ==
  IF thread[t].write # Probe THEN health ELSE IF ready THEN "ready" ELSE "unavailable"

\* Mutant: build_store under a lock that is not released when it raises.
Build_KeepsLock(t) ==
  /\ thread[t].stage = "build"
  /\ \/ /\ build_store = "error"
        /\ thread' = [thread EXCEPT ![t].stage = "blocked"]
        /\ UNCHANGED built
     \/ /\ build_store # "error"
        /\ thread' = [thread EXCEPT ![t].stage = "assign", ![t].store = NewStore(build_store)]
        /\ built' = BuiltAfter(build_store)
  /\ UNCHANGED <<dbVars, jobVars, config, store, ram, health, acked, durable>>

\* build_store raises and the request is answered with a 500 (a probe with a 503),
\* or a new store is ready to be assigned.
Build(t) ==
  /\ thread[t].stage = "build"
  /\ \/ /\ build_store = "error"
        /\ thread' = [thread EXCEPT ![t] = IdleThread]
        /\ health' = HealthAfter(t, FALSE)
        /\ UNCHANGED built
     \/ /\ build_store # "error"
        /\ thread' = [thread EXCEPT ![t].stage = "assign", ![t].store = NewStore(build_store)]
        /\ built' = BuiltAfter(build_store)
        /\ UNCHANGED health
  /\ UNCHANGED <<dbVars, jobVars, config, store, ram, acked, durable>>

\* _STORE = build_store()
Assign(t) ==
  /\ thread[t].stage = "assign"
  /\ store' = thread[t].store
  /\ thread' = [thread EXCEPT ![t].stage = "return"]
  /\ UNCHANGED <<dbVars, jobVars, config, built, ram, health, acked, durable>>

\* return _STORE, whoever assigned it last
Return(t) ==
  /\ thread[t].stage = "return"
  /\ thread' = [thread EXCEPT ![t].stage = "use", ![t].store = store]
  /\ UNCHANGED <<dbVars, jobVars, config, store, built, ram, health, acked, durable>>

\* The write and its reply; a database that is away, or whose column has another
\* dimension, makes it a 500.
Write(s, w) ==
  \/ /\ s.kind = "memory"
     /\ ram' = [ram EXCEPT ![s.number] = @ \cup {w}]
     /\ acked' = acked \cup {w}
     /\ UNCHANGED <<disk, durable>>
  \/ /\ s.kind = "postgres"
     /\ up /\ Writable(config)
     /\ disk' = disk \cup {w}
     /\ acked' = acked \cup {w}
     /\ durable' = durable \cup {w}
     /\ UNCHANGED ram
  \/ /\ s.kind = "postgres"
     /\ ~ (up /\ Writable(config))
     /\ UNCHANGED <<ram, disk, acked, durable>>

\* store.readiness(): in memory always, in Postgres what build_store asks for.
readiness(s) == s.kind = "memory" \/ (up /\ column # 0)

\* The request does what it came for, and is answered.
Use(t) ==
  /\ thread[t].stage = "use"
  /\ IF thread[t].write = Probe
     THEN UNCHANGED <<ram, disk, acked, durable>>
     ELSE Write(thread[t].store, thread[t].write)
  /\ health' = HealthAfter(t, readiness(thread[t].store))
  /\ thread' = [thread EXCEPT ![t] = IdleThread]
  /\ UNCHANGED <<up, wanted, entries, column, jobVars, config, store, built>>

\* The process ends, with everything it holds in memory.
Stop ==
  /\ container \in {"seeding", "startup", "serving"}
  /\ container' = "stopped"
  /\ config' = NoConfig
  /\ store' = NoStore
  /\ built' = 0
  /\ ram' = [n \in Instances |-> {}]
  /\ thread' = [t \in Threads |-> IdleThread]
  /\ health' = "unavailable"
  /\ acked' = {}
  /\ UNCHANGED <<dbVars, job, attempt, durable>>

Serve(t) == Build(t) \/ Assign(t) \/ Return(t) \/ Use(t)

Next ==
  \/ (DatabaseChanges \/ OperatorEdits \/ Deploy \/ JobStep \/ JobKilled) /\ UNCHANGED processVars
  \/ Start
  \/ SeedAtImport
  \/ SeedAtStartup
  \/ \E t \in Threads, w \in Writes \cup {Probe} : Arrive(t, w)
  \/ \E t \in Threads : Serve(t)
  \/ Stop

Spec == Init /\ [][Next]_vars

\* The scripts and the import get to run, a request that a thread has taken goes on,
\* and there are probes, which wait for a thread like any request.  Nothing is
\* assumed of the database, the operator, other clients or restarts.
FairSpec ==
  /\ Spec
  /\ WF_vars((JobStep /\ UNCHANGED processVars) \/ Start \/ SeedAtImport \/ SeedAtStartup)
  /\ \A t \in Threads : WF_vars(Serve(t))
  /\ SF_vars(\E t \in Threads : Arrive(t, Probe))

-----------------------------------------------------------------------------
\* What a read through get_store sees.
Visible ==
  CASE store.kind = "memory"   -> ram[store.number]
    [] store.kind = "postgres" -> disk
    [] OTHER                   -> {}

\* A write that was confirmed is seen by later reads of the process: requests
\* that race to build the store never leave one of them with a store that nobody
\* else uses, because an in-memory store is there before the first request.
ConfirmedIsVisible == acked \subseteq Visible

\* sdp/graph_store.py:832: a configured database is never silently replaced by
\* the in-memory store.  What is confirmed is in the database, wherever in the
\* migrations, the start or a request the database went away, unless the operator
\* asked for "memory".
NoSilentDowngrade ==
  HasDatabase /\ wanted.backend # "memory" => acked \subseteq disk

\* Neither restarts nor migrations, however often they run over a database and
\* wherever they fail, undo what others have put there: writes that Postgres has
\* confirmed stay, except for edits of seeded nodes, which every seed takes back
\* (sdp/seed.py:40), and so do rows the operator has set (run_migrations.py:105).
ConfirmedSurvives ==
  /\ [](durable \ Edits \subseteq disk)
  /\ [][\A k \in Keys : entries[k] # NoRows[k] /\ entries[k] = wanted[k]
           => entries'[k] = entries[k]]_vars

\* A container whose migrations succeeded serves a graph that has the whole seed
\* and rows for the whole configuration, whatever part of earlier runs had failed
\* or been cut short; no failure half way counts as success.
MigratedIsComplete ==
  job.stage = "done" =>
     /\ Items \subseteq disk
     /\ \A k \in Keys : entries[k] # NoRows[k]

\* docker/entrypoint.sh: a database that never gets ready does not keep the service
\* from starting; the attempts come to an end.
DeploymentEnds == container = "migrating" ~> container \in {"serving", "stopped"}

\* The service needs no restart to get over an outage, even one that made the seed
\* fail or the first requests race to build the store: once the database is there
\* for good, /healthz says so for good.  A failed build leaves nothing behind.
ServiceRecovers ==
  <>[](container = "serving" /\ up /\ column # 0) => <>[](health = "ready")

\* migrations/run_migrations.py:24: "We render the configured dimension into the
\* DDL at apply time so the migration and the inserts always agree."  So past the
\* schema the column has the dimension of the vectors that the run is going to
\* insert.
MigrationFitsInserts ==
  job.stage \in {"config", "open", "seed", "done"} => column = job.dimension
=============================================================================
