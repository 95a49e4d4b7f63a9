--------------------------- MODULE BootstrapProofs ---------------------------
(***************************************************************************)
(* What survives outages, failed migrations, racing requests and restarts,   *)
(* for any number of threads, writes, seed items and attempts, with and      *)
(* without a database.                                                      *)
(***************************************************************************)
EXTENDS Bootstrap, FiniteSetTheorems, TLAPS

-----------------------------------------------------------------------------
(* The inductive invariant *)

Running == {"startup", "serving"}

StoreObject == [kind : {"none", "memory", "postgres"}, number : Nat]

ThreadRecord == [stage : {"idle", "build", "assign", "return", "use"},
                 write : Writes \cup {Probe, "none"},
                 store : StoreObject]

BootTypeOK ==
  /\ job.stage \in {"begin", "apply", "config", "open", "seed", "done"}
  /\ store \in StoreObject
  /\ built \in Nat
  /\ DOMAIN ram = Instances
  /\ thread \in [Threads -> ThreadRecord]

\* build_store gives the in-memory store, and nothing else, for this configuration.
MemoryMode == config.backend = "memory" \/ (~ HasDatabase /\ config.backend # "postgres")

\* Rows, and the configuration that a process takes from them, are defaults or what
\* the operator wants; a process without a database does not keep one that is refused.
ConfigInv ==
  /\ entries["backend"] \in {NoRows.backend, DefaultBackend, wanted.backend}
  /\ container \in {"seeding"} \cup Running => config.backend \in {DefaultBackend, wanted.backend}

\* The process has clients only when it serves, and a store only after the import.
QuietInv ==
  /\ container # "serving" => acked = {} /\ \A t \in Threads : thread[t] = IdleThread
  /\ container \notin Running => store = NoStore /\ built = 0

\* In memory there is one store and the import has built it, so that no request
\* builds another; otherwise the only store is the database.
OneStore ==
  /\ MemoryMode /\ container \in Running => store = Memory(1)
  /\ ~ MemoryMode => store \in {NoStore, Postgres}

ThreadInv ==
  \A t \in Threads :
     /\ thread[t].stage \in {"build", "assign"} => ~ MemoryMode
     /\ thread[t].stage = "assign" => thread[t].store = Postgres
     /\ thread[t].stage \in {"return", "use"} => store # NoStore
     /\ thread[t].stage = "use" => thread[t].store = store

\* What is confirmed is in the store there is.
AckedInv ==
  /\ acked # {} => store # NoStore
  /\ store = Memory(1) => acked \subseteq ram[1]
  /\ store = Postgres => acked \subseteq disk

\* What Postgres has confirmed is there, up to edits of the seed.
DurableInv == durable \ Edits \subseteq disk

\* How far a run of the migrations has come.
JobInv ==
  /\ job.stage \in {"open", "seed", "done"} => \A k \in Keys : entries[k] # NoRows[k]
  /\ job.stage = "done" => Items \subseteq disk
  /\ DOMAIN entries = Keys

BootInv ==
  /\ BootTypeOK
  /\ ConfigInv
  /\ QuietInv
  /\ OneStore
  /\ ThreadInv
  /\ AckedInv
  /\ DurableInv
  /\ JobInv

-----------------------------------------------------------------------------
(* Operators *)

\* The three kinds of store object are told apart.
LEMMA StoreKinds ==
  /\ NoStore \in StoreObject /\ Postgres \in StoreObject /\ Memory(1) \in StoreObject
  /\ NoStore # Postgres /\ NoStore # Memory(1) /\ Postgres # Memory(1)
  /\ NoStore.kind = "none" /\ Postgres.kind = "postgres"
  /\ Memory(1).kind = "memory" /\ Memory(1).number = 1
BY DEF NoStore, Postgres, Memory, StoreObject

\* The kind of store that build_store gives depends on the configuration alone; only
\* whether it succeeds depends on the database.
LEMMA BuildKind ==
  /\ MemoryMode => build_store = "memory"
  /\ ~ MemoryMode => build_store \in {"postgres", "error"}
BY DEF MemoryMode, build_store

\* However far it gets, a seed takes nothing away but edits of seeded nodes, and no
\* item of the seed.
LEMMA SeedKeeps ==
  ASSUME NEW k \in 0..Len(SeedItems)
  PROVE  /\ disk \ Edits \subseteq SeededDisk(k)
         /\ Items \subseteq disk => Items \subseteq SeededDisk(k)
<1>1. \A x \in Items : x \notin Edits
  BY MigrationsAssumption DEF Items
<1> QED
  BY <1>1 DEF SeededDisk

\* A seed that comes to its end has written every item.
LEMMA SeedCompletes == Items \subseteq SeededDisk(Len(SeedItems))
BY MigrationsAssumption DEF Items, SeededDisk

\* Whatever a run of the migrations leaves behind when it fails.
LEMMA FailureKeeps ==
  ASSUME LeftBehind
  PROVE  disk \ Edits \subseteq disk'
<1>1. CASE job.stage = "seed" /\ Writable(job.config)
  <2>1. PICK k \in 0..(Len(SeedItems) - 1) : disk' = SeededDisk(k)
    BY <1>1 DEF LeftBehind
  <2>2. k \in 0..Len(SeedItems)
    BY MigrationsAssumption
  <2> QED
    BY <2>1, <2>2, SeedKeeps
<1>2. CASE ~ (job.stage = "seed" /\ Writable(job.config))
  BY <1>2 DEF LeftBehind
<1> QED
  BY <1>1, <1>2

\* The thread pool is finite, so there is a first in-memory store.
LEMMA FirstInstance == 1 \in Instances
<1>1. Cardinality(Threads) \in Nat
  BY BootstrapAssumption, FS_CardinalityType
<1> QED
  BY <1>1 DEF Instances

\* A thread without a request.
LEMMA IdleThreadType == IdleThread \in ThreadRecord /\ IdleThread.stage = "idle"
BY StoreKinds DEF IdleThread, ThreadRecord

-----------------------------------------------------------------------------
(* Steps of the database, the operator, the entrypoint and the migrations *)

\* Before the container starts there is nothing.
LEMMA BootInit == Init => BootInv
<1> SUFFICES ASSUME Init PROVE BootInv
  OBVIOUS
<1> USE DEF Init, Init_db, Init_job, Init_process
<1>1. BootTypeOK
  BY StoreKinds, IdleThreadType DEF BootTypeOK, IdleJob
<1>2. ConfigInv /\ QuietInv /\ OneStore
  BY DEF ConfigInv, QuietInv, OneStore, Running, NoRows
<1>3. ThreadInv
  BY IdleThreadType DEF ThreadInv
<1>4. AckedInv /\ DurableInv
  BY DEF AckedInv, DurableInv
<1>5. JobInv
  BY DEF JobInv, IdleJob, NoRows, Keys
<1> QED
  BY <1>1, <1>2, <1>3, <1>4, <1>5 DEF BootInv

\* The process stays as it is, or there is none.
LEMMA OutsideStep ==
  ASSUME BootInv, UNCHANGED processVars, wanted' = wanted,
         \/ container' = container
         \/ container \notin {"seeding"} \cup Running /\ container' \notin {"seeding"} \cup Running,
         job'.stage \in {"begin", "apply", "config", "open", "seed", "done"},
         entries'["backend"] \in {NoRows.backend, DefaultBackend, wanted.backend},
         disk' = disk \/ (container \notin Running /\ disk \ Edits \subseteq disk'),
         JobInv'
  PROVE  BootInv'
<1>1. BootTypeOK' /\ ConfigInv'
  BY DEF BootInv, BootTypeOK, ConfigInv, processVars
<1>2. QuietInv' /\ OneStore' /\ ThreadInv'
  BY DEF BootInv, QuietInv, OneStore, ThreadInv, MemoryMode, processVars, Running
<1>3. AckedInv' /\ DurableInv'
  BY DEF BootInv, AckedInv, DurableInv, QuietInv, processVars, Running
<1> QED
  BY <1>1, <1>2, <1>3 DEF BootInv

\* An outage or its end, and an edit of a row.
LEMMA OperatorStep ==
  ASSUME BootInv, DatabaseChanges \/ OperatorEdits, UNCHANGED processVars
  PROVE  BootInv'
<1>1. CASE DatabaseChanges
  <2>1. UNCHANGED <<wanted, entries, column, disk, container, job>>
    BY <1>1 DEF DatabaseChanges, jobVars
  <2> QED
    BY <2>1, OutsideStep DEF BootInv, BootTypeOK, ConfigInv, JobInv, Items
<1>2. CASE OperatorEdits
  <2>1. PICK k \in Keys :
          /\ wanted[k] # NoRows[k]
          /\ entries' = [entries EXCEPT ![k] = wanted[k]]
          /\ UNCHANGED <<wanted, disk, container, job>>
    BY <1>2 DEF OperatorEdits, jobVars
  <2>2. DOMAIN entries = Keys
    BY DEF BootInv, JobInv
  <2>3. /\ entries'[k] = wanted[k]
        /\ \A j \in Keys \ {k} : entries'[j] = entries[j]
        /\ DOMAIN entries' = Keys
    BY <2>1, <2>2
  <2>4. entries'["backend"] \in {NoRows.backend, DefaultBackend, wanted.backend}
    BY <2>3 DEF BootInv, ConfigInv, Keys
  <2>5. JobInv'
    BY <2>1, <2>3 DEF BootInv, JobInv, Items
  <2> QED
    BY <2>1, <2>4, <2>5, OutsideStep DEF BootInv, BootTypeOK
<1> QED
  BY <1>1, <1>2

\* entrypoint.sh, and a run of the migrations up to its end, its failure or its kill.
LEMMA MigrationStep ==
  ASSUME BootInv, Deploy \/ JobStep \/ JobKilled, UNCHANGED processVars
  PROVE  BootInv'
<1>0. /\ DOMAIN entries = Keys
      /\ entries["backend"] \in {NoRows.backend, DefaultBackend, wanted.backend}
  BY DEF BootInv, JobInv, ConfigInv
<1>1. CASE Deploy
  <2>1. JobInv'
    BY <1>1 DEF Deploy, BootInv, JobInv, IdleJob, dbVars
  <2> QED
    BY <1>0, <1>1, <2>1, OutsideStep DEF Deploy, IdleJob, dbVars, Running
<1>2. CASE ReadDimension
  <2>1. JobInv'
    BY <1>2 DEF ReadDimension, BootInv, JobInv, dbVars
  <2> QED
    BY <1>0, <1>2, <2>1, OutsideStep DEF ReadDimension, dbVars
<1>3. CASE ApplyMigrations
  <2>1. job'.stage = "config" /\ UNCHANGED <<wanted, entries, disk, container>>
    BY <1>3 DEF ApplyMigrations
  <2>2. JobInv'
    BY <2>1 DEF BootInv, JobInv
  <2> QED
    BY <1>0, <2>1, <2>2, OutsideStep
<1>4. CASE LoadConfig
  <2>1. job'.stage = "open" /\ UNCHANGED <<wanted, disk, container>>
    BY <1>4 DEF LoadConfig
  <2>2. entries' = [k \in Keys |-> DefaultRow(k)]
    BY <1>4 DEF LoadConfig
  <2>3. \A k \in Keys : DefaultRow(k) # NoRows[k]
    <3>1. DefaultConfig["backend"] # NoRows["backend"]
      BY DEF DefaultConfig, NoRows, DefaultBackend
    <3>2. DefaultConfig["dimension"] # NoRows["dimension"]
      BY DEF DefaultConfig, NoRows, DefaultDimension
    <3> QED
      BY <3>1, <3>2 DEF DefaultRow, Keys
  <2>4. JobInv'
    BY <2>1, <2>2, <2>3 DEF JobInv
  <2>5. entries'["backend"] \in {NoRows.backend, DefaultBackend, wanted.backend}
    BY <1>0, <2>2 DEF DefaultRow, DefaultConfig, Keys
  <2> QED
    BY <2>1, <2>4, <2>5, OutsideStep
<1>5. CASE OpenStore
  <2>1. job.stage = "open" /\ job'.stage = "seed" /\ UNCHANGED <<wanted, entries, disk, container>>
    BY <1>5 DEF OpenStore, dbVars
  <2>2. JobInv'
    BY <2>1 DEF BootInv, JobInv
  <2> QED
    BY <1>0, <2>1, <2>2, OutsideStep
<1>6. CASE SeedGraph
  <2>1. /\ job.stage = "seed" /\ job'.stage = "done"
        /\ container = "migrating" /\ container' = "exec"
        /\ disk' = SeededDisk(Len(SeedItems))
        /\ UNCHANGED <<wanted, entries>>
    BY <1>6 DEF SeedGraph
  <2>2. disk \ Edits \subseteq disk' /\ Items \subseteq disk'
    BY <2>1, SeedKeeps, SeedCompletes, MigrationsAssumption
  <2>3. JobInv'
    BY <2>1, <2>2 DEF BootInv, JobInv, Items
  <2> QED
    BY <1>0, <2>1, <2>2, <2>3, OutsideStep DEF Running
<1>7. CASE JobFails \/ JobKilled
  <2>1. /\ container = "migrating" /\ container' \in {"migrating", "exec", "stopped"}
        /\ LeftBehind /\ job' = IdleJob
        /\ UNCHANGED <<wanted, entries>>
    BY <1>7 DEF JobFails, JobKilled
  <2>2. job'.stage = "begin" /\ disk \ Edits \subseteq disk'
    BY <2>1, FailureKeeps DEF IdleJob
  <2>3. JobInv'
    BY <2>1, <2>2 DEF BootInv, JobInv
  <2> QED
    BY <1>0, <2>1, <2>2, <2>3, OutsideStep DEF Running
<1> QED
  BY <1>1, <1>2, <1>3, <1>4, <1>5, <1>6, <1>7 DEF JobStep

-----------------------------------------------------------------------------
(* Steps of the process *)

\* The import loads the configuration, and a refused one ends the process.
LEMMA StartStep == ASSUME BootInv, Start PROVE BootInv'
<1>1. /\ container = "exec"
      /\ UNCHANGED <<wanted, entries, disk, job, store, built, ram, thread, acked, durable>>
      /\ \/ container' = "stopped" /\ config' = config
         \/ container' = "seeding" /\ config' = LoadedConfig
  BY DEF Start, dbVars
<1>2. LoadedConfig.backend \in {DefaultBackend, wanted.backend}
  <2>1. LoadedConfig["backend"] \in {DefaultBackend, wanted.backend}
    BY DEF LoadedConfig, Keys, DefaultConfig, NoRows, BootInv, ConfigInv
  <2> QED
    BY <2>1 DEF LoadedConfig, Keys
<1>3. store = NoStore /\ acked = {} /\ \A t \in Threads : thread[t] = IdleThread
  BY <1>1 DEF BootInv, QuietInv, Running
<1>4. BootTypeOK' /\ JobInv' /\ DurableInv'
  BY <1>1 DEF BootInv, BootTypeOK, JobInv, DurableInv, Items
<1>5. ConfigInv'
  BY <1>1, <1>2 DEF BootInv, ConfigInv, Running
<1>6. QuietInv' /\ OneStore' /\ AckedInv'
  BY <1>1, <1>3 DEF BootInv, QuietInv, OneStore, AckedInv, Running
<1>7. ThreadInv'
  BY <1>1, <1>3, IdleThreadType DEF ThreadInv
<1> QED
  BY <1>4, <1>5, <1>6, <1>7 DEF BootInv

\* Seeding leaves the one store of the mode there is, or none if the database does
\* not let it, and takes nothing away from the database but edits.
LEMMA SeedOutcome ==
  ASSUME BootInv, SeedStore, container \in {"seeding", "startup"}
  PROVE  /\ MemoryMode => store' = Memory(1)
         /\ ~ MemoryMode => store' \in {NoStore, Postgres}
         /\ built' \in Nat
         /\ DOMAIN ram' = Instances
         /\ disk \ Edits \subseteq disk'
         /\ Items \subseteq disk => Items \subseteq disk'
<1>1. /\ built \in Nat /\ DOMAIN ram = Instances
      /\ container = "seeding" => store = NoStore /\ built = 0
      /\ MemoryMode /\ container = "startup" => store = Memory(1)
      /\ ~ MemoryMode => store \in {NoStore, Postgres}
  BY DEF BootInv, BootTypeOK, QuietInv, OneStore, Running
<1>2. ASSUME NEW st, SeedInto(st)
      PROVE  /\ DOMAIN ram' = Instances
             /\ disk \ Edits \subseteq disk'
             /\ Items \subseteq disk => Items \subseteq disk'
  <2>1. CASE st.kind = "memory" /\ ram' = [ram EXCEPT ![st.number] = @ \cup Items] /\ UNCHANGED disk
    BY <1>1, <2>1
  <2>2. CASE (\E k \in 0..Len(SeedItems) : disk' = SeededDisk(k)) /\ UNCHANGED ram
    BY <1>1, <2>2, SeedKeeps
  <2> QED
    BY <1>2, <2>1, <2>2 DEF SeedInto
<1>3. CASE store = NoStore /\ build_store = "error" /\ UNCHANGED <<store, built, ram, disk>>
  BY <1>1, <1>3, BuildKind, StoreKinds
<1>4. CASE /\ store = NoStore
           /\ build_store # "error"
           /\ store' = NewStore(build_store)
           /\ built' = BuiltAfter(build_store)
           /\ SeedInto(NewStore(build_store))
  <2>1. built' \in Nat
    BY <1>1, <1>4 DEF BuiltAfter
  <2>2. MemoryMode => store' = Memory(1)
    BY <1>1, <1>4, BuildKind, StoreKinds DEF NewStore
  <2>3. ~ MemoryMode => store' = Postgres
    BY <1>4, BuildKind DEF NewStore
  <2> QED
    BY <1>2, <1>4, <2>1, <2>2, <2>3
<1>5. CASE store # NoStore /\ SeedInto(store) /\ UNCHANGED <<store, built>>
  BY <1>1, <1>2, <1>5
<1> QED
  BY <1>3, <1>4, <1>5 DEF SeedStore

\* The import seeds the store, and so does the startup hook of a server.
LEMMA SeedStep == ASSUME BootInv, SeedAtImport \/ SeedAtStartup PROVE BootInv'
<1>1. /\ container \in {"seeding", "startup"} /\ container' \in Running
      /\ SeedStore
      /\ UNCHANGED <<wanted, entries, job, config, thread, acked, durable>>
  BY DEF SeedAtImport, SeedAtStartup, ImportSeeds, Running
<1>2. /\ MemoryMode => store' = Memory(1)
      /\ ~ MemoryMode => store' \in {NoStore, Postgres}
      /\ built' \in Nat
      /\ DOMAIN ram' = Instances
      /\ disk \ Edits \subseteq disk'
      /\ Items \subseteq disk => Items \subseteq disk'
  BY <1>1, SeedOutcome
<1>3. acked = {} /\ \A t \in Threads : thread[t] = IdleThread
  BY <1>1 DEF BootInv, QuietInv
<1>4. BootTypeOK'
  BY <1>1, <1>2, StoreKinds DEF BootInv, BootTypeOK
<1>5. ConfigInv' /\ QuietInv' /\ OneStore'
  BY <1>1, <1>2, <1>3 DEF BootInv, ConfigInv, QuietInv, OneStore, MemoryMode, Running
<1>6. ThreadInv'
  BY <1>1, <1>3, IdleThreadType DEF ThreadInv
<1>7. AckedInv' /\ DurableInv' /\ JobInv'
  BY <1>1, <1>2, <1>3 DEF BootInv, AckedInv, DurableInv, JobInv, Items
<1> QED
  BY <1>4, <1>5, <1>6, <1>7 DEF BootInv

\* Thread t moves on, the store, what it holds and what is confirmed stay.
LEMMA ThreadMoves ==
  ASSUME BootInv, container = "serving", NEW t \in Threads, NEW x \in ThreadRecord,
         thread' = [thread EXCEPT ![t] = x],
         UNCHANGED <<wanted, entries, disk, container, job, config, store, ram, acked, durable>>,
         built' \in Nat,
         x.stage \in {"build", "assign"} => ~ MemoryMode,
         x.stage = "assign" => x.store = Postgres,
         x.stage \in {"return", "use"} => store # NoStore,
         x.stage = "use" => x.store = store
  PROVE  BootInv'
<1>1. /\ thread' \in [Threads -> ThreadRecord]
      /\ thread'[t] = x
      /\ \A u \in Threads \ {t} : thread'[u] = thread[u]
  BY DEF BootInv, BootTypeOK
<1>2. BootTypeOK' /\ ConfigInv'
  BY <1>1 DEF BootInv, BootTypeOK, ConfigInv
<1>3. QuietInv' /\ OneStore'
  BY DEF BootInv, QuietInv, OneStore, MemoryMode, Running
<1>4. ThreadInv'
  BY <1>1 DEF BootInv, ThreadInv, MemoryMode
<1>5. AckedInv' /\ DurableInv' /\ JobInv'
  BY DEF BootInv, AckedInv, DurableInv, JobInv, Items
<1> QED
  BY <1>2, <1>3, <1>4, <1>5 DEF BootInv

\* A thread that has a request has it while the process serves.
LEMMA BusyIsServing ==
  ASSUME BootInv, NEW t \in Threads, thread[t].stage # "idle"
  PROVE  container = "serving" /\ thread[t] \in ThreadRecord
BY IdleThreadType DEF BootInv, QuietInv, BootTypeOK

\* A request finds the store, or goes on to build one: never in memory.
LEMMA ArriveStep ==
  ASSUME BootInv, NEW t \in Threads, NEW w \in Writes \cup {Probe}, Arrive(t, w)
  PROVE  BootInv'
<1> DEFINE x == [stage |-> IF store = NoStore THEN "build" ELSE "return", write |-> w, store |-> NoStore]
<1>1. /\ container = "serving"
      /\ thread' = [thread EXCEPT ![t] = x]
      /\ UNCHANGED <<wanted, entries, disk, container, job, config, store, built, ram, acked, durable>>
  BY DEF Arrive, dbVars, jobVars
<1>2. x \in ThreadRecord /\ x.stage = IF store = NoStore THEN "build" ELSE "return"
  BY StoreKinds DEF ThreadRecord
<1>3. store = NoStore => ~ MemoryMode
  BY <1>1, StoreKinds DEF BootInv, OneStore, Running
<1>4. built \in Nat
  BY DEF BootInv, BootTypeOK
<1> HIDE DEF x
<1> QED
  BY <1>1, <1>2, <1>3, <1>4, ThreadMoves

\* build_store outside memory mode: the database, or an error.
LEMMA BuildStep == ASSUME BootInv, NEW t \in Threads, Build(t) PROVE BootInv'
<1>1. thread[t].stage = "build"
  BY DEF Build
<1>2. container = "serving" /\ thread[t] \in ThreadRecord /\ ~ MemoryMode /\ built \in Nat
  BY <1>1, BusyIsServing DEF BootInv, ThreadInv, BootTypeOK
<1>3. UNCHANGED <<wanted, entries, disk, container, job, config, store, ram, acked, durable>>
  BY DEF Build, dbVars, jobVars
<1>4. CASE build_store = "error" /\ thread' = [thread EXCEPT ![t] = IdleThread] /\ UNCHANGED built
  BY <1>2, <1>3, <1>4, IdleThreadType, ThreadMoves
<1>5. CASE /\ build_store # "error"
           /\ thread' = [thread EXCEPT ![t].stage = "assign", ![t].store = NewStore(build_store)]
           /\ built' = BuiltAfter(build_store)
  <2> DEFINE x == [thread[t] EXCEPT !.stage = "assign", !.store = Postgres]
  <2>1. build_store = "postgres"
    BY <1>2, <1>5, BuildKind
  <2>2. NewStore(build_store) = Postgres /\ built' \in Nat
    BY <1>2, <1>5, <2>1 DEF NewStore, BuiltAfter
  <2>3. thread' = [thread EXCEPT ![t] = x]
    BY <1>5, <2>2 DEF BootInv, BootTypeOK
  <2>4. x \in ThreadRecord /\ x.stage = "assign" /\ x.store = Postgres
    BY <1>2, StoreKinds DEF ThreadRecord
  <2> HIDE DEF x
  <2> QED
    BY <1>2, <1>3, <2>2, <2>3, <2>4, ThreadMoves
<1> QED
  BY <1>4, <1>5 DEF Build

\* _STORE is assigned, the same store as before if there was one.
LEMMA AssignStep == ASSUME BootInv, NEW t \in Threads, Assign(t) PROVE BootInv'
<1> DEFINE x == [thread[t] EXCEPT !.stage = "return"]
<1>1. /\ thread[t].stage = "assign"
      /\ store' = thread[t].store
      /\ thread' = [thread EXCEPT ![t] = x]
      /\ UNCHANGED <<wanted, entries, disk, container, job, config, built, ram, acked, durable>>
  BY DEF Assign, dbVars, jobVars
<1>2. /\ container = "serving" /\ thread[t] \in ThreadRecord /\ ~ MemoryMode
      /\ thread[t].store = Postgres /\ store \in {NoStore, Postgres}
  BY <1>1, BusyIsServing DEF BootInv, ThreadInv, OneStore
<1>3. x \in ThreadRecord /\ x.stage = "return"
  BY <1>2 DEF ThreadRecord
<1> HIDE DEF x
<1>4. /\ thread' \in [Threads -> ThreadRecord]
      /\ thread'[t] = x
      /\ \A u \in Threads \ {t} : thread'[u] = thread[u]
  BY <1>1, <1>3 DEF BootInv, BootTypeOK
<1>5. store' = Postgres
  BY <1>1, <1>2
<1>6. BootTypeOK' /\ ConfigInv'
  BY <1>1, <1>4, <1>5, StoreKinds DEF BootInv, BootTypeOK, ConfigInv
<1>7. QuietInv' /\ OneStore'
  BY <1>1, <1>2, <1>5 DEF BootInv, QuietInv, OneStore, MemoryMode, Running
<1>8. ThreadInv'
  BY <1>1, <1>2, <1>3, <1>4, <1>5, StoreKinds DEF BootInv, ThreadInv, MemoryMode
<1>9. acked \subseteq disk
  BY <1>2, StoreKinds DEF BootInv, AckedInv
<1>10. AckedInv' /\ DurableInv' /\ JobInv'
  BY <1>1, <1>5, <1>9, StoreKinds DEF BootInv, AckedInv, DurableInv, JobInv, Items
<1> QED
  BY <1>6, <1>7, <1>8, <1>10 DEF BootInv

\* get_store returns _STORE.
LEMMA ReturnStep == ASSUME BootInv, NEW t \in Threads, Return(t) PROVE BootInv'
<1> DEFINE x == [thread[t] EXCEPT !.stage = "use", !.store = store]
<1>1. /\ thread[t].stage = "return"
      /\ UNCHANGED <<wanted, entries, disk, container, job, config, store, built, ram, acked, durable>>
  BY DEF Return, dbVars, jobVars
<1>2. /\ container = "serving" /\ thread[t] \in ThreadRecord /\ store # NoStore
      /\ store \in StoreObject /\ built \in Nat
  BY <1>1, BusyIsServing DEF BootInv, ThreadInv, BootTypeOK
<1>3. x \in ThreadRecord /\ x.stage = "use" /\ x.store = store
  BY <1>2 DEF ThreadRecord
<1>4. thread' = [thread EXCEPT ![t] = x]
  BY DEF Return, BootInv, BootTypeOK
<1> HIDE DEF x
<1> QED
  BY <1>1, <1>2, <1>3, <1>4, ThreadMoves

\* A write that is confirmed is in the store that everybody uses.
LEMMA UseStep == ASSUME BootInv, NEW t \in Threads, Use(t) PROVE BootInv'
<1> DEFINE w == thread[t].write
<1>1. /\ thread[t].stage = "use"
      /\ thread' = [thread EXCEPT ![t] = IdleThread]
      /\ UNCHANGED <<wanted, entries, container, job, config, store, built>>
      /\ UNCHANGED <<ram, disk, acked, durable>> \/ Write(thread[t].store, w)
  BY DEF Use, jobVars
<1>2. container = "serving" /\ store # NoStore /\ thread[t].store = store /\ built \in Nat
  BY <1>1, BusyIsServing DEF BootInv, ThreadInv, BootTypeOK
<1>3. store \in {Memory(1), Postgres}
  BY <1>2 DEF BootInv, OneStore, Running
<1>4. CASE UNCHANGED <<ram, disk, acked, durable>>
  BY <1>1, <1>2, <1>4, IdleThreadType, ThreadMoves
<1>5. CASE /\ store = Memory(1)
           /\ ram' = [ram EXCEPT ![1] = @ \cup {w}]
           /\ acked' = acked \cup {w}
           /\ UNCHANGED <<disk, durable>>
  <2>1. /\ thread' \in [Threads -> ThreadRecord]
        /\ thread'[t] = IdleThread
        /\ \A u \in Threads \ {t} : thread'[u] = thread[u]
    BY <1>1, IdleThreadType DEF BootInv, BootTypeOK
  <2>2. DOMAIN ram' = Instances /\ ram'[1] = ram[1] \cup {w}
    BY <1>5, FirstInstance DEF BootInv, BootTypeOK
  <2>3. BootTypeOK' /\ ConfigInv' /\ JobInv' /\ DurableInv'
    BY <1>1, <1>5, <2>1, <2>2 DEF BootInv, BootTypeOK, ConfigInv, JobInv, DurableInv, Items
  <2>4. QuietInv' /\ OneStore'
    BY <1>1, <1>2 DEF BootInv, QuietInv, OneStore, MemoryMode, Running
  <2>5. ThreadInv'
    BY <1>1, <2>1, IdleThreadType DEF BootInv, ThreadInv, MemoryMode
  <2>6. AckedInv'
    BY <1>1, <1>2, <1>5, <2>2, StoreKinds DEF BootInv, AckedInv
  <2> QED
    BY <2>3, <2>4, <2>5, <2>6 DEF BootInv
<1>6. CASE /\ store = Postgres
           /\ disk' = disk \cup {w}
           /\ acked' = acked \cup {w}
           /\ durable' = durable \cup {w}
           /\ UNCHANGED ram
  <2>1. /\ thread' \in [Threads -> ThreadRecord]
        /\ thread'[t] = IdleThread
        /\ \A u \in Threads \ {t} : thread'[u] = thread[u]
    BY <1>1, IdleThreadType DEF BootInv, BootTypeOK
  <2>2. BootTypeOK' /\ ConfigInv' /\ JobInv' /\ DurableInv'
    BY <1>1, <1>6, <2>1 DEF BootInv, BootTypeOK, ConfigInv, JobInv, DurableInv, Items
  <2>3. QuietInv' /\ OneStore'
    BY <1>1, <1>2 DEF BootInv, QuietInv, OneStore, MemoryMode, Running
  <2>4. ThreadInv'
    BY <1>1, <2>1, IdleThreadType DEF BootInv, ThreadInv, MemoryMode
  <2>5. AckedInv'
    BY <1>1, <1>2, <1>6, StoreKinds DEF BootInv, AckedInv
  <2> QED
    BY <2>2, <2>3, <2>4, <2>5 DEF BootInv
<1>7. Write(store, w) => \/ UNCHANGED <<ram, disk, acked, durable>>
                         \/ /\ store = Memory(1)
                            /\ ram' = [ram EXCEPT ![1] = @ \cup {w}]
                            /\ acked' = acked \cup {w}
                            /\ UNCHANGED <<disk, durable>>
                         \/ /\ store = Postgres
                            /\ disk' = disk \cup {w}
                            /\ acked' = acked \cup {w}
                            /\ durable' = durable \cup {w}
                            /\ UNCHANGED ram
  BY <1>3, StoreKinds DEF Write
<1> QED
  BY <1>1, <1>2, <1>4, <1>5, <1>6, <1>7

\* The process ends.
LEMMA StopStep == ASSUME BootInv, Stop PROVE BootInv'
<1>1. /\ container' = "stopped" /\ config' = NoConfig /\ store' = NoStore /\ built' = 0
      /\ ram' = [n \in Instances |-> {}]
      /\ thread' = [t \in Threads |-> IdleThread]
      /\ acked' = {}
      /\ UNCHANGED <<wanted, entries, disk, job, durable>>
  BY DEF Stop, dbVars
<1>2. BootTypeOK'
  BY <1>1, StoreKinds, IdleThreadType DEF BootInv, BootTypeOK
<1>3. ConfigInv' /\ QuietInv' /\ OneStore'
  BY <1>1 DEF BootInv, ConfigInv, QuietInv, OneStore, Running
<1>4. ThreadInv'
  BY <1>1, IdleThreadType DEF ThreadInv
<1>5. AckedInv' /\ DurableInv' /\ JobInv'
  BY <1>1 DEF BootInv, AckedInv, DurableInv, JobInv, Items
<1> QED
  BY <1>2, <1>3, <1>4, <1>5 DEF BootInv

\* Every step keeps the invariant.
LEMMA BootNext == BootInv /\ [Next]_vars => BootInv'
<1> SUFFICES ASSUME BootInv, [Next]_vars PROVE BootInv'
  OBVIOUS
<1>1. CASE UNCHANGED vars
  <2>1. UNCHANGED <<wanted, entries, disk, container, job, processVars>>
    BY <1>1 DEF vars, dbVars, jobVars
  <2>2. JobInv'
    BY <2>1 DEF BootInv, JobInv, Items
  <2> QED
    BY <2>1, <2>2, OutsideStep DEF BootInv, BootTypeOK, ConfigInv
<1>2. CASE (DatabaseChanges \/ OperatorEdits \/ Deploy \/ JobStep \/ JobKilled) /\ UNCHANGED processVars
  BY <1>2, OperatorStep, MigrationStep
<1>3. ASSUME NEW t \in Threads, Serve(t) PROVE BootInv'
  BY <1>3, BuildStep, AssignStep, ReturnStep, UseStep DEF Serve
<1> QED
  BY <1>1, <1>2, <1>3, StartStep, SeedStep, ArriveStep, StopStep DEF Next

\* Whatever the step, a row that the operator has set stays as it is.
LEMMA OperatorRowStays ==
  ASSUME BootInv, [Next]_vars, NEW k \in Keys, entries[k] # NoRows[k], entries[k] = wanted[k]
  PROVE  entries'[k] = entries[k]
<1>0. DOMAIN entries = Keys
  BY DEF BootInv, JobInv
<1>1. CASE OperatorEdits
  BY <1>0, <1>1 DEF OperatorEdits
<1>2. CASE LoadConfig
  BY <1>2 DEF LoadConfig, DefaultRow
<1>3. CASE \/ DatabaseChanges \/ Deploy \/ ReadDimension \/ ApplyMigrations
           \/ OpenStore \/ SeedGraph \/ JobFails \/ JobKilled \/ UNCHANGED vars
  BY <1>3 DEF DatabaseChanges, Deploy, ReadDimension, ApplyMigrations, OpenStore, SeedGraph,
              JobFails, JobKilled, dbVars, vars
<1>4. CASE Start \/ SeedAtImport \/ SeedAtStartup \/ Stop
  BY <1>4 DEF Start, SeedAtImport, SeedAtStartup, Stop, dbVars
<1>5. ASSUME NEW t \in Threads, Serve(t) \/ \E w \in Writes \cup {Probe} : Arrive(t, w)
      PROVE  entries' = entries
  BY <1>5 DEF Serve, Build, Assign, Return, Use, Arrive, dbVars
<1> QED
  BY <1>1, <1>2, <1>3, <1>4, <1>5 DEF Next, JobStep

-----------------------------------------------------------------------------
(* What holds *)

\* Every reachable state satisfies the invariant.
THEOREM BootIsInOrder == Spec => []BootInv
BY BootInit, BootNext, PTL DEF Spec

\* get_store builds and assigns without a lock, and yet no confirmed write is lost to
\* a store that nobody else uses.
THEOREM RacesLoseNothing == Spec => []ConfirmedIsVisible
<1>1. BootInv => ConfirmedIsVisible
  <2> SUFFICES ASSUME BootInv, acked # {} PROVE acked \subseteq Visible
    BY DEF ConfirmedIsVisible
  <2>1. store # NoStore /\ container \in Running
    BY DEF BootInv, AckedInv, QuietInv, Running
  <2>2. store \in {Memory(1), Postgres}
    BY <2>1 DEF BootInv, OneStore
  <2> QED
    BY <2>2, StoreKinds DEF BootInv, AckedInv, Visible
<1> QED
  BY <1>1, BootIsInOrder, PTL

\* A configured database is never silently replaced by the in-memory store
\* (build_store of sdp/graph_store.py): what is confirmed is in the database.
THEOREM DowngradesAreExplicit == Spec => []NoSilentDowngrade
<1>1. BootInv => NoSilentDowngrade
  <2> SUFFICES ASSUME BootInv, HasDatabase, wanted.backend # "memory", acked # {}
               PROVE  acked \subseteq disk
    BY DEF NoSilentDowngrade
  <2>1. store # NoStore /\ container = "serving"
    BY DEF BootInv, AckedInv, QuietInv
  <2>2. ~ MemoryMode
    BY <2>1 DEF BootInv, ConfigInv, MemoryMode, Running, DefaultBackend
  <2>3. store = Postgres
    BY <2>1, <2>2 DEF BootInv, OneStore
  <2> QED
    BY <2>3 DEF BootInv, AckedInv
<1> QED
  BY <1>1, BootIsInOrder, PTL

\* No restart, seed or migration, failed or not, takes back a write that Postgres has
\* confirmed, or a row that the operator has set.
THEOREM WritesAndRowsSurvive == Spec => ConfirmedSurvives
<1>1. BootInv => durable \ Edits \subseteq disk
  BY DEF BootInv, DurableInv
<1>2. BootInv /\ [Next]_vars =>
        [\A k \in Keys : entries[k] # NoRows[k] /\ entries[k] = wanted[k] => entries'[k] = entries[k]]_vars
  BY OperatorRowStays
<1> QED
  BY <1>1, <1>2, BootIsInOrder, PTL DEF Spec, ConfirmedSurvives

\* A run of the migrations that reports success has written the whole seed and a row
\* for every key, and they stay.
THEOREM SuccessMeansComplete == Spec => []MigratedIsComplete
<1>1. BootInv => MigratedIsComplete
  BY DEF BootInv, JobInv, MigratedIsComplete
<1> QED
  BY <1>1, BootIsInOrder, PTL

=============================================================================
