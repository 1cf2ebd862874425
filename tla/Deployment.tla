------------------------------ MODULE Deployment ------------------------------
(***************************************************************************)
(* The life of the processes of a deployment: main.rs loads the            *)
(* configuration, connects, migrates and serves, or only migrates;         *)
(* replicas of several releases start, crash, are stopped and start again  *)
(* at any time on one database.                                            *)
(*                                                                         *)
(* The migrator is sqlx's.  Its advisory lock is one for the database and  *)
(* is held for the run of one module; it lives as long as the connection   *)
(* that took it, so it goes when the process does.  A migration and its    *)
(* row in _sqlx_migrations are one transaction.                            *)
(***************************************************************************)
EXTENDS Integers, Sequences, FiniteSets

CONSTANTS
    Replica,     \* the processes
    Launch,      \* what a process can be started as, see LaunchType
    Module,      \* names of modules
    Registry,    \* migrations::all of each release: modules and the versions they carry
    Numeral,     \* the spellings of numbers, and the numbers they spell
    None         \* unset; no replica

VARIABLES
    pc,         \* where a process stands, or how it ended
    launch,     \* what it was started as
    config,     \* its AppConfig
    todo,       \* the modules it has yet to migrate, by their place in the registry
    module,     \* the module it is migrating
    plan,       \* the versions of that module its run has found missing
    pending,    \* requests it has accepted and not answered
    ledger,     \* _sqlx_migrations.version, committed
    lock,       \* the process that holds the advisory lock
    up          \* the database answers

startup == <<launch, config, todo, module, plan>>
database == <<ledger, lock>>
vars == <<pc, startup, pending, database, up>>

------------------------------------------------------------------------------
(* config and package/env *)

\* What AppConfig::load reads, and as what.
Kind == [APP_PORT |-> "u16", LOGGER_LEVEL |-> "level", LOGGER_DIRECTORY |-> "string",
         APP_NAME |-> "string", APP_ENVIRONMENT |-> "environment", APP_TIMEZONE |-> "string",
         DB_HOST |-> "string", DB_PORT |-> "u16", DB_DATABASE |-> "string",
         DB_USERNAME |-> "string", DB_PASSWORD |-> "string", DB_MAX_CONNECTIONS |-> "u32",
         DB_RUN_MIGRATIONS |-> "boolean", MAIL_HOST |-> "string", MAIL_PORT |-> "u16",
         MAIL_USERNAME |-> "string", MAIL_PASSWORD |-> "string",
         MAIL_FROM_ADDRESS |-> "string", MAIL_FROM_NAME |-> "string", JWT_SECRET |-> "required",
         AUTHENTICATION_ACCESS_TOKEN_TTL_SECONDS |-> "i64",
         AUTHENTICATION_REFRESH_TOKEN_TTL_SECONDS |-> "i64"]

Key == DOMAIN Kind

\* The defaults the rest of the start depends on; the others only have to be told from values.
Fallback == [k \in Key |-> CASE k = "DB_MAX_CONNECTIONS" -> "10"
                             [] k = "DB_RUN_MIGRATIONS" -> "true"
                             [] OTHER -> "default"]

Truthy == {"1", "t", "true", "y", "yes", "on"}
Falsy == {"0", "f", "false", "n", "no", "off"}
Level == {"trace", "debug", "info", "warn", "warning", "error"}
Environment == {"local", "development", "production"}

\* Whether a value parses as what is read.
Parses(kind, value) ==
    CASE kind = "u16" -> value \in DOMAIN Numeral /\ Numeral[value] \in 0 .. 65535
      [] kind = "u32" -> value \in DOMAIN Numeral /\ Numeral[value] \in Nat
      [] kind = "i64" -> value \in DOMAIN Numeral
      [] kind = "boolean" -> value \in Truthy \cup Falsy
      [] kind = "level" -> value \in Level
      [] kind = "environment" -> value \in Environment
      [] OTHER -> TRUE

\* dotenvy::dotenv: .env sets what the process was not given, a blank value being one.
Variable(l, k) ==
    IF k \in DOMAIN l.process THEN l.process[k]
    ELSE IF k \in DOMAIN l.file THEN l.file[k] ELSE None

\* env::string: a blank value counts as unset.
Given(l, k) == IF Variable(l, k) = "" THEN None ELSE Variable(l, k)

\* Mutant: a value that does not parse is one more reason to fall back.
LoadsLenient(l) == Given(l, "JWT_SECRET") # None

\* AppConfig::load succeeds.
Loads(l) ==
    \A k \in Key : IF Given(l, k) = None THEN Kind[k] # "required"
                   ELSE Parses(Kind[k], Given(l, k))

Read(l, k) ==
    IF Given(l, k) = None \/ ~Parses(Kind[k], Given(l, k)) THEN Fallback[k] ELSE Given(l, k)

Load(l) == [k \in Key |-> Read(l, k)]

RunMigrations(r) == config[r]["DB_RUN_MIGRATIONS"] \in Truthy
MaxConnections(r) == Numeral[config[r]["DB_MAX_CONNECTIONS"]]

------------------------------------------------------------------------------
(* database/migrations *)

\* Mutant: the registry is gone through from its end.
AllReversed(b) == [i \in DOMAIN Registry[b] |-> Registry[b][Len(Registry[b]) + 1 - i]]
All(b) == Registry[b]

\* Mutant: the versions of other modules, and of later releases, are an error.
IgnoreMissingUnset == FALSE
IgnoreMissing == TRUE

Find(b, name) == {i \in DOMAIN All(b) : All(b)[i].name = name}

\* What a process is to migrate: `server migrate <module>` one module, the others all.
Scope(l) == IF l.command = "migrate" /\ l.module # None THEN Find(l.release, l.module)
            ELSE DOMAIN All(l.release)

Versions(l, i) == All(l.release)[i].versions

------------------------------------------------------------------------------

ASSUME ConstantsAssumption ==
    /\ None \notin Replica \cup Launch
    /\ \A b \in DOMAIN Registry :
          Registry[b] \in Seq([name : Module, versions : SUBSET Nat])
    /\ \A l \in Launch : l.release \in DOMAIN Registry
    /\ "10" \in DOMAIN Numeral /\ Numeral["10"] = 10

\* Versions are unique across modules (a test of database/migrations.rs).
ASSUME VersionsAssumption ==
    \A b \in DOMAIN Registry : \A i, j \in DOMAIN Registry[b] :
        i # j => Registry[b][i].versions \cap Registry[b][j].versions = {}

\* Where a process can stand.  It holds the lock at the last two of Migrating.
Migrating == {"lock", "list", "apply"}
Starting == {"load", "dispatch", "connect", "bind", "exit"} \cup Migrating
Serving == {"serving", "draining"}
Ended == {"down", "done", "misconfigured", "failed", "conflict"}

Goto(r, step) == pc' = [pc EXCEPT ![r] = step]

\* Mutant: the lock outlives the process.
ReleaseNone(r) == UNCHANGED lock
\* The lock of a process that ends goes with its connection.
Release(r) == lock' = IF lock = r THEN None ELSE lock

\* A process ends; an open transaction is rolled back.
End(r, how) ==
    /\ Goto(r, how)
    /\ Release(r)
    /\ launch' = [launch EXCEPT ![r] = IF how = "done" THEN @ ELSE None]
    /\ config' = [config EXCEPT ![r] = None]
    /\ todo' = [todo EXCEPT ![r] = {}]
    /\ module' = [module EXCEPT ![r] = 0]
    /\ plan' = [plan EXCEPT ![r] = {}]
    /\ UNCHANGED <<ledger, up>>

------------------------------------------------------------------------------
(* main, Provider::inject_default *)

\* A process is started, again perhaps, and as something else perhaps.
Start(r, l) ==
    /\ pc[r] \in Ended
    /\ Goto(r, "load")
    /\ launch' = [launch EXCEPT ![r] = l]
    /\ pending' = [pending EXCEPT ![r] = {}]
    /\ UNCHANGED <<config, todo, module, plan, database, up>>

LoadConfig(r) ==
    /\ pc[r] = "load"
    /\ IF Loads(launch[r])
       THEN /\ Goto(r, "dispatch")
            /\ config' = [config EXCEPT ![r] = Load(launch[r])]
            /\ UNCHANGED <<launch, todo, module, plan, database, up>>
       ELSE End(r, "misconfigured")
    /\ UNCHANGED pending

\* The logger is there, and the command is known.
Dispatch(r) ==
    /\ pc[r] = "dispatch"
    /\ IF launch[r].command \in {"serve", "migrate"}
       THEN Goto(r, "connect") /\ UNCHANGED <<startup, database, up>>
       ELSE End(r, "failed")
    /\ UNCHANGED pending

\* Mutant: the first module of the registry only.
AfterConnectFirst(r) ==
    IF launch[r].command = "serve" /\ ~RunMigrations(r) THEN {} ELSE Scope(launch[r]) \cap {1}
\* What is to be migrated once there is a pool.
AfterConnect(r) ==
    IF launch[r].command = "serve" /\ ~RunMigrations(r) THEN {} ELSE Scope(launch[r])

\* Where a process goes with nothing left to migrate.
Migrated(r) == IF launch[r].command = "serve" THEN "bind" ELSE "exit"

\* Database::connect opens a first connection, which a pool without any never gives.
Connect(r) ==
    /\ pc[r] = "connect" /\ up
    /\ IF MaxConnections(r) = 0 \/ (launch[r].command = "migrate" /\ Scope(launch[r]) = {})
       THEN End(r, "failed")
       ELSE /\ Goto(r, IF AfterConnect(r) = {} THEN Migrated(r) ELSE "lock")
            /\ todo' = [todo EXCEPT ![r] = AfterConnect(r)]
            /\ UNCHANGED <<launch, config, module, plan, database, up>>
    /\ UNCHANGED pending

Bind(r) ==
    /\ pc[r] = "bind"
    /\ Goto(r, "serving")
    /\ UNCHANGED <<startup, pending, database, up>>

\* The migrations are up to date.
Exit(r) == pc[r] = "exit" /\ End(r, "done") /\ UNCHANGED pending

\* What can go wrong on the way for reasons of its own: no log directory, no answer from the
\* database, a migration that fails, a port that is taken.
Fail(r) == pc[r] \in Starting \ {"load", "exit"} /\ End(r, "failed") /\ UNCHANGED pending

------------------------------------------------------------------------------
(* Database::migrate and migrate_module, over Migrator::run *)

\* The next module of the registry, once the advisory lock is free.
Lock(r) ==
    /\ pc[r] = "lock" /\ up
    /\ lock = None /\ lock' = r
    /\ \E i \in todo[r] :
          /\ \A j \in todo[r] : i <= j
          /\ module' = [module EXCEPT ![r] = i]
    /\ Goto(r, "list")
    /\ UNCHANGED <<launch, config, todo, plan, pending, ledger, up>>

\* The run reads the ledger once.
List(r) ==
    LET versions == Versions(launch[r], module[r]) IN
    /\ pc[r] = "list" /\ up
    /\ IF IgnoreMissing \/ ledger \subseteq versions
       THEN /\ Goto(r, "apply")
            /\ plan' = [plan EXCEPT ![r] = versions \ ledger]
            /\ UNCHANGED <<launch, config, todo, module, database, up>>
       ELSE End(r, "conflict")
    /\ UNCHANGED pending

\* One migration and its row: the version is the key of the ledger.
Apply(r) ==
    /\ pc[r] = "apply" /\ up
    /\ \E v \in plan[r] :
          /\ \A w \in plan[r] : v <= w
          /\ IF v \in ledger THEN End(r, "conflict")
             ELSE /\ ledger' = ledger \cup {v}
                  /\ plan' = [plan EXCEPT ![r] = @ \ {v}]
                  /\ UNCHANGED <<pc, launch, config, todo, module, lock, up>>
    /\ UNCHANGED pending

\* Mutant: the connection goes back to the pool with the lock.
UnlockForgotten(r) ==
    /\ pc[r] = "apply" /\ up /\ plan[r] = {}
    /\ todo' = [todo EXCEPT ![r] = @ \ {module[r]}]
    /\ module' = [module EXCEPT ![r] = 0]
    /\ Goto(r, IF todo'[r] = {} THEN Migrated(r) ELSE "lock")
    /\ UNCHANGED <<launch, config, plan, pending, database, up>>

\* The run is over; another replica may come in before the next module.
Unlock(r) ==
    /\ pc[r] = "apply" /\ up /\ plan[r] = {}
    /\ lock' = None
    /\ todo' = [todo EXCEPT ![r] = @ \ {module[r]}]
    /\ module' = [module EXCEPT ![r] = 0]
    /\ Goto(r, IF todo'[r] = {} THEN Migrated(r) ELSE "lock")
    /\ UNCHANGED <<launch, config, plan, pending, ledger, up>>

------------------------------------------------------------------------------
(* server::serve *)

\* Mutant: the listener stays open.
AcceptAlways(r, kind) ==
    /\ pc[r] \in Serving /\ kind \notin pending[r]
    /\ pending' = [pending EXCEPT ![r] = @ \cup {kind}]
    /\ UNCHANGED <<pc, startup, database, up>>

Accept(r, kind) ==
    /\ pc[r] = "serving" /\ kind \notin pending[r]
    /\ pending' = [pending EXCEPT ![r] = @ \cup {kind}]
    /\ UNCHANGED <<pc, startup, database, up>>

Answer(r, kind) ==
    /\ pc[r] \in Serving /\ kind \in pending[r]
    /\ pending' = [pending EXCEPT ![r] = @ \ {kind}]
    /\ UNCHANGED <<pc, startup, database, up>>

\* Mutant: the probe looks whether the database is there.
HealthcheckDeep(r) == up /\ Answer(r, "probe")

\* GET /v1/healthcheck touches no database.
Healthcheck(r) == Answer(r, "probe")

\* Other requests wait for it, or (a connection that breaks, acquire_timeout) are refused.
AnswerQuery(r) == up /\ Answer(r, "query")
RefuseQuery(r) == ~up /\ Answer(r, "query")

\* SIGTERM or Ctrl+C.  Before it serves, no handler is there: the signal is a Crash.
ShutdownSignal(r) ==
    /\ pc[r] = "serving"
    /\ Goto(r, "draining")
    /\ UNCHANGED <<startup, pending, database, up>>

\* axum::serve returns, with_graceful_shutdown, when the last request is answered.
Shutdown(r) ==
    /\ pc[r] = "draining" /\ pending[r] = {}
    /\ End(r, "done")
    /\ UNCHANGED pending

\* The process is killed, at any point.
Crash(r) ==
    /\ pc[r] \in Starting \cup Serving
    /\ End(r, "down")
    /\ pending' = [pending EXCEPT ![r] = {}]

DatabaseFails == up /\ up' = FALSE /\ UNCHANGED <<pc, startup, pending, database>>
DatabaseAnswers == ~up /\ up' = TRUE /\ UNCHANGED <<pc, startup, pending, database>>

------------------------------------------------------------------------------

Init ==
    /\ pc = [r \in Replica |-> "down"]
    /\ launch = [r \in Replica |-> None]
    /\ config = [r \in Replica |-> None]
    /\ todo = [r \in Replica |-> {}]
    /\ module = [r \in Replica |-> 0]
    /\ plan = [r \in Replica |-> {}]
    /\ pending = [r \in Replica |-> {}]
    /\ ledger = {} /\ lock = None
    /\ up = TRUE

Step(r) == LoadConfig(r) \/ Dispatch(r) \/ Connect(r) \/ List(r) \/ Apply(r) \/ Unlock(r)
           \/ Bind(r) \/ Exit(r)

Next ==
    \/ \E r \in Replica :
          \/ \E l \in Launch : Start(r, l)
          \/ Step(r) \/ Lock(r) \/ Fail(r)
          \/ \E kind \in {"probe", "query"} : Accept(r, kind)
          \/ Healthcheck(r) \/ AnswerQuery(r) \/ RefuseQuery(r)
          \/ ShutdownSignal(r) \/ Shutdown(r) \/ Crash(r)
    \/ DatabaseFails \/ DatabaseAnswers

Spec == Init /\ [][Next]_vars

\* The runtime polls every task; PostgreSQL grants the lock in the order it was asked for.
Fairness ==
    \A r \in Replica :
        /\ WF_vars(Step(r)) /\ SF_vars(Lock(r))
        /\ WF_vars(Healthcheck(r)) /\ WF_vars(AnswerQuery(r)) /\ WF_vars(Shutdown(r))

FairSpec == Spec /\ Fairness

------------------------------------------------------------------------------
(* Properties *)

TypeOK ==
    /\ pc \in [Replica -> Starting \cup Serving \cup Ended]
    /\ launch \in [Replica -> Launch \cup {None}]
    /\ \A r \in Replica : config[r] = None \/ DOMAIN config[r] = Key
    /\ \A r \in Replica : \A i \in todo[r] \cup ({module[r]} \ {0}) :
          launch[r] # None /\ i \in DOMAIN All(launch[r].release)
    /\ plan \in [Replica -> SUBSET Nat] /\ ledger \in SUBSET Nat
    /\ pending \in [Replica -> SUBSET {"probe", "query"}]
    /\ lock \in {r \in Replica : pc[r] \in {"list", "apply"}} \cup {None}
    /\ up \in BOOLEAN

\* A process that got past its configuration runs with what it was given: a value that is there
\* and does not parse stopped it, and a secret is there (README.md, "Packages").
RunsAsConfigured ==
    \A r \in Replica : config[r] # None =>
        /\ Given(launch[r], "JWT_SECRET") # None
        /\ \A k \in Key : Given(launch[r], k) # None => config[r][k] = Given(launch[r], k)

\* A replica serves, and `server migrate` succeeds, only when every migration its release carries
\* for what it was to migrate is in the database; only DB_RUN_MIGRATIONS=false excuses it.
ServesMigrated ==
    \A r \in Replica :
        \/ pc[r] \in {"bind"} \cup Serving /\ RunMigrations(r)
        \/ pc[r] = "done" /\ launch[r].command = "migrate"
        => \A i \in Scope(launch[r]) : Versions(launch[r], i) \subseteq ledger

\* Nobody fails to start because of what another process migrates at the same time, or has
\* migrated: neither at a version that was applied twice, nor at one it does not know.
ReplicasStartTogether == \A r \in Replica : pc[r] # "conflict"

\* The ledger grows by one version at a time and never shrinks; whoever applies one has, in the
\* order of its registry and of the versions in each module, everything it is to migrate before it.
AppliesInOrder ==
    [][/\ ledger \subseteq ledger'
       /\ \A v \in ledger' \ ledger : ledger' = ledger \cup {v} /\
             \E r \in Replica : pc[r] = "apply" /\
                LET modules == Registry[launch[r].release] IN
                \E i \in Scope(launch[r]) :
                   /\ v \in modules[i].versions
                   /\ \A w \in modules[i].versions : w < v => w \in ledger
                   /\ \A j \in Scope(launch[r]) : j < i => modules[j].versions \subseteq ledger
      ]_ledger

\* A replica that migrates gets through, or ends, whatever the others do, once the database
\* answers for good.
MigratingEnds == \A r \in Replica : <>[]up => (pc[r] \in Migrating ~> pc[r] \notin Migrating)

\* A replica that was asked to stop does, once the database answers for good.
DrainingEnds == \A r \in Replica : <>[]up => (pc[r] = "draining" ~> pc[r] # "draining")

\* The probe is answered, also while the database does not.
ProbesAreAnswered == \A r \in Replica : "probe" \in pending[r] ~> "probe" \notin pending[r]

==============================================================================
