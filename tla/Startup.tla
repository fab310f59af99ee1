------------------------------ MODULE Startup -------------------------------
(***************************************************************************)
(* main of ms-wallet and of ms-users: several instances of each start, end *)
(* and start again over one MongoDB and one Postgres.  ms-wallet creates   *)
(* its indexes one by one; ms-users applies its migration with             *)
(* golang-migrate, which holds an advisory lock of Postgres and marks the  *)
(* version dirty while the migration runs.  Both end at the first error.   *)
(***************************************************************************)
EXTENDS Integers, FiniteSets

CONSTANTS
    WalletInstances, UsersInstances,
    Configured,      \* the instances whose environment is complete
    None,            \* no instance
    FaultyInstances, \* bound: those that may meet an error, a signal or a crash
    MaxStarts        \* bound: how often each instance is started

Instances == WalletInstances \cup UsersInstances

ASSUME InstancesAssumption ==
    /\ WalletInstances \cap UsersInstances = {}
    /\ None \notin Instances
    /\ MaxStarts \in Nat

VARIABLES
    pc,        \* where main of each instance is
    starts,    \* how often each has been started
    cancelled, \* the ms-wallet instances whose NotifyContext is done
    indexes,   \* the indexes of MongoDB
    lock,      \* who holds the advisory lock
    version,   \* schema_migrations: "none", "dirty" or "clean"
    table      \* whether the users table exists

vars == <<pc, starts, cancelled, indexes, lock, version, table>>
mongoVars == <<cancelled, indexes>>
postgresVars == <<lock, version, table>>

Stopped == {"down", "exited"}

Migrating == {"version", "begin", "body", "finish"}

Init ==
    /\ pc = [i \in Instances |-> "down"]
    /\ starts = [i \in Instances |-> 0]
    /\ cancelled = {}
    /\ indexes = {}
    /\ lock = None
    /\ version = "none"
    /\ table = FALSE

Goto(i, label) == pc' = [pc EXCEPT ![i] = label]

\* An error: os.Exit(1), which runs no deferred call.
Exit(i) == Goto(i, "exited")

Fails(i) == i \in FaultyInstances \cup cancelled

-----------------------------------------------------------------------------
(* ms-wallet.                                                              *)

Launch(i, label) ==
    /\ pc[i] \in Stopped
    /\ starts[i] < MaxStarts
    /\ starts' = [starts EXCEPT ![i] = @ + 1]
    /\ Goto(i, label)

\* The environment is looked at before anything is connected to.
StartWallet(i) ==
    /\ i \in WalletInstances
    /\ Launch(i, IF i \in Configured THEN "ping" ELSE "exited")
    /\ cancelled' = cancelled \ {i}
    /\ UNCHANGED <<indexes, postgresVars>>

Ping(i) ==
    /\ pc[i] = "ping"
    /\ \/ i \notin cancelled /\ Goto(i, "idempotency_key")
       \/ Fails(i) /\ Exit(i)
    /\ UNCHANGED <<starts, mongoVars, postgresVars>>

\* The indexes in the order of ensureIndexes, and what main does afterwards.
Indexes == {"idempotency_key", "created_at", "user_id"}

Following == [idempotency_key |-> "created_at", created_at |-> "user_id", user_id |-> "listen"]

\* A mutant: an index that cannot be created is only reported.
EnsureIndexReporting(i) ==
    /\ pc[i] \in Indexes
    /\ Goto(i, Following[pc[i]])
    /\ indexes' = indexes \cup {pc[i]} \/ (Fails(i) /\ UNCHANGED indexes)
    /\ UNCHANGED <<starts, cancelled, postgresVars>>

\* An error may come although the index is created.
EnsureIndex(i) ==
    /\ pc[i] \in Indexes
    /\ \/ /\ i \notin cancelled
          /\ indexes' = indexes \cup {pc[i]}
          /\ Goto(i, Following[pc[i]])
       \/ /\ Fails(i)
          /\ Exit(i)
          /\ indexes' \in {indexes, indexes \cup {pc[i]}}
    /\ UNCHANGED <<starts, cancelled, postgresVars>>

\* The listeners of gRPC and HTTP do not look at the context.
Listen(i) ==
    /\ pc[i] = "listen"
    /\ \/ Goto(i, "serving")
       \/ i \in FaultyInstances /\ Exit(i)
    /\ UNCHANGED <<starts, mongoVars, postgresVars>>

\* SIGINT or SIGTERM: signal.NotifyContext takes it, and nothing but the calls
\* of NewMongoWalletRepository looks at the context.
Signal(i) ==
    /\ i \in WalletInstances \cap FaultyInstances
    /\ pc[i] \notin Stopped
    /\ cancelled' = cancelled \cup {i}
    /\ UNCHANGED <<pc, starts, indexes, postgresVars>>

-----------------------------------------------------------------------------
(* ms-users.                                                               *)

\* POSTGRES_URL is looked at; the rest of the environment only later.
StartUsers(i) ==
    /\ i \in UsersInstances
    /\ Launch(i, "lock")
    /\ UNCHANGED <<mongoVars, postgresVars>>

\* pg_advisory_lock, which golang-migrate gives up on after a while.
AcquireLock(i) ==
    /\ pc[i] = "lock"
    /\ \/ lock = None /\ lock' = i /\ Goto(i, "version")
       \/ i \in FaultyInstances /\ Exit(i) /\ UNCHANGED lock
    /\ UNCHANGED <<starts, mongoVars, version, table>>

\* A mutant: ErrNoChange is an error as well.
AcceptedStrictly(err) == err = "nil"

\* What RunMigrations makes no error of.
Accepted(err) == err \in {"nil", "ErrNoChange"}

\* A mutant: the lock is kept until the process ends.
UpReturnsHolding(i, err) ==
    /\ UNCHANGED lock
    /\ Goto(i, IF Accepted(err) THEN "connect" ELSE "exited")

\* Up returns, the lock released, and main goes on or exits.
UpReturns(i, err) ==
    /\ lock' = None
    /\ Goto(i, IF Accepted(err) THEN "connect" ELSE "exited")

\* The one migration is applied when there is no version yet; a version that
\* was left dirty is an error.
ReadVersion(i) ==
    /\ pc[i] = "version"
    /\ \/ version = "none" /\ Goto(i, "begin") /\ UNCHANGED lock
       \/ version = "clean" /\ UpReturns(i, "ErrNoChange")
       \/ version = "dirty" /\ UpReturns(i, "ErrDirty")
    /\ UNCHANGED <<starts, mongoVars, version, table>>

MarkDirty(i) ==
    /\ pc[i] = "begin"
    /\ version' = "dirty"
    /\ Goto(i, "body")
    /\ UNCHANGED <<starts, mongoVars, lock, table>>

\* A mutant: the migration is not valid SQL.
CreateTableInvalid(i) ==
    /\ pc[i] = "body"
    /\ UpReturns(i, "syntax")
    /\ UNCHANGED <<starts, mongoVars, version, table>>

\* CREATE TABLE users; there is none while there is no version.
CreateTable(i) ==
    /\ pc[i] = "body"
    /\ table' = TRUE
    /\ Goto(i, "finish")
    /\ UNCHANGED <<starts, mongoVars, lock, version>>

MarkClean(i) ==
    /\ pc[i] = "finish"
    /\ version' = "clean"
    /\ UpReturns(i, "nil")
    /\ UNCHANGED <<starts, mongoVars, table>>

\* A statement fails, or only its answer is lost.
MigrationFails(i) ==
    /\ pc[i] \in Migrating
    /\ i \in FaultyInstances
    /\ UpReturns(i, "failed")
    /\ CASE pc[i] = "version" -> UNCHANGED <<version, table>>
         [] pc[i] = "begin" -> version' \in {version, "dirty"} /\ UNCHANGED table
         [] pc[i] = "body" -> table' \in {table, TRUE} /\ UNCHANGED version
         [] pc[i] = "finish" -> version' \in {version, "clean"} /\ UNCHANGED table
    /\ UNCHANGED <<starts, mongoVars>>

\* The pool, Redis, the rest of the environment and the HTTP listener.  The
\* wallet client connects with its first call.
Connect(i) ==
    /\ pc[i] = "connect"
    /\ \/ i \in Configured /\ Goto(i, "serving")
       \/ (i \notin Configured \/ i \in FaultyInstances) /\ Exit(i)
    /\ UNCHANGED <<starts, mongoVars, postgresVars>>

-----------------------------------------------------------------------------
\* The process is killed; Postgres releases the locks of its connections.
Crash(i) ==
    /\ i \in FaultyInstances
    /\ pc[i] \notin Stopped
    /\ Exit(i)
    /\ lock' = IF lock = i THEN None ELSE lock
    /\ UNCHANGED <<starts, mongoVars, version, table>>

Finished ==
    /\ \A i \in Instances : pc[i] = "serving" \/ (pc[i] \in Stopped /\ starts[i] = MaxStarts)
    /\ UNCHANGED vars

Step(i) ==
    \/ Ping(i) \/ EnsureIndex(i) \/ Listen(i)
    \/ AcquireLock(i) \/ ReadVersion(i) \/ MarkDirty(i) \/ CreateTable(i)
    \/ MarkClean(i) \/ MigrationFails(i) \/ Connect(i)

Next ==
    \/ \E i \in Instances : StartWallet(i) \/ StartUsers(i) \/ Step(i) \/ Signal(i) \/ Crash(i)
    \/ Finished

Spec == Init /\ [][Next]_vars

\* A process that runs goes on, also when it waits for the lock: nobody holds
\* it for ever.
FairSpec == Spec /\ \A i \in Instances : WF_vars(Step(i))

-----------------------------------------------------------------------------
\* Type invariant: the shape of the variables; the lock is with the instance
\* that is at the migration, the only one.
TypeOK ==
    /\ pc \in [Instances -> Stopped \cup Indexes \cup Migrating \cup
                            {"ping", "listen", "lock", "connect", "serving"}]
    /\ starts \in [Instances -> 0..MaxStarts]
    /\ cancelled \subseteq WalletInstances
    /\ indexes \subseteq Indexes
    /\ lock \in UsersInstances \cup {None}
    /\ \A i \in UsersInstances : pc[i] \in Migrating <=> lock = i
    /\ version \in {"none", "dirty", "clean"}
    /\ table \in BOOLEAN

\* Nobody serves on a store that is not ready: with every instance that takes
\* requests the unique indexes on keys and wallets are there, and the users
\* table with its migration complete, whoever started, failed or was killed
\* in between.
ServingIsPrepared ==
    \A i \in Instances :
        pc[i] = "serving" =>
            IF i \in WalletInstances THEN indexes = Indexes
                                     ELSE table /\ version = "clean"

\* The migration is only left half done by a fault: a dirty version belongs to
\* the instance that is at it, or to one that failed.
DirtyNeedsFault ==
    version = "dirty" =>
        \E i \in UsersInstances :
            \/ pc[i] \in {"body", "finish"}
            \/ i \in FaultyInstances /\ starts[i] > 0

\* An instance that meets no fault serves, however many others start with it
\* and however they end, unless the version was left dirty.
HealthyStartsServe ==
    \A i \in Configured \ FaultyInstances :
        pc[i] \notin Stopped ~> pc[i] = "serving" \/ version = "dirty"
=============================================================================
