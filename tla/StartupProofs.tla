--------------------------- MODULE StartupProofs ----------------------------
(***************************************************************************)
(* What Startup guarantees for every number of instances of the two        *)
(* services, started any number of times, whichever of them fail.          *)
(***************************************************************************)
EXTENDS Startup, TLAPS

\* Where an instance of either service can be; one that is anywhere was started.
Phases ==
    /\ \A i \in WalletInstances :
          pc[i] \in Stopped \cup Indexes \cup {"ping", "listen", "serving"}
    /\ \A i \in UsersInstances :
          pc[i] \in Stopped \cup Migrating \cup {"lock", "connect", "serving"}
    /\ \A i \in Instances : pc[i] # "down" => starts[i] > 0

\* An instance of ms-wallet has the indexes before the one it is at.
Indexed ==
    \A i \in WalletInstances :
        /\ pc[i] = "created_at" => "idempotency_key" \in indexes
        /\ pc[i] = "user_id" => {"idempotency_key", "created_at"} \subseteq indexes
        /\ pc[i] \in {"listen", "serving"} => indexes = Indexes

\* The version and the table, as the instance that holds the lock knows them
\* and as those after it rely on them.
Migrated ==
    /\ \A i \in UsersInstances :
          /\ pc[i] = "begin" => version = "none"
          /\ pc[i] \in {"body", "finish"} => version = "dirty"
          /\ pc[i] = "finish" => table
          /\ pc[i] \in {"connect", "serving"} => version = "clean"
    /\ version = "clean" => table

IInv == TypeOK /\ Phases /\ Indexed /\ Migrated /\ DirtyNeedsFault

-----------------------------------------------------------------------------
LEMMA InitIInv == Init => IInv
<1> SUFFICES ASSUME Init PROVE IInv
  OBVIOUS
<1>1. \A i \in Instances : pc[i] = "down" /\ starts[i] = 0
  BY DEF Init
<1>2. TypeOK
  <2>1. /\ pc \in [Instances -> Stopped \cup Indexes \cup Migrating \cup
                                {"ping", "listen", "lock", "connect", "serving"}]
        /\ starts \in [Instances -> 0..MaxStarts]
    BY InstancesAssumption DEF Init, Stopped
  <2>2. \A i \in UsersInstances : pc[i] \notin Migrating /\ lock # i
    BY <1>1, InstancesAssumption DEF Init, Migrating, Instances
  <2> QED
    BY <2>1, <2>2 DEF Init, TypeOK
<1>3. Phases /\ Indexed /\ Migrated /\ DirtyNeedsFault
  BY <1>1 DEF Init, Phases, Indexed, Migrated, DirtyNeedsFault, Stopped, Instances
<1> QED
  BY <1>2, <1>3 DEF IInv

-----------------------------------------------------------------------------
(* ms-wallet: its steps leave Postgres and its clients alone.              *)

\* A step of ms-wallet from and to anywhere keeps what is said of ms-users.
LEMMA WalletMoves ==
    ASSUME IInv, NEW i \in WalletInstances,
           NEW label \in Stopped \cup Indexes \cup {"ping", "listen", "serving"},
           Goto(i, label),
           starts' \in [Instances -> 0..MaxStarts], starts'[i] > 0,
           \A j \in Instances \ {i} : starts'[j] = starts[j],
           cancelled' \subseteq WalletInstances, indexes' \subseteq Indexes,
           UNCHANGED postgresVars
    PROVE  TypeOK' /\ Phases' /\ Migrated' /\ DirtyNeedsFault'
<1>1. i \in Instances /\ \A j \in UsersInstances : j \in Instances /\ j # i
  BY InstancesAssumption DEF Instances
<1>2. pc' \in [Instances -> Stopped \cup Indexes \cup Migrating \cup
                            {"ping", "listen", "lock", "connect", "serving"}]
  BY DEF IInv, TypeOK, Goto
<1>3. \A j \in Instances : pc'[j] = IF j = i THEN label ELSE pc[j]
  BY DEF IInv, TypeOK, Goto
<1>4. TypeOK'
  BY <1>1, <1>2, <1>3 DEF IInv, TypeOK, postgresVars
<1>5. Phases'
  BY <1>1, <1>3 DEF IInv, Phases, Instances
<1>6. Migrated'
  BY <1>1, <1>3 DEF IInv, Migrated, postgresVars
<1>7. DirtyNeedsFault'
  BY <1>1, <1>3 DEF IInv, DirtyNeedsFault, postgresVars
<1> QED
  BY <1>4, <1>5, <1>6, <1>7

\* Where an instance of neither service is in the hands of the other.
LEMMA Sides ==
    ASSUME IInv, NEW i \in Instances
    PROVE  /\ pc[i] \in Indexes \cup {"ping", "listen"} => i \in WalletInstances
           /\ pc[i] \in Migrating \cup {"lock", "connect"} => i \in UsersInstances
           /\ i \in WalletInstances <=> i \notin UsersInstances
  BY InstancesAssumption DEF IInv, Phases, Instances, Indexes, Migrating, Stopped

LEMMA StartWalletKeepsIInv ==
    ASSUME IInv, NEW i \in Instances, StartWallet(i)
    PROVE  IInv'
<1>1. i \in WalletInstances
  BY DEF StartWallet
<1>2. PICK label \in {"ping", "exited"} : Goto(i, label)
  BY DEF StartWallet, Launch
<1>3. /\ starts' = [starts EXCEPT ![i] = @ + 1]
      /\ starts[i] < MaxStarts /\ starts[i] \in 0..MaxStarts /\ MaxStarts \in Nat
  BY InstancesAssumption DEF StartWallet, Launch, IInv, TypeOK
<1>4. /\ starts' \in [Instances -> 0..MaxStarts] /\ starts'[i] > 0
      /\ \A j \in Instances \ {i} : starts'[j] = starts[j]
  BY <1>3 DEF IInv, TypeOK
<1>5. TypeOK' /\ Phases' /\ Migrated' /\ DirtyNeedsFault'
  <2>1. cancelled' \subseteq WalletInstances /\ indexes' \subseteq Indexes
    BY DEF StartWallet, IInv, TypeOK
  <2>2. label \in Stopped \cup Indexes \cup {"ping", "listen", "serving"}
    BY <1>2 DEF Stopped
  <2>3. UNCHANGED postgresVars
    BY DEF StartWallet
  <2> QED
    BY <1>1, <1>2, <1>4, <2>1, <2>2, <2>3, WalletMoves
<1>6. Indexed'
  <2>1. \A j \in Instances : pc'[j] = IF j = i THEN label ELSE pc[j]
    BY <1>2 DEF IInv, TypeOK, Goto
  <2>2. UNCHANGED indexes
    BY DEF StartWallet
  <2> QED
    BY <1>2, <2>1, <2>2 DEF IInv, Indexed, Instances
<1> QED
  BY <1>5, <1>6 DEF IInv

\* Ping, EnsureIndex and Listen go from one label to another.
LEMMA WalletStepKeepsIInv ==
    ASSUME IInv, NEW i \in Instances, Ping(i) \/ EnsureIndex(i) \/ Listen(i)
    PROVE  IInv'
<1>1. pc[i] \in Indexes \cup {"ping", "listen"} /\ i \in WalletInstances
  BY Sides DEF Ping, EnsureIndex, Listen
<1>2. /\ UNCHANGED <<starts, cancelled, postgresVars>>
      /\ indexes' \in {indexes, indexes \cup {pc[i]}} /\ indexes' \subseteq Indexes
      /\ indexes \subseteq indexes'
  <2>1. indexes \subseteq Indexes
    BY DEF IInv, TypeOK
  <2> QED
    BY <2>1 DEF Ping, EnsureIndex, Listen, mongoVars
<1>3. PICK label \in Stopped \cup Indexes \cup {"ping", "listen", "serving"} :
        /\ Goto(i, label)
        /\ \/ label = "exited"
           \/ pc[i] = "ping" /\ label = "idempotency_key"
           \/ pc[i] \in Indexes /\ label = Following[pc[i]] /\ indexes' = indexes \cup {pc[i]}
           \/ pc[i] = "listen" /\ label = "serving"
  BY DEF Ping, EnsureIndex, Listen, Exit, Stopped, Indexes, Following
<1>4. TypeOK' /\ Phases' /\ Migrated' /\ DirtyNeedsFault'
  <2>1. /\ starts' \in [Instances -> 0..MaxStarts] /\ starts'[i] > 0
        /\ \A j \in Instances \ {i} : starts'[j] = starts[j]
    BY <1>1, <1>2 DEF IInv, TypeOK, Phases, Indexes
  <2>2. cancelled' \subseteq WalletInstances
    BY <1>2 DEF IInv, TypeOK
  <2> QED
    BY <1>1, <1>2, <1>3, <2>1, <2>2, WalletMoves
<1>5. Indexed'
  <2>1. \A j \in Instances : pc'[j] = IF j = i THEN label ELSE pc[j]
    BY <1>3 DEF IInv, TypeOK, Goto
  <2>2. ASSUME NEW j \in WalletInstances, j # i
        PROVE  /\ pc'[j] = "created_at" => "idempotency_key" \in indexes'
               /\ pc'[j] = "user_id" => {"idempotency_key", "created_at"} \subseteq indexes'
               /\ pc'[j] \in {"listen", "serving"} => indexes' = Indexes
    BY <1>2, <2>1, <2>2 DEF IInv, Indexed, Instances
  <2>3. /\ pc'[i] = "created_at" => "idempotency_key" \in indexes'
        /\ pc'[i] = "user_id" => {"idempotency_key", "created_at"} \subseteq indexes'
        /\ pc'[i] \in {"listen", "serving"} => indexes' = Indexes
    <3>1. pc'[i] = label
      BY <1>1, <2>1 DEF Instances
    <3>2. CASE pc[i] \in Indexes /\ label = Following[pc[i]] /\ indexes' = indexes \cup {pc[i]}
      <4>1. CASE pc[i] = "idempotency_key"
        BY <3>1, <3>2, <4>1 DEF Following
      <4>2. CASE pc[i] = "created_at"
        BY <1>1, <3>1, <3>2, <4>2 DEF IInv, Indexed, Following
      <4>3. CASE pc[i] = "user_id"
        <5>1. {"idempotency_key", "created_at"} \subseteq indexes
          BY <1>1, <4>3 DEF IInv, Indexed
        <5> QED
          BY <1>2, <3>1, <3>2, <4>3, <5>1 DEF Indexes, Following
      <4> QED
        BY <3>2, <4>1, <4>2, <4>3 DEF Indexes
    <3>3. CASE pc[i] = "listen" /\ label = "serving"
      BY <1>1, <1>2, <3>1, <3>3 DEF IInv, Indexed, Indexes
    <3>4. CASE label \in {"exited", "idempotency_key"}
      BY <3>1, <3>4
    <3> QED
      BY <1>3, <3>2, <3>3, <3>4
  <2> QED
    BY <2>2, <2>3 DEF Indexed
<1> QED
  BY <1>4, <1>5 DEF IInv

LEMMA SignalKeepsIInv ==
    ASSUME IInv, NEW i \in Instances, Signal(i)
    PROVE  IInv'
<1>1. cancelled' \subseteq WalletInstances /\ UNCHANGED <<pc, starts, indexes, postgresVars>>
  BY DEF Signal, IInv, TypeOK
<1>2. TypeOK'
  BY <1>1 DEF IInv, TypeOK, postgresVars
<1>3. Phases' /\ Indexed' /\ Migrated' /\ DirtyNeedsFault'
  BY <1>1 DEF IInv, Phases, Indexed, Migrated, DirtyNeedsFault, postgresVars
<1> QED
  BY <1>2, <1>3 DEF IInv

-----------------------------------------------------------------------------
(* ms-users.                                                               *)

\* A step of ms-users keeps what is said of ms-wallet, and the lock with the
\* instance that is at the migration.
LEMMA UsersMoves ==
    ASSUME IInv, NEW i \in UsersInstances,
           NEW label \in Stopped \cup Migrating \cup {"lock", "connect", "serving"},
           Goto(i, label),
           starts' \in [Instances -> 0..MaxStarts], starts'[i] > 0,
           \A j \in Instances \ {i} : starts'[j] = starts[j],
           UNCHANGED mongoVars,
           lock' \in {lock, i, None}, label \in Migrating <=> lock' = i,
           lock' # lock => lock \in {i, None},
           version' \in {"none", "dirty", "clean"}, table' \in BOOLEAN
    PROVE  TypeOK' /\ Phases' /\ Indexed'
<1>1. /\ i \in Instances /\ i \notin WalletInstances /\ i # None
      /\ \A j \in WalletInstances : j \in Instances /\ j # i
      /\ \A j \in UsersInstances : j \in Instances /\ j # None
  BY InstancesAssumption DEF Instances
<1>2. pc' \in [Instances -> Stopped \cup Indexes \cup Migrating \cup
                            {"ping", "listen", "lock", "connect", "serving"}]
  BY DEF IInv, TypeOK, Goto
<1>3. \A j \in Instances : pc'[j] = IF j = i THEN label ELSE pc[j]
  BY DEF IInv, TypeOK, Goto
<1>4. \A j \in UsersInstances : pc'[j] \in Migrating <=> lock' = j
  BY <1>1, <1>3 DEF IInv, TypeOK
<1>5. TypeOK'
  BY <1>1, <1>2, <1>4 DEF IInv, TypeOK, mongoVars
<1>6. Phases'
  BY <1>1, <1>3 DEF IInv, Phases, Instances
<1>7. Indexed'
  BY <1>1, <1>3 DEF IInv, Indexed, mongoVars
<1> QED
  BY <1>5, <1>6, <1>7

LEMMA StartUsersKeepsIInv ==
    ASSUME IInv, NEW i \in Instances, StartUsers(i)
    PROVE  IInv'
<1>1. i \in UsersInstances /\ Goto(i, "lock") /\ UNCHANGED <<mongoVars, postgresVars>>
  BY DEF StartUsers, Launch
<1>2. /\ starts' = [starts EXCEPT ![i] = @ + 1] /\ pc[i] \in Stopped
      /\ starts[i] < MaxStarts /\ starts[i] \in 0..MaxStarts /\ MaxStarts \in Nat
  BY InstancesAssumption DEF StartUsers, Launch, IInv, TypeOK
<1>3. /\ starts' \in [Instances -> 0..MaxStarts] /\ starts'[i] > 0
      /\ \A j \in Instances \ {i} : starts'[j] = starts[j]
  BY <1>2 DEF IInv, TypeOK
<1>4. TypeOK' /\ Phases' /\ Indexed'
  <2>1. lock # i
    BY <1>1, <1>2 DEF IInv, TypeOK, Stopped, Migrating
  <2> QED
    BY <1>1, <1>3, <2>1, UsersMoves DEF IInv, TypeOK, Migrating, postgresVars
<1>5. \A j \in Instances : pc'[j] = IF j = i THEN "lock" ELSE pc[j]
  BY <1>1 DEF IInv, TypeOK, Goto
<1>6. Migrated'
  BY <1>1, <1>5 DEF IInv, Migrated, postgresVars, Instances
<1>7. DirtyNeedsFault'
  BY <1>1, <1>2, <1>3, <1>5 DEF IInv, DirtyNeedsFault, postgresVars, Stopped, Instances
<1> QED
  BY <1>4, <1>6, <1>7 DEF IInv

\* Waiting for the lock, and what comes after the migration.
LEMMA OutsideKeepsIInv ==
    ASSUME IInv, NEW i \in Instances, AcquireLock(i) \/ Connect(i)
    PROVE  IInv'
<1>1. /\ pc[i] \in {"lock", "connect"} /\ i \in UsersInstances
      /\ UNCHANGED <<starts, mongoVars, version, table>>
  BY Sides DEF AcquireLock, Connect, mongoVars, postgresVars
<1>2. lock # i
  BY <1>1 DEF IInv, TypeOK, Migrating
<1>3. PICK label \in {"version", "serving", "exited"} :
        /\ Goto(i, label)
        /\ label = "version" => lock = None /\ lock' = i
        /\ label # "version" => lock' = lock
        /\ label = "serving" => pc[i] = "connect"
  BY DEF AcquireLock, Connect, Exit, postgresVars
<1>4. /\ starts' \in [Instances -> 0..MaxStarts] /\ starts'[i] > 0
      /\ \A j \in Instances \ {i} : starts'[j] = starts[j]
  BY <1>1 DEF IInv, TypeOK, Phases
<1>5. TypeOK' /\ Phases' /\ Indexed'
  <2>1. label \in Stopped \cup Migrating \cup {"lock", "connect", "serving"}
    BY <1>3 DEF Stopped, Migrating
  <2>2. lock' \in {lock, i, None} /\ (lock' # lock => lock \in {i, None})
    BY <1>3
  <2>3. label \in Migrating <=> lock' = i
    BY <1>2, <1>3 DEF Migrating
  <2>4. version' \in {"none", "dirty", "clean"} /\ table' \in BOOLEAN
    BY <1>1 DEF IInv, TypeOK
  <2> QED
    BY <1>1, <1>3, <1>4, <2>1, <2>2, <2>3, <2>4, UsersMoves
<1>6. \A j \in Instances : pc'[j] = IF j = i THEN label ELSE pc[j]
  BY <1>3 DEF IInv, TypeOK, Goto
<1>7. Migrated'
  BY <1>1, <1>3, <1>6 DEF IInv, Migrated, Instances
<1>8. DirtyNeedsFault'
  BY <1>1, <1>6 DEF IInv, DirtyNeedsFault, Instances
<1> QED
  BY <1>5, <1>7, <1>8 DEF IInv

\* The instance that holds the lock is the only one the migration can be of.
LEMMA Alone ==
    ASSUME IInv, NEW i \in UsersInstances, pc[i] \in Migrating
    PROVE  \A j \in UsersInstances \ {i} : pc[j] \notin Migrating
  BY DEF IInv, TypeOK

LEMMA MigrationKeepsIInv ==
    ASSUME IInv, NEW i \in Instances,
           ReadVersion(i) \/ MarkDirty(i) \/ CreateTable(i) \/ MarkClean(i) \/ MigrationFails(i)
    PROVE  IInv'
<1>1. pc[i] \in Migrating /\ i \in UsersInstances /\ UNCHANGED <<starts, mongoVars>>
  BY Sides DEF ReadVersion, MarkDirty, CreateTable, MarkClean, MigrationFails, Migrating
<1>2. lock = i /\ i # None /\ \A j \in UsersInstances \ {i} : pc[j] \notin Migrating
  BY <1>1, Alone, InstancesAssumption DEF IInv, TypeOK, Instances
<1>3. /\ pc[i] = "begin" => version = "none"
      /\ pc[i] \in {"body", "finish"} => version = "dirty"
      /\ pc[i] = "finish" => table
      /\ version = "clean" => table
      /\ version \in {"none", "dirty", "clean"} /\ table \in BOOLEAN
  BY <1>1 DEF IInv, Migrated, TypeOK
\* What each of them does to the instance, the lock, the version and the table.
<1> DEFINE
      Ready == version' = "clean" /\ table'
      Known(label) ==
        /\ label = "begin" => version' = "none"
        /\ label \in {"body", "finish"} => version' = "dirty"
        /\ label = "finish" => table'
        /\ label = "connect" => Ready
      Moved(label) ==
        /\ Goto(i, label)
        /\ IF label \in Migrating THEN lock' = lock ELSE lock' = None
        /\ Known(label)
        /\ version' = "clean" => table'
        /\ version = "clean" => Ready
        /\ version' = "dirty" =>
              \/ label \in {"body", "finish"}
              \/ version = "dirty" /\ pc[i] = "version"
              \/ i \in FaultyInstances
        /\ version' \in {"none", "dirty", "clean"} /\ table' \in BOOLEAN
      Labels == {"begin", "body", "finish", "connect", "exited"}
<1>4. PICK label \in Labels : Moved(label)
  <2>1. CASE ReadVersion(i)
    <3>1. UNCHANGED <<version, table>> /\ pc[i] = "version"
      BY <2>1 DEF ReadVersion
    <3>2. CASE version = "none" /\ Goto(i, "begin") /\ UNCHANGED lock
      <4>1. Moved("begin")
        BY <1>3, <3>1, <3>2 DEF Migrating
      <4> QED
        BY <4>1
    <3>3. CASE version = "clean" /\ UpReturns(i, "ErrNoChange")
      <4>1. Goto(i, "connect") /\ lock' = None
        BY <3>3 DEF UpReturns, Accepted
      <4>2. Moved("connect")
        BY <1>3, <3>1, <3>3, <4>1 DEF Migrating
      <4> QED
        BY <4>2
    <3>4. CASE version = "dirty" /\ UpReturns(i, "ErrDirty")
      <4>1. Goto(i, "exited") /\ lock' = None
        BY <3>4 DEF UpReturns, Accepted
      <4>2. Moved("exited")
        BY <1>3, <3>1, <3>4, <4>1 DEF Migrating
      <4> QED
        BY <4>2
    <3> QED
      BY <2>1, <3>2, <3>3, <3>4 DEF ReadVersion
  <2>2. CASE MarkDirty(i)
    <3>1. Moved("body")
      BY <1>3, <2>2 DEF MarkDirty, Migrating
    <3> QED
      BY <3>1
  <2>3. CASE CreateTable(i)
    <3>1. Moved("finish")
      BY <1>3, <2>3 DEF CreateTable, Migrating
    <3> QED
      BY <3>1
  <2>4. CASE MarkClean(i)
    <3>1. Goto(i, "connect") /\ lock' = None
      BY <2>4 DEF MarkClean, UpReturns, Accepted
    <3>2. Moved("connect")
      BY <1>3, <2>4, <3>1 DEF MarkClean, Migrating
    <3> QED
      BY <3>2
  <2>5. CASE MigrationFails(i)
    <3>1. Goto(i, "exited") /\ lock' = None
      BY <2>5 DEF MigrationFails, UpReturns, Accepted
    <3>2. i \in FaultyInstances
      BY <2>5 DEF MigrationFails
    <3>3. \/ pc[i] = "version" /\ UNCHANGED <<version, table>>
          \/ pc[i] = "begin" /\ version' \in {version, "dirty"} /\ UNCHANGED table
          \/ pc[i] = "body" /\ table' \in {table, TRUE} /\ UNCHANGED version
          \/ pc[i] = "finish" /\ version' \in {version, "clean"} /\ UNCHANGED table
      BY <2>5 DEF MigrationFails, Migrating
    <3>4. Moved("exited")
      BY <1>3, <3>1, <3>2, <3>3 DEF Migrating
    <3> QED
      BY <3>4
  <2> QED
    BY <2>1, <2>2, <2>3, <2>4, <2>5
<1>5. /\ starts' \in [Instances -> 0..MaxStarts] /\ starts'[i] > 0
      /\ \A j \in Instances \ {i} : starts'[j] = starts[j]
  BY <1>1 DEF IInv, TypeOK, Phases, Migrating
<1>6. TypeOK' /\ Phases' /\ Indexed'
  <2>1. label \in Stopped \cup Migrating \cup {"lock", "connect", "serving"}
    BY <1>4 DEF Stopped, Migrating
  <2>2. lock' \in {lock, i, None} /\ (label \in Migrating <=> lock' = i)
    BY <1>2, <1>4
  <2> QED
    BY <1>1, <1>2, <1>4, <1>5, <2>1, <2>2, UsersMoves
<1>7. \A j \in Instances : pc'[j] = IF j = i THEN label ELSE pc[j]
  BY <1>4 DEF IInv, TypeOK, Goto
<1>8. Migrated'
  <2>1. ASSUME NEW j \in UsersInstances, j # i
        PROVE  /\ pc'[j] \notin Migrating
               /\ pc'[j] \in {"connect", "serving"} => version' = "clean"
    BY <1>2, <1>4, <1>7, <2>1 DEF IInv, Migrated, Instances
  <2>2. ASSUME NEW j \in UsersInstances
        PROVE  /\ pc'[j] = "begin" => version' = "none"
               /\ pc'[j] \in {"body", "finish"} => version' = "dirty"
               /\ pc'[j] = "finish" => table'
               /\ pc'[j] \in {"connect", "serving"} => version' = "clean"
    BY <1>4, <1>7, <2>1 DEF Migrating, Instances
  <2> QED
    BY <1>4, <2>2 DEF Migrated
<1>9. DirtyNeedsFault'
  <2> SUFFICES ASSUME version' = "dirty"
               PROVE  \E j \in UsersInstances :
                         \/ pc'[j] \in {"body", "finish"}
                         \/ j \in FaultyInstances /\ starts'[j] > 0
    BY DEF DirtyNeedsFault
  <2>1. CASE label \in {"body", "finish"} \/ i \in FaultyInstances
    BY <1>1, <1>5, <1>7, <2>1 DEF Instances
  <2>2. CASE version = "dirty" /\ pc[i] = "version"
    <3>1. PICK j \in UsersInstances :
            pc[j] \in {"body", "finish"} \/ (j \in FaultyInstances /\ starts[j] > 0)
      BY <2>2 DEF IInv, DirtyNeedsFault
    <3>2. j \in FaultyInstances /\ starts[j] > 0
      BY <1>2, <2>2, <3>1 DEF Migrating
    <3> QED
      BY <1>1, <3>1, <3>2
  <2> QED
    BY <1>4, <2>1, <2>2
<1> QED
  BY <1>6, <1>8, <1>9 DEF IInv

-----------------------------------------------------------------------------
LEMMA CrashKeepsIInv ==
    ASSUME IInv, NEW i \in Instances, Crash(i)
    PROVE  IInv'
<1>1. /\ Goto(i, "exited") /\ i \in FaultyInstances /\ pc[i] \notin Stopped
      /\ lock' = IF lock = i THEN None ELSE lock
      /\ UNCHANGED <<starts, cancelled, indexes, version, table>>
  BY DEF Crash, Exit, mongoVars
<1>2. \A j \in Instances : pc'[j] = IF j = i THEN "exited" ELSE pc[j]
  BY <1>1 DEF IInv, TypeOK, Goto
<1>3. starts[i] > 0 /\ \A j \in UsersInstances : j \in Instances /\ j # None
  BY <1>1, InstancesAssumption DEF IInv, Phases, Stopped, Instances
<1>4. TypeOK'
  <2>1. pc' \in [Instances -> Stopped \cup Indexes \cup Migrating \cup
                              {"ping", "listen", "lock", "connect", "serving"}]
    BY <1>1 DEF IInv, TypeOK, Goto, Stopped
  <2>2. \A j \in UsersInstances : pc'[j] \in Migrating <=> lock' = j
    BY <1>1, <1>2, <1>3 DEF IInv, TypeOK, Migrating
  <2> QED
    BY <1>1, <2>1, <2>2 DEF IInv, TypeOK
<1>5. Phases' /\ Indexed'
  BY <1>1, <1>2, <1>3 DEF IInv, Phases, Indexed, Stopped, Instances
<1>6. Migrated'
  BY <1>1, <1>2, <1>3 DEF IInv, Migrated
<1>7. DirtyNeedsFault'
  <2> SUFFICES ASSUME version = "dirty"
               PROVE  \E j \in UsersInstances :
                         \/ pc'[j] \in {"body", "finish"}
                         \/ j \in FaultyInstances /\ starts[j] > 0
    BY <1>1 DEF DirtyNeedsFault
  <2>1. PICK j \in UsersInstances :
          pc[j] \in {"body", "finish"} \/ (j \in FaultyInstances /\ starts[j] > 0)
    BY DEF IInv, DirtyNeedsFault
  <2>2. j = i => j \in FaultyInstances /\ starts[j] > 0
    BY <1>1, <1>3
  <2>3. j # i => pc'[j] = pc[j]
    BY <1>2, <1>3
  <2> QED
    BY <2>1, <2>2, <2>3
<1> QED
  BY <1>4, <1>5, <1>6, <1>7 DEF IInv

LEMMA NextIInv == IInv /\ [Next]_vars => IInv'
<1> SUFFICES ASSUME IInv, [Next]_vars PROVE IInv'
  OBVIOUS
<1>1. CASE UNCHANGED vars
  BY <1>1 DEF vars, IInv, TypeOK, Phases, Indexed, Migrated, DirtyNeedsFault
<1>2. ASSUME NEW i \in Instances,
             StartWallet(i) \/ StartUsers(i) \/ Step(i) \/ Signal(i) \/ Crash(i)
      PROVE  IInv'
  BY <1>2, StartWalletKeepsIInv, StartUsersKeepsIInv, WalletStepKeepsIInv,
     OutsideKeepsIInv, MigrationKeepsIInv, SignalKeepsIInv, CrashKeepsIInv DEF Step
<1> QED
  BY <1>1, <1>2 DEF Next, Finished

LEMMA Inductive == Spec => []IInv
<1> QED
  BY InitIInv, NextIInv, PTL DEF Spec

\* The lock is with the one instance that is at the migration, whichever end.
THEOREM TypeCorrect == Spec => []TypeOK
<1>1. IInv => TypeOK
  BY DEF IInv
<1> QED
  BY <1>1, Inductive, PTL

\* Nobody takes requests without the indexes, the table and the migration.
THEOREM Prepared == Spec => []ServingIsPrepared
<1>1. IInv => ServingIsPrepared
  BY InstancesAssumption DEF IInv, Indexed, Migrated, ServingIsPrepared, Instances
<1> QED
  BY <1>1, Inductive, PTL

\* Only an instance that failed leaves the version dirty.
THEOREM DirtyByFault == Spec => []DirtyNeedsFault
<1>1. IInv => DirtyNeedsFault
  BY DEF IInv
<1> QED
  BY <1>1, Inductive, PTL
=============================================================================
