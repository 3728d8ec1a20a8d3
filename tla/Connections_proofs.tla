-------------------------- MODULE Connections_proofs --------------------------
(***************************************************************************)
(* The schema and the streams of any number of instances, of any releases. *)
(***************************************************************************)
EXTENDS Connections, TLAPS

\* The row of the version is locked by the instance that has read it, and nobody
\* writes it meanwhile.
VersionIsHeld ==
  \A i \in Instances : /\ pc[i] = "locked" <=> migrator = i
                       /\ pc[i] = "locked" => found[i] = dbVersion

\* What an instance has once migrated stays migrated.
SchemaStays ==
  \A i \in Instances : /\ pc[i] = "connected" => initialized[i]
                       /\ initialized[i] => dbVersion >= Release[i]

\* A Streamer has its connection, and the streams have a Streamer.
StreamerIsWhole ==
  \A i \in Instances :
    /\ streamClient[i] /\ pc[i] # "closingStreams" => line[i] \in {"listening", "lost"}
    /\ attached[i] # {} => streamClient[i]
    /\ pc[i] \in {"probing", "taking", "subscribing"} => ~streamClient[i]

IInv == TypeOK /\ VersionIsHeld /\ SchemaStays /\ StreamerIsWhole

\* What one instance does to its own entries leaves those of the others alone.
Step(i) ==
  \/ Proceed(i) \/ Connect(i) \/ Disconnect(i) \/ Restart(i)
  \/ Fail(i) \/ ListenFails(i) \/ MigrationFails(i) \/ Lose(i)
  \/ \E s \in Streams : Attach(i, s) \/ Detach(i, s)

-----------------------------------------------------------------------------
LEMMA IInvInit == Init => IInv
<1> SUFFICES ASSUME Init PROVE IInv
  OBVIOUS
<1>1. TypeOK
  BY DEF Init, TypeOK, Places, Lines
<1>2. VersionIsHeld /\ SchemaStays /\ StreamerIsWhole
  BY ReleaseAssumption DEF Init, VersionIsHeld, SchemaStays, StreamerIsWhole
<1>3. QED
  BY <1>1, <1>2 DEF IInv

LEMMA TypeStep ==
  ASSUME IInv, NEW i \in Instances, Step(i)
  PROVE  TypeOK'
<1> USE ReleaseAssumption DEF IInv, TypeOK, Places, Lines, Goto, schema
<1>1. CASE ReleaseLine(i) \/ CloseStreams(i)
  BY <1>1 DEF ReleaseLine, CloseStreams
<1>9. CASE EndPool(i)
  BY <1>9 DEF EndPool
<1>2. CASE Retry(i) \/ Probe(i) \/ Connect(i) \/ Disconnect(i)
  BY <1>2 DEF Retry, Probe, Connect, Disconnect, Close
<1>3. CASE Take(i) \/ Listen(i) \/ ListenFails(i) \/ Lose(i) \/ Fail(i)
  BY <1>3 DEF Take, Listen, ListenFails, Lose, Fail
<1>4. CASE LockVersion(i) \/ MigrationFails(i)
  BY <1>4 DEF LockVersion, MigrationFails
<1>5. CASE Migrated(i)
  BY <1>5 DEF Migrated
<1>6. CASE Restart(i)
  BY <1>6 DEF Restart
<1>7. ASSUME NEW s \in Streams, Attach(i, s) \/ Detach(i, s) PROVE TypeOK'
  BY <1>7 DEF Attach, Detach
<1>8. QED
  BY <1>1, <1>2, <1>3, <1>4, <1>5, <1>6, <1>7, <1>9 DEF Step, Proceed

\* Only the commit of a migration changes the version, and only to a later one.
LEMMA VersionStep ==
  ASSUME IInv, NEW i \in Instances, Step(i)
  PROVE  /\ dbVersion' >= dbVersion
         /\ dbVersion' # dbVersion => Migrated(i)
<1>1. dbVersion \in Nat /\ Release[i] \in Nat
  BY ReleaseAssumption DEF IInv, TypeOK
<1>2. CASE Migrated(i)
  <2>1. found[i] = dbVersion
    BY <1>2 DEF Migrated, IInv, VersionIsHeld
  <2>2. QED
    BY <1>1, <1>2, <2>1 DEF Migrated, Outdated
<1>3. CASE ~Migrated(i)
  <2>1. dbVersion' = dbVersion
    BY <1>3 DEF Step, Proceed, Connect, Disconnect, Restart, Fail, ListenFails,
       MigrationFails, Lose, Attach, Detach, ReleaseLine, CloseStreams, EndPool, Retry,
       Probe, Take, Listen, LockVersion, Close, schema
  <2>2. QED
    BY <1>1, <2>1
<1>4. QED
  BY <1>2, <1>3

LEMMA VersionIsHeldStep ==
  ASSUME IInv, NEW i \in Instances, Step(i)
  PROVE  VersionIsHeld'
<1> USE ReleaseAssumption DEF IInv, TypeOK, VersionIsHeld, Goto, schema
<1>1. CASE ReleaseLine(i) \/ CloseStreams(i)
  BY <1>1 DEF ReleaseLine, CloseStreams
<1>2. CASE EndPool(i)
  BY <1>2 DEF EndPool
<1>3. CASE Retry(i) \/ Probe(i) \/ Connect(i) \/ Disconnect(i)
  BY <1>3 DEF Retry, Probe, Connect, Disconnect, Close
<1>4. CASE Take(i) \/ Listen(i) \/ ListenFails(i) \/ Lose(i) \/ Fail(i)
  BY <1>4 DEF Take, Listen, ListenFails, Lose, Fail
<1>5. CASE LockVersion(i) \/ MigrationFails(i)
  BY <1>5 DEF LockVersion, MigrationFails
<1>6. CASE Migrated(i)
  BY <1>6 DEF Migrated
<1>7. CASE Restart(i)
  BY <1>7 DEF Restart
<1>8. ASSUME NEW s \in Streams, Attach(i, s) \/ Detach(i, s) PROVE VersionIsHeld'
  BY <1>8 DEF Attach, Detach
<1>9. QED
  BY <1>1, <1>2, <1>3, <1>4, <1>5, <1>6, <1>7, <1>8 DEF Step, Proceed

LEMMA SchemaStaysStep ==
  ASSUME IInv, NEW i \in Instances, Step(i)
  PROVE  SchemaStays'
<1>1. \A j \in Instances : dbVersion >= Release[j] => dbVersion' >= Release[j]
  <2>1. dbVersion' \in Nat
    BY TypeStep DEF TypeOK
  <2>2. dbVersion' >= dbVersion /\ dbVersion \in Nat
    BY VersionStep DEF IInv, TypeOK
  <2>3. \A j \in Instances : Release[j] \in Nat
    BY ReleaseAssumption
  <2>4. QED
    BY <2>1, <2>2, <2>3
<1>2. CASE Migrated(i)
  <2>1. found[i] = dbVersion
    BY <1>2 DEF Migrated, IInv, VersionIsHeld
  <2>2. dbVersion' >= Release[i]
    <3>1. dbVersion \in Nat /\ Release[i] \in Nat
      BY ReleaseAssumption DEF IInv, TypeOK
    <3>2. dbVersion' = IF dbVersion < Release[i] THEN Release[i] ELSE dbVersion
      BY <1>2, <2>1 DEF Migrated, Outdated
    <3>3. QED
      BY <3>1, <3>2
  <2>3. /\ pc' = [pc EXCEPT ![i] = "connected"]
        /\ initialized' = [initialized EXCEPT ![i] = TRUE]
    BY <1>2 DEF Migrated, Goto
  <2>4. ASSUME NEW j \in Instances
        PROVE  /\ pc'[j] = "connected" => initialized'[j]
               /\ initialized'[j] => dbVersion' >= Release[j]
    <3>1. CASE j = i
      BY <2>2, <2>3, <3>1 DEF IInv, TypeOK
    <3>2. CASE j # i
      BY <1>1, <2>3, <3>2 DEF IInv, TypeOK, SchemaStays
    <3>3. QED
      BY <3>1, <3>2
  <2>5. QED
    BY <2>4 DEF SchemaStays
<1> USE DEF IInv, TypeOK, SchemaStays, Goto
<1>3. CASE ReleaseLine(i) \/ CloseStreams(i) \/ EndPool(i)
  BY <1>1, <1>3 DEF ReleaseLine, CloseStreams, EndPool
<1>4. CASE Retry(i) \/ Probe(i) \/ Connect(i) \/ Disconnect(i)
  BY <1>1, <1>4 DEF Retry, Probe, Connect, Disconnect, Close
<1>5. CASE Take(i) \/ Listen(i) \/ ListenFails(i) \/ Lose(i) \/ Fail(i)
  BY <1>1, <1>5 DEF Take, Listen, ListenFails, Lose, Fail
<1>6. CASE LockVersion(i) \/ MigrationFails(i)
  BY <1>1, <1>6 DEF LockVersion, MigrationFails
<1>7. CASE Restart(i)
  BY <1>1, <1>7 DEF Restart
<1>8. ASSUME NEW s \in Streams, Attach(i, s) \/ Detach(i, s) PROVE SchemaStays'
  BY <1>1, <1>8 DEF Attach, Detach
<1>9. QED
  BY <1>2, <1>3, <1>4, <1>5, <1>6, <1>7, <1>8 DEF Step, Proceed

LEMMA StreamerIsWholeStep ==
  ASSUME IInv, NEW i \in Instances, Step(i)
  PROVE  StreamerIsWhole'
<1> USE DEF IInv, TypeOK, StreamerIsWhole, Goto
<1>1. CASE ReleaseLine(i) \/ CloseStreams(i)
  BY <1>1 DEF ReleaseLine, CloseStreams
<1>2. CASE EndPool(i)
  BY <1>2 DEF EndPool
<1>3. CASE Retry(i) \/ Probe(i) \/ Connect(i) \/ Disconnect(i)
  BY <1>3 DEF Retry, Probe, Connect, Disconnect, Close
<1>4. CASE Take(i) \/ Listen(i) \/ ListenFails(i)
  BY <1>4 DEF Take, Listen, ListenFails
<1>5. CASE Lose(i) \/ Fail(i)
  BY <1>5 DEF Lose, Fail
<1>6. CASE LockVersion(i) \/ MigrationFails(i) \/ Migrated(i)
  BY <1>6 DEF LockVersion, MigrationFails, Migrated
<1>7. CASE Restart(i)
  BY <1>7 DEF Restart
<1>8. ASSUME NEW s \in Streams, Attach(i, s) \/ Detach(i, s) PROVE StreamerIsWhole'
  BY <1>8 DEF Attach, Detach
<1>9. QED
  BY <1>1, <1>2, <1>3, <1>4, <1>5, <1>6, <1>7, <1>8 DEF Step, Proceed

LEMMA StutterStep == IInv /\ UNCHANGED vars => IInv'
  BY DEF IInv, TypeOK, VersionIsHeld, SchemaStays, StreamerIsWhole, vars, inst, schema

LEMMA IInvStep == IInv /\ [Next]_vars => IInv'
<1> SUFFICES ASSUME IInv, [Next]_vars PROVE IInv'
  OBVIOUS
<1>1. CASE UNCHANGED vars
  BY <1>1, StutterStep
<1>2. ASSUME NEW i \in Instances, Step(i) PROVE IInv'
  <2>1. TypeOK' /\ VersionIsHeld' /\ SchemaStays' /\ StreamerIsWhole'
    BY <1>2, TypeStep, VersionIsHeldStep, SchemaStaysStep, StreamerIsWholeStep
  <2>2. QED
    BY <2>1 DEF IInv
<1>3. QED
  BY <1>1, <1>2 DEF Next, Step

-----------------------------------------------------------------------------
\* The inductive invariant holds in every reachable state.
THEOREM ConnectionInvariance == Spec => []IInv
  BY IInvInit, IInvStep, PTL DEF Spec

\* Types of what instances and database keep.
THEOREM ConnectionTypeCorrectness == Spec => []TypeOK
  BY ConnectionInvariance, PTL DEF IInv

\* Whoever is connected finds a schema at least as new as its own release.
THEOREM ConnectedSchema == Spec => []ConnectedIsMigrated
<1>1. IInv => ConnectedIsMigrated
  BY DEF IInv, SchemaStays, ConnectedIsMigrated
<1>2. QED
  BY <1>1, ConnectionInvariance, PTL

\* Streams that are not being closed have a Streamer and its connection.
THEOREM FedStreams == Spec => []StreamsAreFed
<1>1. IInv => StreamsAreFed
  BY DEF IInv, StreamerIsWhole, StreamsAreFed
<1>2. QED
  BY <1>1, ConnectionInvariance, PTL

\* No instance takes the schema back to an earlier version.
THEOREM NoDowngrade == Spec => NeverDowngraded
<1>1. IInv /\ [Next]_vars => [dbVersion' >= dbVersion]_vars
  BY VersionStep DEF Next, Step
<1>2. QED
  BY <1>1, ConnectionInvariance, PTL DEF Spec, NeverDowngraded
=============================================================================
