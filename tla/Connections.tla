----------------------------- MODULE Connections -----------------------------
(***************************************************************************)
(* How instances of the backend connect to the database and leave it:      *)
(* PostgresBackend.connect and disconnect (index.ts), the connection that  *)
(* the Streamer keeps to listen on (streams.ts, context.ts), and the       *)
(* schema migrations that the first of several instances runs.             *)
(*                                                                         *)
(* Of the connection pool, a library, the model has what matters here: a   *)
(* pool ends only when every connection taken from it has been released.   *)
(***************************************************************************)
EXTENDS Naturals

CONSTANTS
  Instances,      \* processes on the same database
  Streams,        \* streams that clients may attach to an instance
  Release,        \* the release of AutumnDB that each instance runs, coreVersion
  None            \* nobody

ASSUME ReleaseAssumption ==
  /\ Release \in [Instances -> Nat \ {0}]
  /\ None \notin Instances

VARIABLES
  pc,           \* how far connect or disconnect has got
  goal,         \* where it goes on when the pool has ended
  line,         \* the listening connection, as the pool and the Streamer see it
  streamClient, \* whether the instance has a Streamer
  attached,     \* the streams registered with it
  initialized,  \* hasInitializedOnce
  found,        \* the version that the instance read before it migrates
  dbVersion,    \* the version in the migrations table, 0 for '0.0.0'
  migrator      \* the transaction that holds the row of that version

inst == <<pc, goal, line, streamClient, attached, initialized, found>>
schema == <<dbVersion, migrator>>
vars == <<inst, schema>>

\* idle; closing the Streamer and the pool; closing the streams meanwhile; probing
\* the default database; taking a connection to listen on; subscribing with it;
\* migrating, before and after the row of the version is locked; connected; sleeping
\* before the next attempt.
Places == {"idle", "closing", "closingStreams", "probing", "taking", "subscribing",
           "migrating", "locked", "connected", "sleeping"}

\* none; taken from the pool; listening; lost, the database ended it while it
\* listened; leaked, taken and known to nobody.
Lines == {"none", "taken", "listening", "lost", "leaked"}

TypeOK ==
  /\ pc \in [Instances -> Places]
  /\ goal \in [Instances -> {"idle", "probing", "taking"}]
  /\ line \in [Instances -> Lines]
  /\ streamClient \in [Instances -> BOOLEAN]
  /\ attached \in [Instances -> SUBSET Streams]
  /\ initialized \in [Instances -> BOOLEAN]
  /\ found \in [Instances -> Nat]
  /\ dbVersion \in Nat
  /\ migrator \in Instances \cup {None}

Init ==
  /\ pc = [i \in Instances |-> "idle"]
  /\ goal = [i \in Instances |-> "idle"]
  /\ line = [i \in Instances |-> "none"]
  /\ streamClient = [i \in Instances |-> FALSE]
  /\ attached = [i \in Instances |-> {}]
  /\ initialized = [i \in Instances |-> FALSE]
  /\ found = [i \in Instances |-> 0]
  /\ dbVersion = 0
  /\ migrator = None

Goto(i, p) == pc' = [pc EXCEPT ![i] = p]

-----------------------------------------------------------------------------
(* disconnect.                                                             *)

Close(i, next) ==
  /\ Goto(i, "closing")
  /\ goal' = [goal EXCEPT ![i] = next]
  /\ UNCHANGED <<line, streamClient, attached, initialized, found, schema>>

Disconnect(i) == pc[i] = "connected" /\ Close(i, "idle")

\* Streamer.disconnect as far as its await: the connection is released, unless it
\* has been lost, when the handler returns at once.
ReleaseLine(i) ==
  /\ pc[i] = "closing"
  /\ streamClient[i]
  /\ Goto(i, "closingStreams")
  /\ line' = [line EXCEPT ![i] = IF @ = "listening" THEN "none" ELSE "leaked"]
  /\ UNCHANGED <<goal, streamClient, attached, initialized, found, schema>>

\* Variant: the streams stay registered.
CloseNoStreams(i) ==
  /\ pc[i] = "closingStreams"
  /\ Goto(i, "closing")
  /\ streamClient' = [streamClient EXCEPT ![i] = FALSE]
  /\ UNCHANGED <<goal, line, attached, initialized, found, schema>>

\* After the await every stream is closed, and the backend forgets its Streamer.
CloseStreams(i) ==
  /\ pc[i] = "closingStreams"
  /\ Goto(i, "closing")
  /\ streamClient' = [streamClient EXCEPT ![i] = FALSE]
  /\ attached' = [attached EXCEPT ![i] = {}]
  /\ UNCHANGED <<goal, line, initialized, found, schema>>

\* pool.end resolves when the pool has all its connections back.
EndPool(i) ==
  /\ pc[i] = "closing"
  /\ ~streamClient[i]
  /\ line[i] = "none"
  /\ Goto(i, goal[i])
  /\ goal' = [goal EXCEPT ![i] = "idle"]
  /\ UNCHANGED <<line, streamClient, attached, initialized, found, schema>>

-----------------------------------------------------------------------------
(* connect: tryConnect until it succeeds.                                  *)

Connect(i) == pc[i] \in {"idle", "connected"} /\ Close(i, "probing")

Retry(i) == pc[i] = "sleeping" /\ Close(i, "probing")

\* The default database answers, and has the database of the instance.
Probe(i) == pc[i] = "probing" /\ Close(i, "taking")

\* A statement or a new connection fails.
Fail(i) ==
  /\ pc[i] \in {"probing", "taking", "migrating"}
  /\ Goto(i, "sleeping")
  /\ UNCHANGED <<goal, line, streamClient, attached, initialized, found, schema>>

Take(i) ==
  /\ pc[i] = "taking"
  /\ Goto(i, "subscribing")
  /\ line' = [line EXCEPT ![i] = "taken"]
  /\ UNCHANGED <<goal, streamClient, attached, initialized, found, schema>>

\* LISTEN succeeds, and the backend gets its Streamer.
Listen(i) ==
  /\ pc[i] = "subscribing"
  /\ Goto(i, IF initialized[i] THEN "connected" ELSE "migrating")
  /\ line' = [line EXCEPT ![i] = "listening"]
  /\ streamClient' = [streamClient EXCEPT ![i] = TRUE]
  /\ UNCHANGED <<goal, attached, initialized, found, schema>>

\* The listener is removed from the connection, the connection is not released.
ListenFails(i) ==
  /\ pc[i] = "subscribing"
  /\ Goto(i, "sleeping")
  /\ line' = [line EXCEPT ![i] = "leaked"]
  /\ UNCHANGED <<goal, streamClient, attached, initialized, found, schema>>

\* The database ends the listening connection.  relisten is called as a plain
\* function, so that it throws before it does anything, and the error is logged.
Lose(i) ==
  /\ line[i] = "listening"
  /\ line' = [line EXCEPT ![i] = "lost"]
  /\ UNCHANGED <<pc, goal, streamClient, attached, initialized, found, schema>>

-----------------------------------------------------------------------------
(* executeIfDbSchemaIsOutdated.                                            *)

\* Variant: any other version is migrated.
DiffersFromDb(i) == found[i] # Release[i]

\* An older release leaves a newer schema alone.
Outdated(i) == found[i] < Release[i]

\* Variant: SELECT without FOR UPDATE.
LockVersionUnlocked(i) ==
  /\ pc[i] = "migrating"
  /\ Goto(i, "locked")
  /\ migrator' = i
  /\ found' = [found EXCEPT ![i] = dbVersion]
  /\ UNCHANGED <<goal, line, streamClient, attached, initialized, dbVersion>>

\* SELECT ... FOR UPDATE of the row of the version.
LockVersion(i) ==
  /\ pc[i] = "migrating"
  /\ migrator = None
  /\ Goto(i, "locked")
  /\ migrator' = i
  /\ found' = [found EXCEPT ![i] = dbVersion]
  /\ UNCHANGED <<goal, line, streamClient, attached, initialized, dbVersion>>

\* COMMIT, with the migrations if there were any to run.
Migrated(i) ==
  /\ pc[i] = "locked"
  /\ dbVersion' = IF Outdated(i) THEN Release[i] ELSE dbVersion
  /\ migrator' = None
  /\ initialized' = [initialized EXCEPT ![i] = TRUE]
  /\ Goto(i, "connected")
  /\ UNCHANGED <<goal, line, streamClient, attached, found>>

\* Variant: the transaction is left open.
MigrationFailsOpen(i) ==
  /\ pc[i] = "locked"
  /\ Goto(i, "sleeping")
  /\ UNCHANGED <<goal, line, streamClient, attached, initialized, found, schema>>

MigrationFails(i) ==
  /\ pc[i] = "locked"
  /\ migrator' = None
  /\ Goto(i, "sleeping")
  /\ UNCHANGED <<goal, line, streamClient, attached, initialized, found, dbVersion>>

-----------------------------------------------------------------------------
(* Streams of clients, and the end of the process.                         *)

\* A client may ask for a stream as long as there is a Streamer, also while connect
\* or disconnect is in progress.
Attach(i, s) ==
  /\ streamClient[i]
  /\ attached' = [attached EXCEPT ![i] = @ \cup {s}]
  /\ UNCHANGED <<pc, goal, line, streamClient, initialized, found, schema>>

Detach(i, s) ==
  /\ s \in attached[i]
  /\ attached' = [attached EXCEPT ![i] = @ \ {s}]
  /\ UNCHANGED <<pc, goal, line, streamClient, initialized, found, schema>>

\* The process ends and another one takes its place: the database closes its
\* connections and rolls its transaction back.
Restart(i) ==
  /\ pc' = [pc EXCEPT ![i] = "idle"]
  /\ goal' = [goal EXCEPT ![i] = "idle"]
  /\ line' = [line EXCEPT ![i] = "none"]
  /\ streamClient' = [streamClient EXCEPT ![i] = FALSE]
  /\ attached' = [attached EXCEPT ![i] = {}]
  /\ initialized' = [initialized EXCEPT ![i] = FALSE]
  /\ found' = [found EXCEPT ![i] = 0]
  /\ migrator' = IF migrator = i THEN None ELSE migrator
  /\ UNCHANGED dbVersion

-----------------------------------------------------------------------------
\* What an instance does of its own accord.
Proceed(i) ==
  \/ ReleaseLine(i) \/ CloseStreams(i) \/ EndPool(i)
  \/ Retry(i) \/ Probe(i) \/ Take(i) \/ Listen(i) \/ LockVersion(i) \/ Migrated(i)

Next ==
  \E i \in Instances :
    \/ Proceed(i)
    \/ Connect(i) \/ Disconnect(i) \/ Restart(i)
    \/ Fail(i) \/ ListenFails(i) \/ MigrationFails(i) \/ Lose(i)
    \/ \E s \in Streams : Attach(i, s) \/ Detach(i, s)

Spec == Init /\ [][Next]_vars

\* Every statement is answered or times out (statement_timeout, query_timeout and
\* connectionTimeoutMillis, 30 s each), and the database serves those that wait for
\* the row of the version in turn.
Fairness ==
  \A i \in Instances : WF_vars(Proceed(i)) /\ SF_vars(LockVersion(i))

FairSpec == Spec /\ Fairness

-----------------------------------------------------------------------------
(* Properties.                                                             *)

\* No stream outlives what feeds it, whenever it was attached: unless the instance
\* is closing them, the streams have their Streamer, and it has a connection that
\* listens or that the database has ended (Streamer.disconnect, connect).
StreamsAreFed ==
  \A i \in Instances :
    attached[i] # {} /\ pc[i] \notin {"closing", "closingStreams"}
      => streamClient[i] /\ line[i] \in {"listening", "lost"}

\* An instance that is connected finds a schema that is at least its own, whatever
\* instances of other releases start, fail and restart meanwhile
\* (executeIfDbSchemaIsOutdated).
ConnectedIsMigrated ==
  \A i \in Instances : pc[i] = "connected" => dbVersion >= Release[i]

\* index.ts:466-468, "a restarting pod that is running an old version will not
\* interfere with a new version being rolled out": the schema never goes back.
NeverDowngraded == [][dbVersion' >= dbVersion]_vars

\* An attempt to connect ends, in success or to be repeated: neither an earlier
\* attempt that failed nor another instance leaves anything behind that it waits for,
\* but for a listening connection that was not released.
AttemptsEnd ==
  \A i \in Instances :
    pc[i] \notin {"idle", "connected", "sleeping"}
      ~> pc[i] \in {"idle", "connected", "sleeping"} \/ line[i] \in {"lost", "leaked"}

\* streams.ts:165-167: "Lost connection to the database notification stream.
\* Reconnecting...".  A listening connection that has been lost is replaced.
Relistens == \A i \in Instances : line[i] = "lost" ~> line[i] # "lost"
=============================================================================
