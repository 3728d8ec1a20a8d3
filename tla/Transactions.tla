----------------------------- MODULE Transactions -----------------------------
(***************************************************************************)
(* Nested transactions on pooled connections (context.ts).  A scope is one *)
(* call of withTransaction, together with the Context that its callback    *)
(* gets.  A scope that is started from a Context without a connection gets *)
(* one from the pool and opens a transaction; one that is started from the *)
(* Context of another scope shares its connection and opens a savepoint.   *)
(*                                                                         *)
(* The branches of a callback run in parallel, and a client of Postgres    *)
(* sends its statements in the order in which they were asked for, each    *)
(* after the answer to the one before.  An action is what happens between  *)
(* two answers.                                                            *)
(*                                                                         *)
(* A statement that fails has had no effect, except that in a transaction  *)
(* all later ones fail and COMMIT is a ROLLBACK.  A callback may resolve   *)
(* or reject before its queries are answered, and what is left of its      *)
(* branches may query until the Context has lost its connection; but it    *)
(* ends after the scopes that it has started.                              *)
(***************************************************************************)
EXTENDS Naturals, Sequences

CONSTANTS
  Scopes,       \* calls of withTransaction, each used once
  Connections,  \* the pool
  None,
  MaxWrites     \* bound: the queries of one callback

VARIABLES
  state,       \* how far a scope has got
  caller,      \* the scope whose callback started it, None for a client
  enclosing,   \* the transactions that a scope is part of, itself included
  connection,  \* its Context's connection
  blocked,     \* whether its Context has a queryBlockReason
  written,     \* the number of queries that its callback has asked for
  queue,       \* the statements of a connection that have not been answered
  session,     \* the open transaction of a connection: its levels, outermost first
  aborted,     \* the scopes in whose level a statement has failed
  acknowledged,\* the writes that were answered without an error
  durable      \* the writes that are committed

vars == <<state, caller, enclosing, connection, blocked, written, queue,
          session, aborted, acknowledged, durable>>

ASSUME ConstantsAssumption ==
  /\ None \notin Scopes \cup Connections
  /\ MaxWrites \in Nat

\* The states of a scope:
\*   unused       not called
\*   waiting      for a connection of the pool
\*   starting     BEGIN or SAVEPOINT is sent
\*   running      the callback runs
\*   committing   the callback is resolved: COMMIT or RELEASE SAVEPOINT is sent
\*   rollingBack  the callback is rejected: ROLLBACK is sent
\*   resolved     the call is resolved
\*   rejected     the call is rejected
States == {"unused", "waiting", "starting", "running", "committing", "rollingBack", "resolved", "rejected"}

Ended == {"unused", "resolved", "rejected"}

\* The n-th query of a scope; it is late if the callback had ended when it was made.
Write == [scope: Scopes, n: 1..MaxWrites, late: BOOLEAN]
Statement == [op: {"start", "write", "commit", "rollback"}, scope: Scopes,
              n: 0..MaxWrites, late: BOOLEAN]
Level == [scope: Scopes, writes: SUBSET Write]

TypeOK ==
  /\ state \in [Scopes -> States]
  /\ caller \in [Scopes -> Scopes \cup {None}]
  /\ enclosing \in [Scopes -> SUBSET Scopes]
  /\ connection \in [Scopes -> Connections \cup {None}]
  /\ \A s \in Scopes : connection[s] = None <=> state[s] \in Ended \cup {"waiting"}
  /\ blocked \in [Scopes -> BOOLEAN]
  /\ written \in [Scopes -> 0..MaxWrites]
  /\ queue \in [Connections -> Seq(Statement)]
  /\ session \in [Connections -> Seq(Level)]
  /\ aborted \subseteq Scopes
  /\ acknowledged \subseteq Write
  /\ durable \subseteq Write

Init ==
  /\ state = [s \in Scopes |-> "unused"]
  /\ caller = [s \in Scopes |-> None]
  /\ enclosing = [s \in Scopes |-> {}]
  /\ connection = [s \in Scopes |-> None]
  /\ blocked = [s \in Scopes |-> FALSE]
  /\ written = [s \in Scopes |-> 0]
  /\ queue = [c \in Connections |-> <<>>]
  /\ session = [c \in Connections |-> <<>>]
  /\ aborted = {}
  /\ acknowledged = {}
  /\ durable = {}

-----------------------------------------------------------------------------
(* The pool.                                                               *)

Free == Connections \ {connection[s] : s \in Scopes}

Send(c, m) == queue' = [queue EXCEPT ![c] = Append(@, m)]

\* A statement that starts or ends a scope.
Control(op, s) == [op |-> op, scope |-> s, n |-> 0, late |-> FALSE]

\* Bound: scopes are interchangeable, and called in one order.
IsNext(s) == s = CHOOSE t \in Scopes : state[t] = "unused"

\* A callback that runs, or a client, is about to call.
MayCall(p) == p = None \/ (p \in Scopes /\ state[p] = "running")

\* withTransaction on a Context that has no connection, by a client or, besides its
\* own transaction, by a callback.
Call(s, p) ==
  /\ state[s] = "unused" /\ IsNext(s) /\ MayCall(p)
  /\ state' = [state EXCEPT ![s] = "waiting"]
  /\ caller' = [caller EXCEPT ![s] = p]
  /\ UNCHANGED <<enclosing, connection, blocked, written, queue, session, aborted,
                 acknowledged, durable>>

\* getConnection, then BEGIN.
Acquire(s, c) ==
  /\ state[s] = "waiting" /\ c \in Free
  /\ state' = [state EXCEPT ![s] = "starting"]
  /\ connection' = [connection EXCEPT ![s] = c]
  /\ enclosing' = [enclosing EXCEPT ![s] = {s}]
  /\ Send(c, Control("start", s))
  /\ UNCHANGED <<caller, blocked, written, session, aborted, acknowledged, durable>>

\* Variant: the pool lets its clients wait for as long as it takes.
GivesUpNever(s) == FALSE

\* connectionTimeoutMillis.
GivesUp(s) == state[s] = "waiting"

GiveUp(s) ==
  /\ GivesUp(s)
  /\ state' = [state EXCEPT ![s] = "rejected"]
  /\ UNCHANGED <<caller, enclosing, connection, blocked, written, queue, session, aborted,
                 acknowledged, durable>>

-----------------------------------------------------------------------------
(* What the callback of a scope does with its Context.                     *)

\* Variant: the parent may go on while the child runs.
BlockNone(p) == blocked

\* 'Cannot use the parent Context while a transaction is running'.
Block(p) == [blocked EXCEPT ![p] = TRUE]

\* withTransaction on the Context of p: SAVEPOINT.
Nest(s, p) ==
  /\ state[s] = "unused" /\ IsNext(s) /\ state[p] = "running" /\ ~blocked[p]
  /\ state' = [state EXCEPT ![s] = "starting"]
  /\ caller' = [caller EXCEPT ![s] = p]
  /\ enclosing' = [enclosing EXCEPT ![s] = enclosing[p] \cup {s}]
  /\ connection' = [connection EXCEPT ![s] = connection[p]]
  /\ blocked' = Block(p)
  /\ Send(connection[p], Control("start", s))
  /\ UNCHANGED <<written, session, aborted, acknowledged, durable>>

\* The Context has its connection, and no queryBlockReason: the callback runs, or
\* what follows it has not been answered yet.
Usable(s) == state[s] \in {"running", "committing", "rollingBack"} /\ ~blocked[s]

\* query: sent at once, whatever other branches have asked for.
Query(s) ==
  /\ Usable(s) /\ written[s] < MaxWrites
  /\ written' = [written EXCEPT ![s] = @ + 1]
  /\ Send(connection[s], [op |-> "write", scope |-> s, n |-> written[s] + 1,
                          late |-> state[s] # "running"])
  /\ UNCHANGED <<state, caller, enclosing, connection, blocked, session, aborted,
                 acknowledged, durable>>

CalleesEnded(s) == \A t \in Scopes : caller[t] = s => state[t] \in Ended

\* The callback is resolved, also if it has caught the errors of its queries.
Resolve(s) ==
  /\ state[s] = "running" /\ CalleesEnded(s)
  /\ state' = [state EXCEPT ![s] = "committing"]
  /\ Send(connection[s], Control("commit", s))
  /\ UNCHANGED <<caller, enclosing, connection, blocked, written, session, aborted,
                 acknowledged, durable>>

\* The callback is rejected, perhaps before all its queries are answered.
Reject(s) ==
  /\ state[s] = "running" /\ CalleesEnded(s)
  /\ state' = [state EXCEPT ![s] = "rollingBack"]
  /\ Send(connection[s], Control("rollback", s))
  /\ UNCHANGED <<caller, enclosing, connection, blocked, written, session, aborted,
                 acknowledged, durable>>

-----------------------------------------------------------------------------
(* Answers of Postgres.                                                    *)

Sent(c, op) == queue[c] # <<>> /\ Head(queue[c]).op = op

\* Variant: whatever a callback starts is taken for a part of its transaction.
HasCaller(s) == caller[s] # None

IsSavepoint(s) == enclosing[s] # {s}

Innermost(c) == session[c][Len(session[c])].scope

\* A statement has failed in the open transaction.
IsAborted(c) == session[c] # <<>> /\ Innermost(c) \in aborted

Outer(c) == SubSeq(session[c], 1, Len(session[c]) - 1)

\* BEGIN ISOLATION LEVEL or SAVEPOINT.
Started(c) ==
  /\ Sent(c, "start") /\ ~IsAborted(c)
  /\ LET s == Head(queue[c]).scope IN
     /\ session' = [session EXCEPT ![c] = Append(@, [scope |-> s, writes |-> {}])]
     /\ state' = [state EXCEPT ![s] = "running"]
  /\ queue' = [queue EXCEPT ![c] = Tail(@)]
  /\ UNCHANGED <<caller, enclosing, connection, blocked, written, aborted, acknowledged, durable>>

\* A failure aborts the innermost transaction that is open, if there is one.
Abort(c) == aborted' = IF session[c] = <<>> THEN aborted ELSE aborted \cup {Innermost(c)}

\* It fails outside of the try: nothing is rolled back, the parent stays blocked, and
\* a connection of the pool goes back to it.
StartFails(c) ==
  /\ Sent(c, "start")
  /\ LET s == Head(queue[c]).scope IN
     /\ state' = [state EXCEPT ![s] = "rejected"]
     /\ connection' = [connection EXCEPT ![s] = None]
  /\ Abort(c)
  /\ queue' = [queue EXCEPT ![c] = Tail(@)]
  /\ UNCHANGED <<caller, enclosing, blocked, written, session, acknowledged, durable>>

\* A write is part of the innermost transaction that is open, if there is one.
Written(c) ==
  /\ Sent(c, "write") /\ ~IsAborted(c)
  /\ LET m == Head(queue[c])
         w == [scope |-> m.scope, n |-> m.n, late |-> m.late]
         top == Len(session[c])
     IN /\ acknowledged' = acknowledged \cup {w}
        /\ IF top = 0
           THEN durable' = durable \cup {w} /\ UNCHANGED session
           ELSE session' = [session EXCEPT ![c][top].writes = @ \cup {w}] /\ UNCHANGED durable
  /\ queue' = [queue EXCEPT ![c] = Tail(@)]
  /\ UNCHANGED <<state, caller, enclosing, connection, blocked, written, aborted>>

WriteFails(c) ==
  /\ Sent(c, "write")
  /\ Abort(c)
  /\ queue' = [queue EXCEPT ![c] = Tail(@)]
  /\ UNCHANGED <<state, caller, enclosing, connection, blocked, written, session, acknowledged, durable>>

\* Variant: the Context keeps the connection.
KeepConnection(s) == connection

\* context.connection = null.
DropConnection(s) == [connection EXCEPT ![s] = None]

\* The finally of withTransaction, and that of withDatabaseConnection: the Context
\* cannot be used any more, its parent can, and a connection of the pool goes back.
Finally(s, outcome) ==
  /\ state' = [state EXCEPT ![s] = outcome]
  /\ blocked' = [t \in Scopes |-> IF t = s THEN TRUE
                                  ELSE IF IsSavepoint(s) /\ t = caller[s] THEN FALSE ELSE blocked[t]]
  /\ connection' = DropConnection(s)

\* COMMIT or RELEASE SAVEPOINT.
Committed(c) ==
  /\ Sent(c, "commit") /\ ~IsAborted(c)
  /\ LET s == Head(queue[c]).scope
         top == Len(session[c])
         writes == session[c][top].writes
     IN /\ IF top = 1
           THEN /\ durable' = durable \cup writes
                /\ session' = [session EXCEPT ![c] = <<>>]
           ELSE /\ session' = [session EXCEPT ![c] =
                     [Outer(c) EXCEPT ![top - 1].writes = @ \cup writes]]
                /\ UNCHANGED durable
        /\ Finally(s, "resolved")
  /\ queue' = [queue EXCEPT ![c] = Tail(@)]
  /\ UNCHANGED <<caller, enclosing, written, aborted, acknowledged>>

\* The COMMIT of an aborted transaction is answered with ROLLBACK, and no error.
CommittedNothing(c) ==
  /\ Sent(c, "commit") /\ IsAborted(c) /\ Len(session[c]) = 1
  /\ session' = [session EXCEPT ![c] = <<>>]
  /\ Finally(Head(queue[c]).scope, "resolved")
  /\ queue' = [queue EXCEPT ![c] = Tail(@)]
  /\ UNCHANGED <<caller, enclosing, written, aborted, acknowledged, durable>>

\* A COMMIT that fails ends the transaction, a RELEASE SAVEPOINT that fails aborts it;
\* ROLLBACK is sent in either case.
CommitFails(c) ==
  /\ Sent(c, "commit")
  /\ LET s == Head(queue[c]).scope IN
     /\ state' = [state EXCEPT ![s] = "rollingBack"]
     /\ session' = IF IsSavepoint(s) THEN session ELSE [session EXCEPT ![c] = <<>>]
     /\ Abort(c)
     /\ queue' = [queue EXCEPT ![c] = Append(Tail(@), Control("rollback", s))]
  /\ UNCHANGED <<caller, enclosing, connection, blocked, written, acknowledged, durable>>

\* Variant: the transaction is left open.
KeepLevel(c) == session

\* ROLLBACK, or ROLLBACK TO the savepoint; none is open after a COMMIT that failed.
DropLevel(c) == [session EXCEPT ![c] = IF @ = <<>> THEN <<>> ELSE Outer(c)]

RolledBack(c) ==
  /\ Sent(c, "rollback")
  /\ session' = DropLevel(c)
  /\ Finally(Head(queue[c]).scope, "rejected")
  /\ queue' = [queue EXCEPT ![c] = Tail(@)]
  /\ UNCHANGED <<caller, enclosing, written, aborted, acknowledged, durable>>

-----------------------------------------------------------------------------
Answer(c) ==
  \/ Started(c) \/ StartFails(c) \/ Written(c) \/ WriteFails(c)
  \/ Committed(c) \/ CommittedNothing(c) \/ CommitFails(c) \/ RolledBack(c)

Next ==
  \/ \E s \in Scopes, p \in Scopes \cup {None} : Call(s, p)
  \/ \E s \in Scopes, c \in Connections : Acquire(s, c)
  \/ \E s, p \in Scopes : Nest(s, p)
  \/ \E s \in Scopes : GiveUp(s) \/ Query(s) \/ Resolve(s) \/ Reject(s)
  \/ \E c \in Connections : Answer(c)

\* Postgres answers (statement_timeout), the pool hands out what it has and gives up
\* in time, and callbacks end.
Fairness ==
  /\ \A c \in Connections : WF_vars(Answer(c))
  /\ \A s \in Scopes : WF_vars(\E c \in Connections : Acquire(s, c))
  /\ \A s \in Scopes : WF_vars(GiveUp(s)) /\ WF_vars(Reject(s))

Spec == Init /\ [][Next]_vars /\ Fairness

-----------------------------------------------------------------------------
(* Properties.                                                             *)

\* The transactions that a write should be part of: that of its scope, unless the scope
\* was about to end, and those around it.
Around(w) == IF w.late THEN enclosing[w.scope] \ {w.scope} ELSE enclosing[w.scope]

\* A write that was acknowledged is committed if, and only if, every transaction
\* around it is resolved and none had a failure that its callback did not pass on:
\* none is lost to the rollback of a nested transaction that another branch has
\* started meanwhile, and none outlives its own rollback (context.ts:218-223).  What
\* a branch writes after its callback has ended shares the fate of the transactions
\* that its own was nested in, or is committed by itself.
AllOrNothing ==
  /\ durable \subseteq acknowledged
  /\ \A w \in acknowledged :
       w \in durable <=> \A s \in Around(w) : state[s] = "resolved" /\ s \notin aborted

\* A connection goes back to the pool without a transaction; only what branches have
\* asked for after their callback had ended may not have been answered.
PoolIsClean ==
  \A c \in Free : /\ session[c] = <<>>
                  /\ \A i \in DOMAIN queue[c] : queue[c][i].op = "write" /\ queue[c][i].late

\* A Context that can be used is the innermost one of its connection.
UsableIsInnermost ==
  \A s \in Scopes : Usable(s) =>
    \A t \in Scopes \ {s} :
      connection[t] = connection[s] /\ state[t] \notin Ended => t \in enclosing[s]

\* Every call ends, even if callbacks wait for connections that other callbacks hold.
CallsEnd == \A s \in Scopes : state[s] # "unused" ~> state[s] \in Ended
=============================================================================
