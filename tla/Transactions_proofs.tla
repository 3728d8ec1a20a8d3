------------------------- MODULE Transactions_proofs -------------------------
(***************************************************************************)
(* Transactions are atomic and the pool stays clean, for any number of     *)
(* scopes, nested to any depth, of connections and of writes, also if the  *)
(* branches of a callback go on when it has ended.                         *)
(*                                                                         *)
(* The invariant says that the transaction of a connection is the chain of *)
(* the scopes that hold it, outermost first, that at most one of them      *)
(* starts or ends, of which transactions the queries are that have not     *)
(* been answered, and where each acknowledged write is.                    *)
(***************************************************************************)
EXTENDS Transactions, SequenceTheorems, TLAPS

ScopeAt(c, i) == session[c][i].scope

\* The transactions that are open on a connection.
Chain(c) == {ScopeAt(c, j) : j \in DOMAIN session[c]}

\* What a scope awaits from Postgres.
StateFor(op) == CASE op = "start" -> "starting" [] op = "commit" -> "committing" [] op = "rollback" -> "rollingBack"

\* Level i of a connection.
NestedAt(c, i) ==
  LET s == ScopeAt(c, i) IN
  /\ connection[s] = c
  /\ state[s] \in {"running", "committing", "rollingBack"}
  /\ enclosing[s] = {ScopeAt(c, j) : j \in 1..i}
  /\ \A j \in 1..(i - 1) : ScopeAt(c, j) # s
  /\ i < Len(session[c]) => /\ state[s] = "running" /\ blocked[s]
                            /\ caller[ScopeAt(c, i + 1)] = s

\* The levels of a transaction are scopes nested in each other; all but the innermost one
\* run and are blocked.
SessionIsNested == \A c \in Connections : \A i \in DOMAIN session[c] : NestedAt(c, i)

\* A scope that has started has a level, unless its COMMIT has failed; one that is
\* starting is called by the innermost one.
IsInside(s) ==
  LET c == connection[s] IN
  /\ state[s] \in {"running", "committing", "rollingBack"} =>
       \/ \E i \in DOMAIN session[c] : ScopeAt(c, i) = s
       \/ state[s] = "rollingBack" /\ session[c] = <<>> /\ enclosing[s] = {s}
  /\ state[s] = "starting" =>
       /\ enclosing[s] = Chain(c) \cup {s}
       /\ session[c] # <<>> => /\ caller[s] = Innermost(c)
                               /\ state[Innermost(c)] = "running" /\ blocked[Innermost(c)]

HoldersAreInside == \A s \in Scopes : IsInside(s)

\* A query behind the statement that ends a scope is late and of that scope; any other
\* one should be part of exactly the transactions that are open, unless it fails.
WriteInPlace(c, i) ==
  LET q == queue[c]
      m == q[i]
  IN m.op = "write" =>
       /\ m.n # 0 /\ m.scope \in enclosing[m.scope]
       /\ \A j \in 1..(i - 1) : q[j].op # "write" =>
            q[j].op \in {"commit", "rollback"} /\ q[j].scope = m.scope /\ m.late
       /\ (\A j \in 1..(i - 1) : q[j].op = "write") /\ ~IsAborted(c) => Around(m) = Chain(c)

\* At most one statement starts or ends a scope.
ControlInPlace(c, i) ==
  LET m == queue[c][i] IN
  m.op # "write" =>
    /\ connection[m.scope] = c /\ state[m.scope] = StateFor(m.op)
    /\ \A j \in DOMAIN queue[c] : queue[c][j].op # "write" => j = i

InOrder(c, i) == WriteInPlace(c, i) /\ ControlInPlace(c, i)

QueueIsInOrder == \A c \in Connections : \A i \in DOMAIN queue[c] : InOrder(c, i)

\* What a scope that starts or ends awaits has been sent.
IsAwaited(s) ==
  LET q == queue[connection[s]] IN
  state[s] \in {"starting", "committing", "rollingBack"} =>
    \E i \in DOMAIN q : q[i].op # "write" /\ q[i].scope = s

AwaitedIsSent == \A s \in Scopes : IsAwaited(s)

\* A scope is part of scopes that were given a connection.
EnclosingHasBegun ==
  \A s \in Scopes :
    /\ state[s] \in {"unused", "waiting"} => enclosing[s] = {}
    /\ \A t \in enclosing[s] : state[t] \notin {"unused", "waiting"}

\* The writes of a scope are kept.
Settled(t) == state[t] = "resolved" /\ t \notin aborted

\* The writes of a scope are gone.
Undone(t) == \/ state[t] = "rejected"
             \/ state[t] = "rollingBack" /\ session[connection[t]] = <<>>
             \/ state[t] = "resolved" /\ t \in aborted

\* A write at a level, to which scopes that are resolved have brought it.
IsAtLevel(w, c, i) ==
  /\ w \in acknowledged
  /\ enclosing[ScopeAt(c, i)] \subseteq Around(w)
  /\ \A t \in Around(w) \ enclosing[ScopeAt(c, i)] : Settled(t)

\* An acknowledged write is committed, at a level or undone.
WritesArePlaced ==
  /\ durable \subseteq acknowledged
  /\ \A w \in acknowledged : w.scope \in enclosing[w.scope]
  /\ \A w \in durable : \A t \in Around(w) : Settled(t)
  /\ \A c \in Connections : \A i \in DOMAIN session[c] : \A w \in session[c][i].writes : IsAtLevel(w, c, i)
  /\ \A w \in acknowledged \ durable :
       \/ \E c \in Connections : \E i \in DOMAIN session[c] : w \in session[c][i].writes
       \/ \E t \in Around(w) : Undone(t)

IInv ==
  /\ TypeOK /\ SessionIsNested /\ HoldersAreInside /\ QueueIsInOrder /\ AwaitedIsSent
  /\ EnclosingHasBegun /\ WritesArePlaced

-----------------------------------------------------------------------------
\* Sequences, and what the invariant says of them.

LEMMA TailOf ==
  ASSUME NEW S, NEW q \in Seq(S), q # <<>>
  PROVE  /\ Head(q) = q[1] /\ Head(q) \in S /\ Tail(q) \in Seq(S) /\ Len(q) >= 1
         /\ Len(Tail(q)) = Len(q) - 1
         /\ \A i \in 1..(Len(q) - 1) : Tail(q)[i] = q[i + 1]
         /\ Len(q) = 1 => Tail(q) = <<>>
<1>1. /\ Head(q) = q[1] /\ Head(q) \in S /\ Tail(q) \in Seq(S) /\ Len(q) >= 1
      /\ Len(Tail(q)) = Len(q) - 1
      /\ \A i \in 1..(Len(q) - 1) : Tail(q)[i] = q[i + 1]
  OBVIOUS
<1>2. ASSUME Len(q) = 1 PROVE Tail(q) = <<>>
  <2>1. Tail(q) \in Seq(S) /\ Len(Tail(q)) = 0
    BY <1>1, <1>2
  <2>2. QED
    BY <2>1, EmptySeq
<1>3. QED
  BY <1>1, <1>2

LEMMA AppendTo ==
  ASSUME NEW S, NEW q \in Seq(S), NEW e \in S
  PROVE  /\ Append(q, e) \in Seq(S) /\ Len(Append(q, e)) = Len(q) + 1 /\ Append(q, e) # <<>>
         /\ \A i \in 1..Len(q) : Append(q, e)[i] = q[i]
         /\ Append(q, e)[Len(q) + 1] = e
  OBVIOUS

LEMMA OuterOf ==
  ASSUME TypeOK, NEW c \in Connections, session[c] # <<>>
  PROVE  /\ Outer(c) \in Seq(Level) /\ Len(session[c]) >= 1
         /\ Len(Outer(c)) = Len(session[c]) - 1
         /\ \A i \in 1..(Len(session[c]) - 1) : Outer(c)[i] = session[c][i]
<1> DEFINE n == Len(session[c]) - 1
<1>1. session[c] \in Seq(Level) /\ Len(session[c]) >= 1 /\ n \in 0..Len(session[c])
  BY DEF TypeOK
<1>2. QED
  BY <1>1 DEF Outer

LEMMA ScopesOfSession ==
  ASSUME TypeOK, NEW c \in Connections
  PROVE  /\ session[c] \in Seq(Level) /\ Len(session[c]) \in Nat
         /\ \A i \in DOMAIN session[c] : ScopeAt(c, i) \in Scopes /\ session[c][i] \in Level
         /\ session[c] # <<>> => Len(session[c]) \in DOMAIN session[c] /\ Innermost(c) \in Scopes
<1>1. session[c] \in Seq(Level) /\ Len(session[c]) \in Nat
  BY DEF TypeOK
<1>2. ASSUME NEW i \in DOMAIN session[c] PROVE ScopeAt(c, i) \in Scopes /\ session[c][i] \in Level
  <2>1. session[c][i] \in Level
    BY <1>1, ElementOfSeq
  <2>2. QED
    BY <2>1 DEF ScopeAt, Level
<1>3. session[c] # <<>> => Len(session[c]) \in DOMAIN session[c]
  BY <1>1
<1>4. QED
  BY <1>1, <1>2, <1>3 DEF Innermost, ScopeAt

LEMMA QueueOf ==
  ASSUME TypeOK, NEW c \in Connections
  PROVE  /\ queue[c] \in Seq(Statement) /\ Len(queue[c]) \in Nat /\ DOMAIN queue[c] = 1..Len(queue[c])
         /\ \A i \in DOMAIN queue[c] : /\ queue[c][i] \in Statement /\ queue[c][i].scope \in Scopes
                                       /\ i \in Nat \ {0} /\ \A j \in 1..i : j \in DOMAIN queue[c]
<1>1. queue[c] \in Seq(Statement) /\ Len(queue[c]) \in Nat /\ DOMAIN queue[c] = 1..Len(queue[c])
  BY LenProperties DEF TypeOK
<1>2. ASSUME NEW i \in DOMAIN queue[c]
      PROVE  /\ queue[c][i] \in Statement
             /\ i \in Nat \ {0} /\ \A j \in 1..i : j \in DOMAIN queue[c]
  <2>1. queue[c][i] \in Statement
    BY <1>1, ElementOfSeq
  <2>2. i \in Nat \ {0} /\ \A j \in 1..i : j \in 1..Len(queue[c])
    BY <1>1
  <2>3. QED
    BY <1>1, <2>1, <2>2
<1>3. QED
  BY <1>1, <1>2 DEF Statement

\* The first statement is answered.
LEMMA TailEffect ==
  ASSUME TypeOK, NEW c \in Connections, queue[c] # <<>>, queue' = [queue EXCEPT ![c] = Tail(@)]
  PROVE  /\ queue' \in [Connections -> Seq(Statement)] /\ queue'[c] = Tail(queue[c])
         /\ \A d \in Connections \ {c} : queue'[d] = queue[d]
         /\ 1 \in DOMAIN queue[c] /\ Head(queue[c]) = queue[c][1]
         /\ Len(queue'[c]) = Len(queue[c]) - 1
         /\ \A i \in DOMAIN queue'[c] : /\ i \in Nat \ {0} /\ i + 1 \in DOMAIN queue[c]
                                        /\ \A j \in 1..i : queue'[c][j] = queue[c][j + 1]
         /\ \A i \in DOMAIN queue[c] : i # 1 => i - 1 \in DOMAIN queue'[c] /\ queue'[c][i - 1] = queue[c][i]
<1>1. /\ queue[c] \in Seq(Statement) /\ Head(queue[c]) = queue[c][1] /\ Head(queue[c]) \in Statement
      /\ Tail(queue[c]) \in Seq(Statement) /\ Len(queue[c]) >= 1 /\ Len(Tail(queue[c])) = Len(queue[c]) - 1
      /\ \A i \in 1..(Len(queue[c]) - 1) : Tail(queue[c])[i] = queue[c][i + 1]
  BY TailOf DEF TypeOK
<1>2. Len(queue[c]) \in Nat /\ DOMAIN queue[c] = 1..Len(queue[c]) /\ DOMAIN Tail(queue[c]) = 1..(Len(queue[c]) - 1)
  <2>1. DOMAIN Tail(queue[c]) = 1..Len(Tail(queue[c]))
    BY <1>1, LenProperties
  <2>2. QED
    BY <1>1, <2>1, QueueOf
<1>3. queue'[c] = Tail(queue[c]) /\ \A d \in Connections \ {c} : queue'[d] = queue[d]
  BY DEF TypeOK
<1>4. queue' \in [Connections -> Seq(Statement)]
  BY <1>1 DEF TypeOK
<1>5. ASSUME NEW i \in DOMAIN queue'[c]
      PROVE  /\ i \in Nat \ {0} /\ i + 1 \in DOMAIN queue[c]
             /\ \A j \in 1..i : queue'[c][j] = queue[c][j + 1]
  <2>1. i \in 1..(Len(queue[c]) - 1)
    BY <1>2, <1>3
  <2>2. i + 1 \in 1..Len(queue[c]) /\ i \in Nat \ {0} /\ \A j \in 1..i : j \in 1..(Len(queue[c]) - 1)
    BY <1>2, <2>1
  <2>3. QED
    BY <1>1, <1>2, <1>3, <2>2
<1>6. ASSUME NEW i \in DOMAIN queue[c], i # 1
      PROVE  i - 1 \in DOMAIN queue'[c] /\ queue'[c][i - 1] = queue[c][i]
  <2>1. i - 1 \in 1..(Len(queue[c]) - 1) /\ (i - 1) + 1 = i
    BY <1>2, <1>6
  <2>2. Tail(queue[c])[i - 1] = queue[c][(i - 1) + 1]
    BY <1>1, <2>1
  <2>3. QED
    BY <1>2, <1>3, <2>1, <2>2
<1>7. 1 \in DOMAIN queue[c]
  BY <1>1, <1>2
<1>8. QED
  BY <1>1, <1>3, <1>4, <1>5, <1>6, <1>7

LEMMA SendEffect ==
  ASSUME TypeOK, NEW c \in Connections, NEW m \in Statement, Send(c, m)
  PROVE  /\ queue' \in [Connections -> Seq(Statement)]
         /\ \A d \in Connections \ {c} : queue'[d] = queue[d]
         /\ DOMAIN queue'[c] = DOMAIN queue[c] \cup {Len(queue[c]) + 1}
         /\ Len(queue[c]) + 1 \notin DOMAIN queue[c] /\ Len(queue[c]) + 1 \in Nat \ {0}
         /\ \A i \in DOMAIN queue[c] : queue'[c][i] = queue[c][i]
         /\ queue'[c][Len(queue[c]) + 1] = m
         /\ \A j \in 1..Len(queue[c]) : j \in DOMAIN queue[c]
         /\ (Len(queue[c]) + 1) - 1 = Len(queue[c])
<1>1. queue[c] \in Seq(Statement) /\ Len(queue[c]) \in Nat /\ DOMAIN queue[c] = 1..Len(queue[c])
  BY QueueOf
<1>2. queue' = [queue EXCEPT ![c] = Append(queue[c], m)]
  BY DEF Send
<1>3. queue'[c] = Append(queue[c], m) /\ \A d \in Connections \ {c} : queue'[d] = queue[d]
  BY <1>2 DEF TypeOK
<1>4. /\ queue'[c] \in Seq(Statement) /\ Len(queue'[c]) = Len(queue[c]) + 1
      /\ \A i \in 1..Len(queue[c]) : queue'[c][i] = queue[c][i]
      /\ queue'[c][Len(queue[c]) + 1] = m
  BY <1>1, <1>3, AppendTo
<1>5. queue' \in [Connections -> Seq(Statement)]
  BY <1>2, <1>3, <1>4 DEF TypeOK
<1>6. DOMAIN queue'[c] = 1..(Len(queue[c]) + 1)
  BY <1>4, LenProperties
<1>7. /\ 1..(Len(queue[c]) + 1) = 1..Len(queue[c]) \cup {Len(queue[c]) + 1}
      /\ Len(queue[c]) + 1 \notin 1..Len(queue[c]) /\ Len(queue[c]) + 1 \in Nat \ {0}
      /\ (Len(queue[c]) + 1) - 1 = Len(queue[c])
  BY <1>1
<1>8. QED
  BY <1>1, <1>3, <1>4, <1>5, <1>6, <1>7

\* A query stays in order when something is sent, and when a query before it is answered.
LEMMA WriteStays ==
  ASSUME NEW c, NEW i \in Nat \ {0}, NEW k \in {0, 1}, WriteInPlace(c, i + k),
         queue[c][i + k].scope \in Scopes,
         \A j \in 1..i : queue'[c][j] = queue[c][j + k],
         k = 1 => queue[c][1].op = "write",
         \A t \in Scopes : enclosing[t] # {} => enclosing'[t] = enclosing[t],
         IsAborted(c) => IsAborted(c)', Chain(c)' = Chain(c)
  PROVE  WriteInPlace(c, i)'
<1> DEFINE m == queue[c][i + k]
<1> SUFFICES ASSUME queue'[c][i].op = "write"
             PROVE  /\ queue'[c][i].n # 0 /\ queue'[c][i].scope \in enclosing'[queue'[c][i].scope]
                    /\ \A j \in 1..(i - 1) : queue'[c][j].op # "write" =>
                         queue'[c][j].op \in {"commit", "rollback"} /\ queue'[c][j].scope = queue'[c][i].scope
                         /\ queue'[c][i].late
                    /\ (\A j \in 1..(i - 1) : queue'[c][j].op = "write") /\ ~IsAborted(c)'
                         => Around(queue[c][i])' = Chain(c)'
  BY DEF WriteInPlace
<1>1. queue'[c][i] = m /\ m.op = "write"
  BY DEF m
<1>2. /\ m.n # 0 /\ m.scope \in enclosing[m.scope]
      /\ \A j \in 1..((i + k) - 1) : queue[c][j].op # "write" =>
           queue[c][j].op \in {"commit", "rollback"} /\ queue[c][j].scope = m.scope /\ m.late
      /\ (\A j \in 1..((i + k) - 1) : queue[c][j].op = "write") /\ ~IsAborted(c) => Around(m) = Chain(c)
  BY <1>1 DEF WriteInPlace
<1>3. enclosing'[m.scope] = enclosing[m.scope]
  BY <1>2
<1>4. Around(queue[c][i])' = Around(m)
  BY <1>1, <1>3 DEF Around
<1>5. \A j \in 1..(i - 1) : j + k \in 1..((i + k) - 1) /\ j \in 1..i
  OBVIOUS
<1>6. \A j \in 1..(i - 1) : queue'[c][j].op # "write" =>
        queue'[c][j].op \in {"commit", "rollback"} /\ queue'[c][j].scope = m.scope /\ m.late
  BY <1>2, <1>5
<1>7. ASSUME \A j \in 1..(i - 1) : queue'[c][j].op = "write" PROVE \A j \in 1..((i + k) - 1) : queue[c][j].op = "write"
  <2> SUFFICES ASSUME NEW j \in 1..((i + k) - 1) PROVE queue[c][j].op = "write"
    OBVIOUS
  <2>1. CASE k = 0
    BY <1>7, <1>5, <2>1
  <2>2. CASE k = 1
    <3>1. j = 1 \/ (j - 1 \in 1..(i - 1) /\ (j - 1) + k = j)
      BY <2>2
    <3>2. ASSUME j - 1 \in 1..(i - 1), (j - 1) + k = j PROVE queue[c][j].op = "write"
      <4>1. queue'[c][j - 1] = queue[c][(j - 1) + k] /\ queue'[c][j - 1].op = "write"
        BY <1>5, <1>7, <3>2
      <4>2. QED
        BY <3>2, <4>1
    <3>3. QED
      BY <2>2, <3>1, <3>2
  <2>3. QED
    BY <2>1, <2>2
<1>8. QED
  BY <1>1, <1>2, <1>3, <1>4, <1>6, <1>7

\* What branches have asked for behind the end of a scope leads when the scope has ended.
LEMMA LateWritesLead ==
  ASSUME NEW c, NEW i \in Nat \ {0}, NEW s,
         \A j \in 1..i : queue'[c][j].op = "write",
         queue'[c][i].n # 0, queue'[c][i].late, queue'[c][i].scope = s, s \in enclosing'[s],
         ~IsAborted(c)' => Chain(c)' = enclosing'[s] \ {s}
  PROVE  WriteInPlace(c, i)'
<1>1. Around(queue[c][i])' = enclosing'[s] \ {s}
  BY DEF Around
<1>2. \A j \in 1..(i - 1) : j \in 1..i
  OBVIOUS
<1>3. QED
  BY <1>1, <1>2 DEF WriteInPlace

\* A statement that starts or ends a scope stays in order.
LEMMA ControlStays ==
  ASSUME NEW c \in Connections, NEW i, NEW k, ControlInPlace(c, i), queue'[c][k] = queue[c][i],
         queue[c][i].op # "write" =>
           /\ connection'[queue[c][i].scope] = c
           /\ state'[queue[c][i].scope] = state[queue[c][i].scope]
           /\ \A j \in DOMAIN queue'[c] : queue'[c][j].op # "write" => j = k
  PROVE  ControlInPlace(c, k)'
  BY DEF ControlInPlace

LEMMA IInvInit == Init => IInv
<1> SUFFICES ASSUME Init PROVE IInv
  OBVIOUS
<1> USE ConstantsAssumption DEF Init
<1>1. TypeOK
  BY DEF TypeOK, States, Ended
<1>2. SessionIsNested
  BY DEF SessionIsNested
<1>3. HoldersAreInside
  BY DEF HoldersAreInside, IsInside
<1>4. QueueIsInOrder
  BY DEF QueueIsInOrder
<1>5. AwaitedIsSent
  BY DEF AwaitedIsSent, IsAwaited
<1>7. EnclosingHasBegun
  BY DEF EnclosingHasBegun
<1>8. WritesArePlaced
  BY DEF WritesArePlaced
<1>9. QED
  BY <1>1, <1>2, <1>3, <1>4, <1>5, <1>7, <1>8 DEF IInv

\* A level stays as it is if what it depends on does.
LEMMA NestedStays ==
  ASSUME NEW c, NEW i, NestedAt(c, i), \A j \in 1..i : ScopeAt(c, j)' = ScopeAt(c, j), i \in 1..i,
         LET s == ScopeAt(c, i) IN
         /\ connection'[s] = c /\ state'[s] \in {"running", "committing", "rollingBack"}
         /\ enclosing'[s] = enclosing[s]
         /\ i < Len(session'[c]) => /\ state'[s] = "running" /\ blocked'[s]
                                    /\ caller'[ScopeAt(c, i + 1)'] = s
  PROVE  NestedAt(c, i)'
<1>1. {ScopeAt(c, j) : j \in 1..i}' = {ScopeAt(c, j) : j \in 1..i}
  OBVIOUS
<1>2. /\ connection'[ScopeAt(c, i)'] = c
      /\ state'[ScopeAt(c, i)'] \in {"running", "committing", "rollingBack"}
      /\ enclosing'[ScopeAt(c, i)'] = {ScopeAt(c, j) : j \in 1..i}'
  BY <1>1 DEF NestedAt
<1>3. \A j \in 1..(i - 1) : ScopeAt(c, j)' # ScopeAt(c, i)'
  BY DEF NestedAt
<1>4. i < Len(session'[c]) => /\ state'[ScopeAt(c, i)'] = "running" /\ blocked'[ScopeAt(c, i)']
                              /\ caller'[ScopeAt(c, i + 1)'] = ScopeAt(c, i)'
  OBVIOUS
<1>5. QED
  BY <1>2, <1>3, <1>4 DEF NestedAt

LEMMA NestedUnchanged ==
  ASSUME TypeOK, NEW c \in Connections, NEW i \in DOMAIN session[c], NestedAt(c, i),
         session'[c] = session[c],
         LET s == ScopeAt(c, i) IN
         /\ connection'[s] = connection[s] /\ state'[s] = state[s]
         /\ enclosing'[s] = enclosing[s] /\ blocked'[s] = blocked[s],
         i < Len(session[c]) => caller'[ScopeAt(c, i + 1)] = caller[ScopeAt(c, i + 1)]
  PROVE  NestedAt(c, i)'
<1>1. \A j : ScopeAt(c, j)' = ScopeAt(c, j)
  BY DEF ScopeAt
<1>2. i \in 1..i
  BY ScopesOfSession
<1>3. /\ connection[ScopeAt(c, i)] = c
      /\ state[ScopeAt(c, i)] \in {"running", "committing", "rollingBack"}
      /\ i < Len(session[c]) => /\ state[ScopeAt(c, i)] = "running" /\ blocked[ScopeAt(c, i)]
                                /\ caller[ScopeAt(c, i + 1)] = ScopeAt(c, i)
  BY DEF NestedAt
<1>4. QED
  BY <1>1, <1>2, <1>3, NestedStays

\* The innermost transaction, and what it consists of.
LEMMA InnermostIsNested ==
  ASSUME IInv, NEW c \in Connections, session[c] # <<>>
  PROVE  /\ Len(session[c]) \in DOMAIN session[c] /\ Innermost(c) \in Scopes
         /\ connection[Innermost(c)] = c
         /\ enclosing[Innermost(c)] = Chain(c)
         /\ state[Innermost(c)] \in {"running", "committing", "rollingBack"}
         /\ \A i \in DOMAIN session[c] : i # Len(session[c]) => ScopeAt(c, i) # Innermost(c)
<1>1. Len(session[c]) \in DOMAIN session[c] /\ DOMAIN session[c] = 1..Len(session[c]) /\ Innermost(c) \in Scopes
  BY ScopesOfSession DEF IInv
<1>2. NestedAt(c, Len(session[c]))
  BY <1>1 DEF IInv, SessionIsNested
<1>3. QED
  BY <1>1, <1>2, ScopesOfSession DEF NestedAt, Innermost, Chain, ScopeAt, IInv

\* A scope whose transaction is open and that ends is the innermost one.
LEMMA EndsInside ==
  ASSUME IInv, NEW s \in Scopes, state[s] \in {"committing", "rollingBack"}
  PROVE  LET c == connection[s] IN
         /\ c \in Connections
         /\ session[c] # <<>> => s = Innermost(c)
         /\ session[c] = <<>> => state[s] = "rollingBack" /\ enclosing[s] = {s}
<1>1. connection[s] \in Connections
  BY ConstantsAssumption DEF IInv, TypeOK, Ended
<1>2. ASSUME NEW i \in DOMAIN session[connection[s]], ScopeAt(connection[s], i) = s
      PROVE  i = Len(session[connection[s]])
  <2>1. session[connection[s]] \in Seq(Level)
    BY <1>1 DEF IInv, TypeOK
  <2>2. state[s] # "running"
    OBVIOUS
  <2>3. QED
  BY <2>1, <2>2,  <1>1, <1>2 DEF IInv, TypeOK, SessionIsNested, NestedAt, ScopeAt
<1>3. QED
  BY <1>1, <1>2 DEF IInv, HoldersAreInside, IsInside, TypeOK, Innermost, ScopeAt

\* Where the writes are: it is enough to look at the levels, and at the writes, that are new.
LEMMA PlacedMoves ==
  ASSUME IInv, acknowledged' \subseteq Write, acknowledged \subseteq acknowledged',
         durable \subseteq durable', durable' \subseteq acknowledged',
         \A t \in Scopes : enclosing[t] # {} => enclosing'[t] = enclosing[t],
         \A t \in Scopes : Settled(t) => Settled(t)',
         \A t \in Scopes : Undone(t) => Undone(t)',
         \A w \in acknowledged' \ acknowledged :
           /\ w.scope \in enclosing'[w.scope]
           /\ w \notin durable' => \E d \in Connections : \E i \in DOMAIN session'[d] : w \in session'[d][i].writes,
         \A w \in durable' \ durable : \A t \in Around(w)' : Settled(t)',
         \A d \in Connections : \A i \in DOMAIN session'[d] : \A w \in session'[d][i].writes :
           \/ i \in DOMAIN session[d] /\ w \in session[d][i].writes /\ ScopeAt(d, i)' = ScopeAt(d, i)
           \/ IsAtLevel(w, d, i)',
         \A d \in Connections : \A i \in DOMAIN session[d] : \A w \in session[d][i].writes :
           \/ \E j \in DOMAIN session'[d] : w \in session'[d][j].writes
           \/ w \in durable'
           \/ \E t \in Around(w) : Undone(t)'
  PROVE  WritesArePlaced'
<1>1. \A w \in acknowledged : /\ w.scope \in Scopes /\ w.scope \in enclosing[w.scope]
                             /\ Around(w) \subseteq Scopes
                             /\ enclosing'[w.scope] = enclosing[w.scope] /\ Around(w)' = Around(w)
  <2> SUFFICES ASSUME NEW w \in acknowledged
               PROVE  /\ w.scope \in Scopes /\ w.scope \in enclosing[w.scope]
                      /\ Around(w) \subseteq Scopes
                      /\ enclosing'[w.scope] = enclosing[w.scope] /\ Around(w)' = Around(w)
    OBVIOUS
  <2>1. w.scope \in Scopes /\ w.scope \in enclosing[w.scope] /\ enclosing[w.scope] \subseteq Scopes
    BY DEF IInv, WritesArePlaced, TypeOK, Write
  <2>2. enclosing'[w.scope] = enclosing[w.scope]
    BY <2>1
  <2>3. QED
    BY <2>1, <2>2 DEF Around
<1>2. \A w \in acknowledged' : w.scope \in enclosing'[w.scope]
  BY <1>1
<1>3. ASSUME NEW w \in durable', NEW t \in Around(w)' PROVE Settled(t)'
  <2>1. CASE w \in durable
    <3>1. w \in acknowledged /\ \A u \in Around(w) : Settled(u)
      BY <2>1 DEF IInv, WritesArePlaced
    <3>2. QED
      BY <1>1, <1>3, <3>1
  <2>2. QED
    BY <1>3, <2>1
<1>4. ASSUME NEW d \in Connections, NEW i \in DOMAIN session'[d], NEW w \in session'[d][i].writes
      PROVE  IsAtLevel(w, d, i)'
  <2>1. CASE IsAtLevel(w, d, i)'
    BY <2>1
  <2>2. CASE i \in DOMAIN session[d] /\ w \in session[d][i].writes /\ ScopeAt(d, i)' = ScopeAt(d, i)
    <3>1. /\ w \in acknowledged /\ enclosing[ScopeAt(d, i)] \subseteq Around(w)
          /\ \A t \in Around(w) \ enclosing[ScopeAt(d, i)] : Settled(t)
      BY <2>2 DEF IInv, WritesArePlaced, IsAtLevel
    <3>2. NestedAt(d, i) /\ i \in 1..i /\ ScopeAt(d, i) \in Scopes
      BY <2>2, ScopesOfSession DEF IInv, SessionIsNested
    <3>3. enclosing'[ScopeAt(d, i)] = enclosing[ScopeAt(d, i)]
      BY <3>2 DEF NestedAt
    <3>4. QED
      BY <1>1, <2>2, <3>1, <3>3 DEF IsAtLevel
  <2>3. QED
    BY <2>1, <2>2
<1>5. ASSUME NEW w \in acknowledged', w \notin durable'
      PROVE  \/ \E d \in Connections : \E i \in DOMAIN session'[d] : w \in session'[d][i].writes
             \/ \E t \in Around(w)' : Undone(t)'
  <2>1. CASE w \notin acknowledged
    BY <1>5, <2>1
  <2>2. CASE w \in acknowledged
    <3>1. \/ \E d \in Connections : \E i \in DOMAIN session[d] : w \in session[d][i].writes
          \/ \E t \in Around(w) : Undone(t)
      BY <1>5, <2>2 DEF IInv, WritesArePlaced
    <3>2. CASE \E d \in Connections : \E i \in DOMAIN session[d] : w \in session[d][i].writes
      BY <1>1, <1>5, <2>2, <3>2
    <3>3. CASE \E t \in Around(w) : Undone(t)
      BY <1>1, <2>2, <3>3
    <3>4. QED
      BY <3>1, <3>2, <3>3
  <2>3. QED
    BY <2>1, <2>2
<1>6. QED
  BY <1>2, <1>3, <1>4, <1>5 DEF WritesArePlaced

\* No write moves while the sessions stay as they are.
LEMMA PlacedStays ==
  ASSUME IInv, UNCHANGED <<session, acknowledged, durable>>,
         \A t \in Scopes : enclosing[t] # {} => enclosing'[t] = enclosing[t],
         \A t \in Scopes : Settled(t) => Settled(t)',
         \A t \in Scopes : Undone(t) => Undone(t)'
  PROVE  WritesArePlaced'
<1>1. acknowledged \subseteq Write /\ durable \subseteq acknowledged
  BY DEF IInv, TypeOK, WritesArePlaced
<1>2. \A d, i : ScopeAt(d, i)' = ScopeAt(d, i)
  BY DEF ScopeAt
<1>3. QED
  BY <1>1, <1>2, PlacedMoves

\* What a failure changes: the innermost transaction, which has not ended, is aborted.
LEMMA AbortEffect ==
  ASSUME IInv, NEW c \in Connections, Abort(c), NEW t \in Scopes, state[t] = "resolved"
  PROVE  t \in aborted' <=> t \in aborted
<1>1. CASE session[c] = <<>>
  BY <1>1 DEF Abort
<1>2. CASE session[c] # <<>>
  <2>1. Innermost(c) # t
    BY <1>2, InnermostIsNested
  <2>2. QED
    BY <1>2, <2>1 DEF Abort
<1>3. QED
  BY <1>1, <1>2

LEMMA AbortGrows ==
  ASSUME IInv, NEW c \in Connections, Abort(c)
  PROVE  aborted \subseteq aborted' /\ aborted' \subseteq Scopes
<1>1. CASE session[c] = <<>>
  BY <1>1 DEF Abort, IInv, TypeOK
<1>2. CASE session[c] # <<>>
  BY <1>2, ScopesOfSession DEF Abort, IInv, TypeOK
<1>3. QED
  BY <1>1, <1>2

\* What is done on one connection leaves the transactions of the others alone.
LEMMA OtherConnections ==
  ASSUME IInv, NEW c \in Connections, NEW s \in Scopes, connection[s] \in {c, None},
         aborted \subseteq aborted',
         \A d \in Connections \ {c} : session'[d] = session[d] /\ queue'[d] = queue[d],
         \A t \in Scopes : enclosing[t] # {} => enclosing'[t] = enclosing[t],
         \A t \in Scopes : connection[t] # c /\ t # s =>
           /\ state'[t] = state[t] /\ connection'[t] = connection[t]
           /\ enclosing'[t] = enclosing[t] /\ caller'[t] = caller[t] /\ blocked'[t] = blocked[t]
  PROVE  /\ \A d \in Connections \ {c} : /\ \A i \in DOMAIN session'[d] : NestedAt(d, i)'
                                         /\ \A i \in DOMAIN queue'[d] : InOrder(d, i)'
         /\ \A t \in Scopes \ {s} : connection[t] # c => IsInside(t)' /\ IsAwaited(t)'
<1>1. ASSUME NEW d \in Connections \ {c}, NEW i \in DOMAIN session[d]
      PROVE  /\ NestedAt(d, i) /\ ScopeAt(d, i) \in Scopes /\ ScopeAt(d, i) # s
             /\ connection[ScopeAt(d, i)] # c /\ ScopeAt(d, i)' = ScopeAt(d, i)
  <2>1. NestedAt(d, i)
    BY DEF IInv, SessionIsNested
  <2>2. QED
    BY <2>1, ScopesOfSession, ConstantsAssumption DEF IInv, NestedAt, ScopeAt
<1>2. ASSUME NEW d \in Connections \ {c}, NEW i \in DOMAIN session[d] PROVE NestedAt(d, i)'
  <2>1. i < Len(session[d]) => i + 1 \in DOMAIN session[d]
    BY ScopesOfSession DEF IInv
  <2>2. \A j \in 1..i : j \in DOMAIN session[d]
    BY ScopesOfSession DEF IInv
  <2>3. QED
    BY <1>1, <2>1, <2>2, NestedUnchanged DEF IInv
<1>a. ASSUME NEW d \in Connections \ {c}
      PROVE  /\ Chain(d)' = Chain(d) /\ (IsAborted(d) => IsAborted(d)')
             /\ Innermost(d)' = Innermost(d)
  BY DEF Chain, ScopeAt, IsAborted, Innermost
<1>3. ASSUME NEW d \in Connections \ {c}, NEW i \in DOMAIN queue[d] PROVE InOrder(d, i)'
  <2>1. /\ WriteInPlace(d, i) /\ ControlInPlace(d, i) /\ queue[d][i].scope \in Scopes
        /\ i \in Nat \ {0} /\ i + 0 = i /\ queue'[d] = queue[d]
    BY QueueOf DEF IInv, QueueIsInOrder, InOrder
  <2>2. queue[d][i].op # "write" => connection[queue[d][i].scope] = d /\ queue[d][i].scope # s
    BY <2>1, ConstantsAssumption DEF ControlInPlace
  <2>3. ControlInPlace(d, i)'
    BY <2>1, <2>2 DEF ControlInPlace
  <2>4. WriteInPlace(d, i)'
    <3>1. \A j \in 1..i : queue'[d][j] = queue[d][j + 0]
      BY <2>1
    <3>2. QED
      BY <1>a, <2>1, <3>1, WriteStays
  <2>5. QED
    BY <2>3, <2>4 DEF InOrder
<1>4. ASSUME NEW t \in Scopes \ {s}, connection[t] # c PROVE IsInside(t)' /\ IsAwaited(t)'
  <2>1. IsInside(t) /\ IsAwaited(t)
    BY DEF IInv, HoldersAreInside, AwaitedIsSent
  <2>2. CASE connection[t] = None
    BY <1>4, <2>1, <2>2 DEF IInv, TypeOK, Ended, IsInside, IsAwaited
  <2>3. CASE connection[t] \in Connections
    <3>1. IsAwaited(t)'
      BY <1>4, <2>1, <2>3 DEF IsAwaited
    <3>2. session[connection[t]] # <<>> => /\ Innermost(connection[t]) \in Scopes \ {s}
                                           /\ connection[Innermost(connection[t])] # c
      BY <1>1, <1>4, <2>3, ScopesOfSession DEF Innermost, ScopeAt, IInv
    <3>3. \A i \in DOMAIN session[connection[t]] : ScopeAt(connection[t], i)' = ScopeAt(connection[t], i)
      BY <1>4, <2>3 DEF ScopeAt
    <3>4. connection[t]' = connection[t] /\ session[connection[t]]' = session[connection[t]]
      BY <1>4, <2>3
    <3>5. Innermost(connection[t])' = Innermost(connection[t]) /\ Chain(connection[t])' = Chain(connection[t])
      BY <3>4 DEF Innermost, Chain, ScopeAt
    <3>6. QED
      BY <1>4, <2>1, <3>1, <3>2, <3>3, <3>4, <3>5 DEF IsInside
  <2>4. QED
    BY <2>2, <2>3 DEF IInv, TypeOK
<1>5. QED
  BY <1>2, <1>3, <1>4

\* A scope without a connection that calls, or gives up.
LEMMA OutsideStep ==
  ASSUME IInv, NEW s \in Scopes, state[s] \in {"unused", "waiting"},
         NEW v \in {"waiting", "rejected"}, NEW p \in Scopes \cup {None},
         state' = [state EXCEPT ![s] = v], caller' = [caller EXCEPT ![s] = p],
         v = "waiting" \/ state[s] = "waiting",
         UNCHANGED <<enclosing, connection, blocked, written, queue, session, aborted,
                     acknowledged, durable>>
  PROVE  IInv'
<1>1. TypeOK'
  BY DEF IInv, TypeOK, States, Ended
<1>2. /\ \A t \in Scopes : t # s => state'[t] = state[t] /\ caller'[t] = caller[t]
      /\ state'[s] = v
      /\ connection[s] = None
  BY DEF IInv, TypeOK, Ended
<1>a. /\ \A c, i : ScopeAt(c, i)' = ScopeAt(c, i)
      /\ \A c : Innermost(c)' = Innermost(c) /\ Chain(c)' = Chain(c) /\ (IsAborted(c)' <=> IsAborted(c))
  <2>1. \A c, i : ScopeAt(c, i)' = ScopeAt(c, i)
    BY DEF ScopeAt
  <2>2. \A c : Innermost(c)' = Innermost(c)
    BY DEF Innermost
  <2>3. QED
    BY <2>1, <2>2 DEF Chain, IsAborted
<1>3. SessionIsNested'
  <2> SUFFICES ASSUME NEW c \in Connections, NEW i \in DOMAIN session[c] PROVE NestedAt(c, i)'
    BY DEF SessionIsNested
  <2>1. ASSUME NEW j \in DOMAIN session[c]
        PROVE  NestedAt(c, j) /\ ScopeAt(c, j) \in Scopes /\ ScopeAt(c, j) # s
    <3>1. NestedAt(c, j)
      BY DEF IInv, SessionIsNested
    <3>2. QED
      BY <3>1, ScopesOfSession DEF IInv, NestedAt
  <2>2. i < Len(session[c]) => i + 1 \in DOMAIN session[c]
    BY ScopesOfSession DEF IInv
  <2>3. QED
    BY <1>2, <2>1, <2>2, NestedUnchanged DEF IInv
<1>4. HoldersAreInside'
  <2> SUFFICES ASSUME NEW t \in Scopes PROVE IsInside(t)'
    BY DEF HoldersAreInside
  <2>1. IsInside(t)
    BY DEF IInv, HoldersAreInside
  <2>2. CASE t = s
    BY <2>2, <1>2 DEF IsInside
  <2>3. CASE t # s
    <3>1. state[t] = "starting" /\ session[connection[t]] # <<>> =>
            Innermost(connection[t]) # s /\ Innermost(connection[t]) \in Scopes
      BY <2>1, ScopesOfSession DEF IsInside, IInv, TypeOK, Ended
    <3>2. QED
      BY <1>2, <1>a, <2>1, <2>3, <3>1 DEF IsInside
  <2>4. QED
    BY <2>2, <2>3
<1>5. QueueIsInOrder'
  <2> SUFFICES ASSUME NEW c \in Connections, NEW i \in DOMAIN queue[c] PROVE InOrder(c, i)'
    BY DEF QueueIsInOrder
  <2>1. WriteInPlace(c, i) /\ ControlInPlace(c, i) /\ queue[c][i].scope \in Scopes /\ i \in Nat \ {0} /\ i + 0 = i
    BY QueueOf DEF IInv, QueueIsInOrder, InOrder
  <2>2. queue[c][i].op # "write" => queue[c][i].scope # s
    BY <1>2, <2>1, ConstantsAssumption DEF ControlInPlace
  <2>3. ControlInPlace(c, i)'
    BY <1>2, <2>1, <2>2 DEF ControlInPlace
  <2>4. WriteInPlace(c, i)'
    <3>1. \A j \in 1..i : queue'[c][j] = queue[c][j + 0]
      OBVIOUS
    <3>2. QED
      BY <1>a, <2>1, <3>1, WriteStays
  <2>5. QED
    BY <2>3, <2>4 DEF InOrder
<1>6. AwaitedIsSent'
  BY <1>2 DEF IInv, AwaitedIsSent, IsAwaited
<1>8. EnclosingHasBegun'
  BY <1>2 DEF IInv, TypeOK, EnclosingHasBegun
<1>9. WritesArePlaced'
  BY <1>2, PlacedStays DEF Undone, Settled
<1>10. QED
  BY <1>1, <1>3, <1>4, <1>5, <1>6, <1>8, <1>9 DEF IInv

\* A scope that can be used, or that has outlived what it started, is the innermost one;
\* nothing on its connection starts or ends while it runs.
LEMMA RunsInside ==
  ASSUME IInv, NEW s \in Scopes, state[s] = "running", ~blocked[s] \/ CalleesEnded(s)
  PROVE  LET c == connection[s] IN
         /\ c \in Connections /\ session[c] # <<>> /\ s = Innermost(c) /\ enclosing[s] = Chain(c)
         /\ \A t \in Scopes : connection[t] = c => state[t] = "running"
         /\ \A i \in DOMAIN queue[c] : queue[c][i].op = "write"
<1> DEFINE c == connection[s]
<1>1. c \in Connections
  BY ConstantsAssumption DEF IInv, TypeOK, Ended
<1>2. PICK i \in DOMAIN session[c] : ScopeAt(c, i) = s
  BY DEF IInv, HoldersAreInside, IsInside
<1>3. i = Len(session[c])
  <2> SUFFICES ASSUME i # Len(session[c]) PROVE FALSE
    OBVIOUS
  <2>1. i < Len(session[c]) /\ i + 1 \in DOMAIN session[c]
    BY <1>1, ScopesOfSession DEF IInv
  <2>2. blocked[s] /\ caller[ScopeAt(c, i + 1)] = s
    BY <1>1, <1>2, <2>1 DEF IInv, SessionIsNested, NestedAt
  <2>3. state[ScopeAt(c, i + 1)] \in {"running", "committing", "rollingBack"}
    BY <1>1, <2>1 DEF IInv, SessionIsNested, NestedAt
  <2>4. ScopeAt(c, i + 1) \in Scopes
    BY <1>1, <2>1, ScopesOfSession DEF IInv
  <2>5. QED
    BY <2>2, <2>3, <2>4 DEF CalleesEnded, Ended
<1>4. session[c] # <<>> /\ s = Innermost(c)
  BY <1>1, <1>2, <1>3, ScopesOfSession DEF Innermost, ScopeAt, IInv
<1>e. enclosing[s] = Chain(c)
  BY <1>1, <1>4, InnermostIsNested
<1>5. ASSUME NEW t \in Scopes, connection[t] = c PROVE state[t] = "running"
  <2>1. state[t] \in {"starting", "running", "committing", "rollingBack"}
    BY <1>1, <1>5, ConstantsAssumption DEF IInv, TypeOK, Ended, States
  <2>2. ASSUME state[t] = "starting" PROVE FALSE
    <3>1. caller[t] = s /\ blocked[s]
      BY <1>4, <1>5, <2>2 DEF IInv, HoldersAreInside, IsInside
    <3>2. QED
      BY <3>1, <2>2 DEF CalleesEnded, Ended
  <2>3. ASSUME state[t] \in {"committing", "rollingBack"} PROVE FALSE
    BY <1>4, <1>5, <2>3, EndsInside
  <2>4. QED
    BY <2>1, <2>2, <2>3
<1>6. ASSUME NEW j \in DOMAIN queue[c] PROVE queue[c][j].op = "write"
  <2> DEFINE m == queue[c][j]
  <2>1. ControlInPlace(c, j) /\ m \in Statement /\ m.scope \in Scopes
    BY <1>1, QueueOf DEF IInv, QueueIsInOrder, InOrder
  <2>4. ASSUME m.op # "write" PROVE FALSE
    <3>1. state[m.scope] = StateFor(m.op) /\ state[m.scope] = "running"
      BY <1>5, <2>1, <2>4 DEF ControlInPlace
    <3>2. m.op \in {"start", "commit", "rollback"}
      BY <2>1, <2>4 DEF Statement
    <3>3. QED
      BY <3>1, <3>2 DEF StateFor
  <2>6. QED
    BY <2>4
<1>7. QED
  BY <1>1, <1>4, <1>e, <1>5, <1>6

\* A statement is sent behind others.
LEMMA SentInOrder ==
  ASSUME IInv, NEW c \in Connections, NEW m \in Statement, Send(c, m),
         UNCHANGED <<session, aborted>>,
         \A t \in Scopes : enclosing[t] # {} => enclosing'[t] = enclosing[t],
         \A i \in DOMAIN queue[c] : queue[c][i].op # "write" =>
           /\ m.op = "write" /\ connection'[queue[c][i].scope] = c
           /\ state'[queue[c][i].scope] = state[queue[c][i].scope],
         m.op = "write" =>
           /\ m.n # 0 /\ m.scope \in enclosing'[m.scope]
           /\ \A i \in DOMAIN queue[c] : queue[c][i].op # "write" =>
                queue[c][i].op \in {"commit", "rollback"} /\ queue[c][i].scope = m.scope /\ m.late
           /\ (\A i \in DOMAIN queue[c] : queue[c][i].op = "write") =>
                (IF m.late THEN enclosing'[m.scope] \ {m.scope} ELSE enclosing'[m.scope]) = Chain(c),
         m.op # "write" => connection'[m.scope] = c /\ state'[m.scope] = StateFor(m.op)
  PROVE  \A i \in DOMAIN queue'[c] : InOrder(c, i)'
<1>n. PICK last : last = Len(queue[c]) + 1
  OBVIOUS
<1>1. /\ DOMAIN queue'[c] = DOMAIN queue[c] \cup {last} /\ last \notin DOMAIN queue[c] /\ last \in Nat \ {0}
      /\ \A i \in DOMAIN queue[c] : queue'[c][i] = queue[c][i]
      /\ queue'[c][last] = m
      /\ last - 1 = Len(queue[c]) /\ DOMAIN queue[c] = 1..(last - 1)
  BY <1>n, SendEffect, QueueOf DEF IInv
<1>2. /\ Chain(c)' = Chain(c) /\ (IsAborted(c)' <=> IsAborted(c))
  BY DEF Chain, ScopeAt, IsAborted, Innermost
<1>3. ASSUME NEW i \in DOMAIN queue[c] PROVE InOrder(c, i)'
  <2>1. /\ WriteInPlace(c, i) /\ ControlInPlace(c, i) /\ queue[c][i].scope \in Scopes
        /\ i \in Nat \ {0} /\ i + 0 = i /\ \A j \in 1..i : j \in DOMAIN queue[c] /\ j + 0 = j
    BY QueueOf DEF IInv, QueueIsInOrder, InOrder
  <2>2. WriteInPlace(c, i)'
    <3>1. \A j \in 1..i : queue'[c][j] = queue[c][j + 0]
      BY <1>1, <2>1
    <3>2. QED
      BY <1>2, <2>1, <3>1, WriteStays
  <2>3. ControlInPlace(c, i)'
    BY <1>1, <2>1 DEF ControlInPlace
  <2>4. QED
    BY <2>2, <2>3 DEF InOrder
<1>4. InOrder(c, last)'
  <2>1. CASE m.op = "write"
    <3>1. Around(queue[c][last])' = IF m.late THEN enclosing'[m.scope] \ {m.scope} ELSE enclosing'[m.scope]
      BY <1>1 DEF Around
    <3>2. \A j \in 1..(last - 1) : queue'[c][j] = queue[c][j] /\ j \in DOMAIN queue[c]
      BY <1>1
    <3>a. \A j \in DOMAIN queue[c] : j \in 1..(last - 1)
      BY <1>1
    <3>3. WriteInPlace(c, last)'
      <4>1. \A j \in 1..(last - 1) : queue'[c][j].op # "write" =>
              queue'[c][j].op \in {"commit", "rollback"} /\ queue'[c][j].scope = m.scope /\ m.late
        BY <2>1, <3>2
      <4>2. (\A j \in 1..(last - 1) : queue'[c][j].op = "write") =>
              \A j \in DOMAIN queue[c] : queue[c][j].op = "write"
        BY <3>2, <3>a
      <4>3. (\A j \in 1..(last - 1) : queue'[c][j].op = "write") /\ ~IsAborted(c)' =>
              Around(queue[c][last])' = Chain(c)'
        BY <1>2, <2>1, <3>1, <4>2
      <4>4. m.n # 0 /\ m.scope \in enclosing'[m.scope]
        BY <2>1
      <4>5. QED
        BY <1>1, <4>1, <4>3, <4>4 DEF WriteInPlace
    <3>4. ControlInPlace(c, last)'
      BY <1>1, <2>1 DEF ControlInPlace
    <3>5. QED
      BY <3>3, <3>4 DEF InOrder
  <2>2. CASE m.op # "write"
    <3>1. \A j \in DOMAIN queue'[c] : queue'[c][j].op # "write" => j = last
      BY <1>1, <2>2
    <3>2. QED
      BY <1>1, <2>2, <3>1 DEF InOrder, WriteInPlace, ControlInPlace
  <2>3. QED
    BY <2>1, <2>2
<1>5. QED
  BY <1>1, <1>3, <1>4

\* What is awaited is still awaited behind what is sent.
LEMMA StillAwaited ==
  ASSUME IInv, NEW c \in Connections, NEW m \in Statement, Send(c, m), NEW t \in Scopes,
         connection[t] = c, connection'[t] = c,
         \/ state'[t] = state[t]
         \/ m.op # "write" /\ m.scope = t
         \/ state'[t] \notin {"starting", "committing", "rollingBack"}
  PROVE  IsAwaited(t)'
<1>1. /\ DOMAIN queue'[c] = DOMAIN queue[c] \cup {Len(queue[c]) + 1}
      /\ \A i \in DOMAIN queue[c] : queue'[c][i] = queue[c][i]
      /\ queue'[c][Len(queue[c]) + 1] = m
  BY SendEffect DEF IInv
<1>2. IsAwaited(t)
  BY DEF IInv, AwaitedIsSent
<1>3. QED
  BY <1>1, <1>2 DEF IsAwaited

-----------------------------------------------------------------------------
\* The steps of callbacks.

LEMMA QueryStep ==
  ASSUME IInv, NEW s \in Scopes, Query(s)
  PROVE  IInv'
<1>c. PICK c \in Connections : connection[s] = c
  BY ConstantsAssumption DEF Query, Usable, IInv, TypeOK, Ended
<1>n. written[s] + 1 \in 1..MaxWrites /\ written[s] + 1 # 0 /\ written[s] + 1 \in 0..MaxWrites
  BY ConstantsAssumption DEF Query, IInv, TypeOK
<1> DEFINE m == [op |-> "write", scope |-> s, n |-> written[s] + 1, late |-> state[s] # "running"]
<1>1. m \in Statement /\ m.op = "write" /\ m.scope = s /\ m.n # 0 /\ (m.late <=> state[s] # "running")
  BY <1>n DEF Statement
<1>2. Send(c, m)
  BY <1>c DEF Query
<1> HIDE DEF m
<1>3. /\ queue' \in [Connections -> Seq(Statement)]
      /\ \A d \in Connections \ {c} : queue'[d] = queue[d]
  BY <1>1, <1>2, SendEffect DEF IInv
<1>4. /\ UNCHANGED <<state, caller, enclosing, connection, blocked, session, aborted,
                     acknowledged, durable>>
      /\ written' \in [Scopes -> 0..MaxWrites]
  BY <1>n DEF Query, IInv, TypeOK
<1>5. TypeOK'
  BY <1>3, <1>4 DEF IInv, TypeOK
<1>6. /\ \A d \in Connections \ {c} : /\ \A i \in DOMAIN session'[d] : NestedAt(d, i)'
                                      /\ \A i \in DOMAIN queue'[d] : InOrder(d, i)'
      /\ \A t \in Scopes \ {s} : connection[t] # c => IsInside(t)' /\ IsAwaited(t)'
  BY <1>c, <1>3, <1>4, OtherConnections
<1>7. SessionIsNested' /\ HoldersAreInside'
  <2>1. ASSUME NEW d \in Connections, NEW i \in DOMAIN session[d] PROVE NestedAt(d, i)'
    BY <1>4, NestedUnchanged DEF IInv, SessionIsNested
  <2>2. ASSUME NEW t \in Scopes PROVE IsInside(t)'
    <3>1. IsInside(t)
      BY DEF IInv, HoldersAreInside
    <3>2. \A d, i : ScopeAt(d, i)' = ScopeAt(d, i)
      BY <1>4 DEF ScopeAt
    <3>3. \A d : Innermost(d)' = Innermost(d) /\ Chain(d)' = Chain(d)
      BY <1>4, <3>2 DEF Innermost, Chain
    <3>4. QED
      BY <1>4, <3>1, <3>2, <3>3 DEF IsInside
  <2>3. QED
    BY <1>4, <2>1, <2>2 DEF SessionIsNested, HoldersAreInside
<1>e. s \in enclosing[s]
  <2>1. IsInside(s) /\ state[s] \in {"running", "committing", "rollingBack"}
    BY DEF Query, Usable, IInv, HoldersAreInside
  <2>2. CASE \E i \in DOMAIN session[c] : ScopeAt(c, i) = s
    <3>1. PICK i \in DOMAIN session[c] : ScopeAt(c, i) = s
      BY <2>2
    <3>2. NestedAt(c, i) /\ i \in 1..i
      BY ScopesOfSession DEF IInv, SessionIsNested
    <3>3. QED
      BY <3>1, <3>2 DEF NestedAt
  <2>3. QED
    BY <1>c, <2>1, <2>2 DEF IsInside
<1>f. /\ \A i \in DOMAIN queue[c] : queue[c][i].op # "write" =>
           queue[c][i].op \in {"commit", "rollback"} /\ queue[c][i].scope = s /\ m.late
      /\ (\A i \in DOMAIN queue[c] : queue[c][i].op = "write") =>
           (IF m.late THEN enclosing[s] \ {s} ELSE enclosing[s]) = Chain(c)
  <2>1. CASE state[s] = "running"
    <3>1. ~blocked[s]
      BY DEF Query, Usable
    <3>2. /\ enclosing[s] = Chain(c)
          /\ \A i \in DOMAIN queue[c] : queue[c][i].op = "write"
      BY <1>c, <2>1, <3>1, RunsInside
    <3>3. QED
      BY <1>1, <2>1, <3>2
  <2>2. CASE state[s] # "running"
    <3>1. state[s] \in {"committing", "rollingBack"}
      BY <2>2 DEF Query, Usable
    <3>2. PICK i \in DOMAIN queue[c] : queue[c][i].op # "write" /\ queue[c][i].scope = s
      BY <1>c, <3>1 DEF IInv, AwaitedIsSent, IsAwaited
    <3>3. ControlInPlace(c, i) /\ queue[c][i] \in Statement
      BY QueueOf DEF IInv, QueueIsInOrder, InOrder
    <3>4. /\ state[s] = StateFor(queue[c][i].op)
          /\ \A j \in DOMAIN queue[c] : queue[c][j].op # "write" => j = i
      BY <3>2, <3>3 DEF ControlInPlace
    <3>5. queue[c][i].op \in {"commit", "rollback"}
      BY <3>1, <3>2, <3>3, <3>4 DEF StateFor, Statement
    <3>6. QED
      BY <1>1, <2>2, <3>2, <3>4, <3>5
  <2>3. QED
    BY <2>1, <2>2
<1>8. \A i \in DOMAIN queue'[c] : InOrder(c, i)'
  <2>1. ASSUME NEW i \in DOMAIN queue[c], queue[c][i].op # "write" PROVE connection'[queue[c][i].scope] = c
    BY <1>4, <2>1 DEF IInv, QueueIsInOrder, InOrder, ControlInPlace
  <2>2. QED
    BY <1>1, <1>2, <1>4, <1>e, <1>f, <2>1, SentInOrder
<1>9. QueueIsInOrder'
  BY <1>6, <1>8 DEF QueueIsInOrder
<1>10. AwaitedIsSent'
  <2> SUFFICES ASSUME NEW t \in Scopes PROVE IsAwaited(t)'
    BY DEF AwaitedIsSent
  <2>1. CASE connection[t] = c
    BY <1>1, <1>2, <1>4, <2>1, StillAwaited
  <2>2. QED
    BY <1>c, <1>6, <2>1
<1>11. EnclosingHasBegun'
  BY <1>4 DEF IInv, EnclosingHasBegun
<1>12. WritesArePlaced'
  BY <1>4, PlacedStays DEF Undone, Settled
<1>13. QED
  BY <1>5, <1>7, <1>9, <1>10, <1>11, <1>12 DEF IInv

\* The callback is resolved, or rejected.
LEMMA EndStep ==
  ASSUME IInv, NEW s \in Scopes, Resolve(s) \/ Reject(s)
  PROVE  IInv'
<1>c. PICK c \in Connections : connection[s] = c
  BY RunsInside DEF Resolve, Reject
<1>1. /\ connection[s] = c /\ session[c] # <<>> /\ s = Innermost(c) /\ state[s] = "running"
      /\ \A t \in Scopes : connection[t] = c => state[t] = "running"
      /\ \A i \in DOMAIN queue[c] : queue[c][i].op = "write"
  BY <1>c, RunsInside DEF Resolve, Reject
<1>2. PICK op \in {"commit", "rollback"} :
        Send(c, Control(op, s)) /\ state' = [state EXCEPT ![s] = StateFor(op)]
  BY <1>c DEF Resolve, Reject, StateFor
<1>m. PICK m : m = Control(op, s)
  OBVIOUS
<1>n. m \in Statement /\ m.op = op /\ m.op # "write" /\ m.scope = s /\ Send(c, m)
  BY <1>2, <1>m, ConstantsAssumption DEF Statement, Control
<1>3. /\ queue' \in [Connections -> Seq(Statement)]
      /\ \A d \in Connections \ {c} : queue'[d] = queue[d]
  BY <1>n, SendEffect DEF IInv
<1>4. /\ UNCHANGED <<caller, enclosing, connection, blocked, written, session, aborted,
                     acknowledged, durable>>
      /\ \A t \in Scopes \ {s} : state'[t] = state[t]
      /\ state'[s] = StateFor(op) /\ state'[s] \in {"committing", "rollingBack"}
  BY <1>2 DEF Resolve, Reject, IInv, TypeOK, StateFor
<1>5. TypeOK'
  BY <1>1, <1>2, <1>3, <1>4 DEF IInv, TypeOK, States, Ended
<1>6. /\ \A d \in Connections \ {c} : /\ \A i \in DOMAIN session'[d] : NestedAt(d, i)'
                                      /\ \A i \in DOMAIN queue'[d] : InOrder(d, i)'
      /\ \A t \in Scopes \ {s} : connection[t] # c => IsInside(t)' /\ IsAwaited(t)'
  BY <1>1, <1>3, <1>4, OtherConnections
<1>7. ASSUME NEW i \in DOMAIN session[c] PROVE NestedAt(c, i)'
  <2>1. /\ NestedAt(c, i) /\ NestedAt(c, Len(session[c])) /\ i \in 1..i /\ i \in 1..Len(session[c])
        /\ ScopeAt(c, i) \in Scopes
    BY <1>1, ScopesOfSession DEF IInv, SessionIsNested
  <2>2. \A j : ScopeAt(c, j)' = ScopeAt(c, j)
    BY <1>4 DEF ScopeAt
  <2>3. i < Len(session[c]) => ScopeAt(c, i) # s
    BY <1>1, <2>1 DEF NestedAt, Innermost, ScopeAt
  <2>4. state'[ScopeAt(c, i)] \in {"running", "committing", "rollingBack"}
    BY <1>1, <1>4, <2>1 DEF NestedAt
  <2>5. i < Len(session'[c]) => /\ state'[ScopeAt(c, i)] = "running" /\ blocked'[ScopeAt(c, i)]
                                /\ caller'[ScopeAt(c, i + 1)'] = ScopeAt(c, i)
    BY <1>4, <2>1, <2>2, <2>3 DEF NestedAt
  <2>6. connection'[ScopeAt(c, i)] = c /\ enclosing'[ScopeAt(c, i)] = enclosing[ScopeAt(c, i)]
    BY <1>4, <2>1 DEF NestedAt
  <2>7. QED
    BY <2>1, <2>2, <2>4, <2>5, <2>6, NestedStays, Zenon
<1>8. SessionIsNested'
  BY <1>4, <1>6, <1>7 DEF SessionIsNested
<1>9. HoldersAreInside'
  <2> SUFFICES ASSUME NEW t \in Scopes PROVE IsInside(t)'
    BY DEF HoldersAreInside
  <2>1. CASE connection[t] = c
    <3>1. \E i \in DOMAIN session[c] : ScopeAt(c, i) = t
      BY <1>1, <2>1 DEF IInv, HoldersAreInside, IsInside
    <3>2. state'[t] # "starting"
      BY <1>1, <1>4, <2>1
    <3>3. QED
      BY <1>4, <2>1, <3>1, <3>2 DEF IsInside, ScopeAt
  <2>2. QED
    BY <1>1, <1>6, <2>1
<1>10. \A i \in DOMAIN queue'[c] : InOrder(c, i)'
  BY <1>1, <1>4, <1>n, SentInOrder
<1>11. QueueIsInOrder'
  BY <1>6, <1>10 DEF QueueIsInOrder
<1>12. AwaitedIsSent'
  <2> SUFFICES ASSUME NEW t \in Scopes PROVE IsAwaited(t)'
    BY DEF AwaitedIsSent
  <2>1. CASE connection[t] = c
    BY <1>4, <1>n, <2>1, StillAwaited
  <2>2. QED
    BY <1>1, <1>6, <2>1
<1>14. EnclosingHasBegun'
  BY <1>4, <1>1 DEF IInv, TypeOK, EnclosingHasBegun
<1>15. WritesArePlaced'
  <2>1. \A t \in Scopes : Undone(t) => Undone(t)'
    BY <1>1, <1>4 DEF Undone
  <2>2. \A t \in Scopes : Settled(t) => Settled(t)'
    BY <1>1, <1>4 DEF Settled
  <2>3. QED
    BY <1>4, <2>1, <2>2, PlacedStays
<1>16. QED
  BY <1>5, <1>8, <1>9, <1>11, <1>12, <1>14, <1>15 DEF IInv

\* A connection that nothing holds is clean: what has not been answered are late queries.
LEMMA FreeIsClean ==
  ASSUME IInv, NEW c \in Connections, \A s \in Scopes : connection[s] # c
  PROVE  /\ session[c] = <<>>
         /\ \A i \in DOMAIN queue[c] : queue[c][i].op = "write" /\ queue[c][i].late
<1>1. session[c] = <<>>
  <2> SUFFICES ASSUME session[c] # <<>> PROVE FALSE
    OBVIOUS
  <2>1. Len(session[c]) \in DOMAIN session[c]
    BY ScopesOfSession DEF IInv
  <2>2. NestedAt(c, Len(session[c])) /\ ScopeAt(c, Len(session[c])) \in Scopes
    BY <2>1, ScopesOfSession DEF IInv, SessionIsNested
  <2>3. QED
    BY <2>2 DEF NestedAt
<1>2. \A i \in DOMAIN queue[c] : queue[c][i].op = "write"
  <2> SUFFICES ASSUME NEW i \in DOMAIN queue[c], queue[c][i].op # "write" PROVE FALSE
    OBVIOUS
  <2>1. ControlInPlace(c, i) /\ queue[c][i].scope \in Scopes
    BY QueueOf DEF IInv, QueueIsInOrder, InOrder
  <2>2. QED
    BY <2>1 DEF ControlInPlace
<1>3. ~IsAborted(c) /\ Chain(c) = {}
  BY <1>1 DEF IsAborted, Chain
<1>4. ASSUME NEW i \in DOMAIN queue[c] PROVE queue[c][i].late
  <2>1. WriteInPlace(c, i) /\ \A j \in 1..i : j \in DOMAIN queue[c]
    BY QueueOf DEF IInv, QueueIsInOrder, InOrder
  <2>2. i \in Nat \ {0}
    BY QueueOf DEF IInv
  <2>3. \A j \in 1..(i - 1) : j \in DOMAIN queue[c]
    BY <2>1, <2>2
  <2>4. /\ queue[c][i].scope \in enclosing[queue[c][i].scope]
        /\ Around(queue[c][i]) = {}
    BY <1>2, <1>3, <2>1, <2>3 DEF WriteInPlace
  <2>5. QED
    BY <2>4 DEF Around
<1>5. QED
  BY <1>1, <1>2, <1>4

LEMMA AcquireStep ==
  ASSUME IInv, NEW s \in Scopes, NEW c \in Connections, Acquire(s, c)
  PROVE  IInv'
<1>1. /\ state[s] = "waiting" /\ connection[s] = None /\ enclosing[s] = {} /\ c # None
      /\ \A t \in Scopes : connection[t] # c
  BY ConstantsAssumption DEF Acquire, Free, IInv, TypeOK, EnclosingHasBegun
<1>2. session[c] = <<>> /\ Chain(c) = {} /\ \A i \in DOMAIN queue[c] : queue[c][i].op = "write"
  BY <1>1, FreeIsClean DEF Chain
<1>m. PICK m : m = Control("start", s)
  OBVIOUS
<1>n. m \in Statement /\ m.op = "start" /\ m.op # "write" /\ m.scope = s /\ Send(c, m)
  BY <1>m, ConstantsAssumption DEF Statement, Control, Acquire
<1>3. /\ queue' \in [Connections -> Seq(Statement)]
      /\ \A d \in Connections \ {c} : queue'[d] = queue[d]
  BY <1>n, SendEffect DEF IInv
<1>4. /\ UNCHANGED <<caller, blocked, written, session, aborted, acknowledged, durable>>
      /\ \A t \in Scopes \ {s} : /\ state'[t] = state[t] /\ connection'[t] = connection[t]
                                 /\ enclosing'[t] = enclosing[t]
      /\ state'[s] = "starting" /\ connection'[s] = c /\ enclosing'[s] = {s}
  BY DEF Acquire, IInv, TypeOK
<1>5. TypeOK'
  BY <1>1, <1>3, <1>4 DEF Acquire, IInv, TypeOK, States, Ended
<1>k. \A t \in Scopes : enclosing[t] # {} => enclosing'[t] = enclosing[t]
  BY <1>1, <1>4
<1>6. /\ \A d \in Connections \ {c} : /\ \A i \in DOMAIN session'[d] : NestedAt(d, i)'
                                      /\ \A i \in DOMAIN queue'[d] : InOrder(d, i)'
      /\ \A t \in Scopes \ {s} : connection[t] # c => IsInside(t)' /\ IsAwaited(t)'
  BY <1>1, <1>3, <1>4, <1>k, OtherConnections
<1>7. SessionIsNested'
  BY <1>2, <1>4, <1>6 DEF SessionIsNested
<1>8. HoldersAreInside'
  <2>1. IsInside(s)'
    BY <1>2, <1>4 DEF IsInside, Chain
  <2>2. QED
    BY <1>1, <1>6, <2>1 DEF HoldersAreInside
<1>9. QueueIsInOrder'
  <2>1. \A i \in DOMAIN queue'[c] : InOrder(c, i)'
    BY <1>2, <1>4, <1>k, <1>n, SentInOrder DEF StateFor
  <2>2. QED
    BY <1>6, <2>1 DEF QueueIsInOrder
<1>10. AwaitedIsSent'
  <2>1. IsAwaited(s)'
    <3>1. Len(queue[c]) + 1 \in DOMAIN queue'[c] /\ queue'[c][Len(queue[c]) + 1] = m
      BY <1>n, SendEffect DEF IInv
    <3>2. QED
      BY <1>4, <1>n, <3>1 DEF IsAwaited
  <2>2. QED
    BY <1>1, <1>6, <2>1 DEF AwaitedIsSent
<1>12. EnclosingHasBegun'
  <2>1. ASSUME NEW t \in Scopes \ {s}
        PROVE  /\ state'[t] \in {"unused", "waiting"} => enclosing'[t] = {}
               /\ \A u \in enclosing'[t] : state'[u] \notin {"unused", "waiting"}
    <3>1. /\ state[t] \in {"unused", "waiting"} => enclosing[t] = {}
          /\ \A u \in enclosing[t] : u \in Scopes \ {s} /\ state[u] \notin {"unused", "waiting"}
      BY <1>1 DEF IInv, TypeOK, EnclosingHasBegun
    <3>2. QED
      BY <1>4, <3>1
  <2>2. QED
    BY <1>4, <2>1 DEF EnclosingHasBegun
<1>13. WritesArePlaced'
  <2>1. \A t \in Scopes : Undone(t) => Undone(t)'
    BY <1>1, <1>4 DEF Undone
  <2>2. \A t \in Scopes : Settled(t) => Settled(t)'
    BY <1>1, <1>4 DEF Settled
  <2>3. QED
    BY <1>4, <1>k, <2>1, <2>2, PlacedStays
<1>14. QED
  BY <1>5, <1>7, <1>8, <1>9, <1>10, <1>12, <1>13 DEF IInv

LEMMA NestStep ==
  ASSUME IInv, NEW s \in Scopes, NEW p \in Scopes, Nest(s, p)
  PROVE  IInv'
<1>c. PICK c \in Connections : connection[p] = c
  BY RunsInside DEF Nest
<1>1. /\ connection[p] = c /\ session[c] # <<>> /\ p = Innermost(c) /\ state[p] = "running"
      /\ enclosing[p] = Chain(c)
      /\ \A t \in Scopes : connection[t] = c => state[t] = "running"
      /\ \A i \in DOMAIN queue[c] : queue[c][i].op = "write"
  BY <1>c, RunsInside DEF Nest
<1>2. /\ state[s] = "unused" /\ connection[s] = None /\ enclosing[s] = {} /\ s # p /\ c # None
  BY <1>1, ConstantsAssumption DEF Nest, IInv, TypeOK, Ended, EnclosingHasBegun
<1>m. PICK m : m = Control("start", s)
  OBVIOUS
<1>n. m \in Statement /\ m.op = "start" /\ m.op # "write" /\ m.scope = s /\ Send(c, m)
  BY <1>c, <1>m, ConstantsAssumption DEF Statement, Control, Nest
<1>3. /\ queue' \in [Connections -> Seq(Statement)]
      /\ \A d \in Connections \ {c} : queue'[d] = queue[d]
  BY <1>n, SendEffect DEF IInv
<1>4. /\ UNCHANGED <<written, session, aborted, acknowledged, durable>>
      /\ \A t \in Scopes \ {s} : /\ state'[t] = state[t] /\ connection'[t] = connection[t]
                                 /\ enclosing'[t] = enclosing[t] /\ caller'[t] = caller[t]
                                 /\ t # p => blocked'[t] = blocked[t]
      /\ state'[s] = "starting" /\ connection'[s] = c /\ enclosing'[s] = enclosing[p] \cup {s}
      /\ caller'[s] = p /\ blocked'[p] /\ blocked'[s] = blocked[s]
  BY <1>c, <1>2 DEF Nest, Block, IInv, TypeOK
<1>5. TypeOK'
  <2>1. UNCHANGED <<written, session, aborted, acknowledged, durable>>
    BY <1>4
  <2>2. /\ caller' \in [Scopes -> Scopes \cup {None}] /\ enclosing' \in [Scopes -> SUBSET Scopes]
        /\ connection' \in [Scopes -> Connections \cup {None}] /\ blocked' \in [Scopes -> BOOLEAN]
        /\ state' \in [Scopes -> States]
    BY <1>c DEF Nest, Block, IInv, TypeOK, States
  <2>3. \A t \in Scopes : connection'[t] = None <=> state'[t] \in Ended \cup {"waiting"}
    BY <1>2, <1>4 DEF IInv, TypeOK, Ended
  <2>4. QED
    BY <1>3, <2>1, <2>2, <2>3 DEF IInv, TypeOK
<1>k. \A t \in Scopes : enclosing[t] # {} => enclosing'[t] = enclosing[t]
  BY <1>2, <1>4
<1>6. /\ \A d \in Connections \ {c} : /\ \A i \in DOMAIN session'[d] : NestedAt(d, i)'
                                      /\ \A i \in DOMAIN queue'[d] : InOrder(d, i)'
      /\ \A t \in Scopes \ {s} : connection[t] # c => IsInside(t)' /\ IsAwaited(t)'
  BY <1>1, <1>2, <1>3, <1>4, <1>k, OtherConnections
<1>a. \A i : ScopeAt(c, i)' = ScopeAt(c, i)
  BY <1>4 DEF ScopeAt
<1>b. Innermost(c)' = p /\ Chain(c)' = Chain(c)
  BY <1>1, <1>4, <1>a DEF Innermost, Chain
<1>7. ASSUME NEW i \in DOMAIN session[c] PROVE NestedAt(c, i)'
  <2>1. /\ NestedAt(c, i) /\ i \in 1..i /\ ScopeAt(c, i) \in Scopes
        /\ i < Len(session[c]) => i + 1 \in DOMAIN session[c]
    BY ScopesOfSession DEF IInv, SessionIsNested
  <2>2. ScopeAt(c, i) # s /\ (i < Len(session[c]) => ScopeAt(c, i + 1) # s /\ ScopeAt(c, i + 1) \in Scopes)
    <3>1. ASSUME NEW j \in DOMAIN session[c] PROVE ScopeAt(c, j) # s /\ ScopeAt(c, j) \in Scopes
      BY <1>2, ScopesOfSession DEF IInv, SessionIsNested, NestedAt
    <3>2. QED
      BY <2>1, <3>1
  <2>3. i < Len(session[c]) => blocked'[ScopeAt(c, i)]
    BY <1>4, <2>1, <2>2 DEF NestedAt
  <2>4. i < Len(session'[c]) => /\ state'[ScopeAt(c, i)] = "running" /\ blocked'[ScopeAt(c, i)]
                                /\ caller'[ScopeAt(c, i + 1)'] = ScopeAt(c, i)
    BY <1>4, <1>a, <2>1, <2>2, <2>3 DEF NestedAt
  <2>5. /\ connection'[ScopeAt(c, i)] = c /\ enclosing'[ScopeAt(c, i)] = enclosing[ScopeAt(c, i)]
        /\ state'[ScopeAt(c, i)] \in {"running", "committing", "rollingBack"}
    BY <1>4, <2>1, <2>2 DEF NestedAt
  <2>6. QED
    BY <1>a, <2>1, <2>4, <2>5, NestedStays, Zenon
<1>8. SessionIsNested'
  BY <1>4, <1>6, <1>7 DEF SessionIsNested
<1>9. HoldersAreInside'
  <2>1. IsInside(s)'
    BY <1>1, <1>2, <1>4, <1>a, <1>b DEF IsInside
  <2>2. ASSUME NEW t \in Scopes \ {s}, connection[t] = c PROVE IsInside(t)'
    <3>1. \E i \in DOMAIN session[c] : ScopeAt(c, i) = t
      BY <1>1, <2>2 DEF IInv, HoldersAreInside, IsInside
    <3>2. QED
      BY <1>1, <1>4, <1>a, <2>2, <3>1 DEF IsInside
  <2>3. QED
    BY <1>6, <2>1, <2>2 DEF HoldersAreInside
<1>10. QueueIsInOrder'
  <2>1. \A i \in DOMAIN queue'[c] : InOrder(c, i)'
    BY <1>1, <1>4, <1>k, <1>n, SentInOrder DEF StateFor
  <2>2. QED
    BY <1>6, <2>1 DEF QueueIsInOrder
<1>11. AwaitedIsSent'
  <2>1. IsAwaited(s)'
    <3>1. Len(queue[c]) + 1 \in DOMAIN queue'[c] /\ queue'[c][Len(queue[c]) + 1] = m
      BY <1>n, SendEffect DEF IInv
    <3>2. QED
      BY <1>4, <1>n, <3>1 DEF IsAwaited
  <2>2. ASSUME NEW t \in Scopes \ {s}, connection[t] = c PROVE IsAwaited(t)'
    BY <1>1, <1>4, <2>2 DEF IsAwaited
  <2>3. QED
    BY <1>6, <2>1, <2>2 DEF AwaitedIsSent
<1>13. EnclosingHasBegun'
  <2>1. ASSUME NEW t \in Scopes
        PROVE  /\ state[t] \in {"unused", "waiting"} => enclosing[t] = {}
               /\ \A u \in enclosing[t] : u \in Scopes \ {s} /\ state[u] \notin {"unused", "waiting"}
    BY <1>2 DEF IInv, TypeOK, EnclosingHasBegun
  <2>2. ASSUME NEW t \in Scopes \ {s}
        PROVE  /\ state'[t] \in {"unused", "waiting"} => enclosing'[t] = {}
               /\ \A u \in enclosing'[t] : state'[u] \notin {"unused", "waiting"}
    BY <1>4, <2>1
  <2>3. \A u \in enclosing'[s] : state'[u] \notin {"unused", "waiting"}
    BY <1>4, <2>1
  <2>4. QED
    BY <1>4, <2>2, <2>3 DEF EnclosingHasBegun
<1>14. WritesArePlaced'
  <2>1. \A t \in Scopes : Undone(t) => Undone(t)'
    BY <1>2, <1>4 DEF Undone
  <2>2. \A t \in Scopes : Settled(t) => Settled(t)'
    BY <1>2, <1>4 DEF Settled
  <2>3. QED
    BY <1>4, <1>k, <2>1, <2>2, PlacedStays
<1>15. QED
  BY <1>5, <1>8, <1>9, <1>10, <1>11, <1>13, <1>14 DEF IInv

-----------------------------------------------------------------------------
\* The answers of Postgres.

\* The answer to a statement other than a write: its scope is the only one that starts or
\* ends, and what is behind it are late queries of that scope.
LEMMA OneIsAwaited ==
  ASSUME IInv, NEW c \in Connections, queue[c] # <<>>, Head(queue[c]).op # "write"
  PROVE  LET s == Head(queue[c]).scope IN
         /\ s \in Scopes /\ Head(queue[c]).op \in {"start", "commit", "rollback"}
         /\ connection[s] = c /\ state[s] = StateFor(Head(queue[c]).op)
         /\ \A t \in Scopes : connection[t] = c /\ t # s => state[t] = "running"
         /\ \A i \in DOMAIN queue[c] : i # 1 =>
              /\ queue[c][i].op = "write" /\ queue[c][i].n # 0
              /\ queue[c][i].late /\ queue[c][i].scope = s /\ s \in enclosing[s]
              /\ Head(queue[c]).op \in {"commit", "rollback"}
<1> DEFINE s == Head(queue[c]).scope
<1>1. /\ queue[c] \in Seq(Statement) /\ Head(queue[c]) = queue[c][1] /\ Len(queue[c]) >= 1
      /\ Head(queue[c]) \in Statement
  BY TailOf DEF IInv, TypeOK
<1>2. 1 \in DOMAIN queue[c] /\ s \in Scopes /\ Head(queue[c]).op \in {"start", "commit", "rollback"}
  BY <1>1 DEF Statement
<1>3. ControlInPlace(c, 1)
  BY <1>2 DEF IInv, QueueIsInOrder, InOrder
<1>4. /\ connection[s] = c /\ state[s] = StateFor(Head(queue[c]).op)
      /\ \A j \in DOMAIN queue[c] : queue[c][j].op # "write" => j = 1
  BY <1>1, <1>3 DEF ControlInPlace
<1>5. ASSUME NEW t \in Scopes, connection[t] = c, t # s PROVE state[t] = "running"
  <2>1. state[t] \in {"starting", "running", "committing", "rollingBack"}
    BY <1>5, ConstantsAssumption DEF IInv, TypeOK, Ended, States
  <2>2. state[t] \notin {"starting", "committing", "rollingBack"}
    BY <1>1, <1>4, <1>5 DEF IInv, AwaitedIsSent, IsAwaited
  <2>3. QED
    BY <2>1, <2>2
<1>6. ASSUME NEW i \in DOMAIN queue[c], i # 1
      PROVE  /\ queue[c][i].op = "write" /\ queue[c][i].n # 0
             /\ queue[c][i].late /\ queue[c][i].scope = s /\ s \in enclosing[s]
             /\ Head(queue[c]).op \in {"commit", "rollback"}
  <2>1. queue[c][i].op = "write" /\ WriteInPlace(c, i) /\ i \in Nat \ {0}
    BY <1>4, <1>6, QueueOf DEF IInv, QueueIsInOrder, InOrder
  <2>2. 1 \in 1..(i - 1)
    BY <1>6, <2>1
  <2>3. QED
    BY <1>1, <2>1, <2>2 DEF WriteInPlace
<1>7. QED
  BY <1>2, <1>4, <1>5, <1>6

LEMMA StartFailsStep ==
  ASSUME IInv, NEW c \in Connections, StartFails(c)
  PROVE  IInv'
<1>s. PICK s \in Scopes : s = Head(queue[c]).scope
  BY OneIsAwaited DEF StartFails, Sent
<1>1. /\ connection[s] = c /\ state[s] = "starting"
      /\ \A t \in Scopes : connection[t] = c /\ t # s => state[t] = "running"
      /\ \A i \in DOMAIN queue[c] : i = 1
  BY <1>s, OneIsAwaited DEF StartFails, Sent, StateFor
<1>q. queue[c] # <<>> /\ queue' = [queue EXCEPT ![c] = Tail(@)] /\ Abort(c)
  BY DEF StartFails, Sent
<1>3. /\ queue' \in [Connections -> Seq(Statement)]
      /\ \A d \in Connections \ {c} : queue'[d] = queue[d]
      /\ \A i \in DOMAIN queue'[c] : FALSE
  <2>1. \A i \in DOMAIN queue'[c] : i \in Nat \ {0} /\ i + 1 \in DOMAIN queue[c]
    BY <1>q, TailEffect DEF IInv
  <2>2. ASSUME NEW i \in DOMAIN queue'[c] PROVE FALSE
    <3>1. i \in Nat \ {0} /\ i + 1 = 1
      BY <1>1, <2>1
    <3>2. QED
      BY <3>1
  <2>3. QED
    BY <1>q, <2>2, TailEffect DEF IInv
<1>4. /\ UNCHANGED <<caller, enclosing, blocked, written, session, acknowledged, durable>>
      /\ \A t \in Scopes \ {s} : state'[t] = state[t] /\ connection'[t] = connection[t]
      /\ state'[s] = "rejected" /\ connection'[s] = None
      /\ aborted \subseteq aborted' /\ aborted' \subseteq Scopes
  BY <1>s, <1>q, AbortGrows DEF StartFails, IInv, TypeOK
<1>5. TypeOK'
  <2>1. state' \in [Scopes -> States] /\ connection' \in [Scopes -> Connections \cup {None}]
    BY <1>s DEF StartFails, IInv, TypeOK, States
  <2>3. \A t \in Scopes : connection'[t] = None <=> state'[t] \in Ended \cup {"waiting"}
    BY <1>4 DEF IInv, TypeOK, Ended
  <2>4. QED
    BY <1>3, <1>4, <2>1, <2>3 DEF IInv, TypeOK
<1>6. /\ \A d \in Connections \ {c} : /\ \A i \in DOMAIN session'[d] : NestedAt(d, i)'
                                      /\ \A i \in DOMAIN queue'[d] : InOrder(d, i)'
      /\ \A t \in Scopes \ {s} : connection[t] # c => IsInside(t)' /\ IsAwaited(t)'
  BY <1>1, <1>3, <1>4, OtherConnections
<1>a. \A d, i : ScopeAt(d, i)' = ScopeAt(d, i)
  BY <1>4 DEF ScopeAt
<1>7. ASSUME NEW i \in DOMAIN session[c] PROVE NestedAt(c, i)'
  <2>1. NestedAt(c, i) /\ ScopeAt(c, i) \in Scopes
    BY ScopesOfSession DEF IInv, SessionIsNested
  <2>2. ScopeAt(c, i) # s
    BY <1>1, <2>1 DEF NestedAt
  <2>3. QED
    BY <1>4, <2>1, <2>2, NestedUnchanged DEF IInv
<1>8. SessionIsNested'
  BY <1>4, <1>6, <1>7 DEF SessionIsNested
<1>9. HoldersAreInside'
  <2>1. IsInside(s)'
    BY <1>4 DEF IsInside
  <2>2. ASSUME NEW t \in Scopes \ {s}, connection[t] = c PROVE IsInside(t)'
    <3>1. \E i \in DOMAIN session[c] : ScopeAt(c, i) = t
      BY <1>1, <2>2 DEF IInv, HoldersAreInside, IsInside
    <3>2. QED
      BY <1>1, <1>4, <1>a, <2>2, <3>1 DEF IsInside
  <2>3. QED
    BY <1>6, <2>1, <2>2 DEF HoldersAreInside
<1>10. QueueIsInOrder'
  BY <1>3, <1>6 DEF QueueIsInOrder
<1>11. AwaitedIsSent'
  <2>1. IsAwaited(s)'
    BY <1>4 DEF IsAwaited
  <2>2. ASSUME NEW t \in Scopes \ {s}, connection[t] = c PROVE IsAwaited(t)'
    BY <1>1, <1>4, <2>2 DEF IsAwaited
  <2>3. QED
    BY <1>6, <2>1, <2>2 DEF AwaitedIsSent
<1>13. EnclosingHasBegun'
  BY <1>4 DEF IInv, TypeOK, EnclosingHasBegun
<1>14. WritesArePlaced'
  <2>1. \A t \in Scopes : Undone(t) => Undone(t)'
    BY <1>1, <1>4 DEF Undone
  <2>2. \A t \in Scopes : Settled(t) => Settled(t)'
    BY <1>1, <1>4, <1>q, AbortEffect DEF Settled
  <2>3. QED
    BY <1>4, <2>1, <2>2, PlacedStays
<1>15. QED
  BY <1>5, <1>8, <1>9, <1>10, <1>11, <1>13, <1>14 DEF IInv

\* The answer to a write.
LEMMA WriteAnswered ==
  ASSUME IInv, NEW c \in Connections, queue[c] # <<>>, Head(queue[c]).op = "write",
         queue' = [queue EXCEPT ![c] = Tail(@)],
         UNCHANGED <<state, caller, enclosing, connection, blocked>>,
         aborted \subseteq aborted',
         \A d \in Connections : /\ DOMAIN session'[d] = DOMAIN session[d]
                                /\ Len(session'[d]) = Len(session[d])
                                /\ session'[d] = <<>> <=> session[d] = <<>>
                                /\ \A i \in DOMAIN session[d] : ScopeAt(d, i)' = ScopeAt(d, i)
  PROVE  SessionIsNested' /\ HoldersAreInside' /\ QueueIsInOrder' /\ AwaitedIsSent' /\ EnclosingHasBegun'
<1>1. /\ \A d \in Connections \ {c} : queue'[d] = queue[d]
      /\ \A i \in DOMAIN queue'[c] : /\ i \in Nat \ {0} /\ i + 1 \in DOMAIN queue[c]
                                     /\ \A j \in 1..i : queue'[c][j] = queue[c][j + 1]
      /\ \A i \in DOMAIN queue[c] : i # 1 => i - 1 \in DOMAIN queue'[c] /\ queue'[c][i - 1] = queue[c][i]
      /\ Head(queue[c]) = queue[c][1]
  BY TailEffect DEF IInv
<1>a. ASSUME NEW d \in Connections
      PROVE  Chain(d)' = Chain(d) /\ (session[d] # <<>> => Innermost(d)' = Innermost(d))
  <2>1. session[d] # <<>> => Innermost(d)' = Innermost(d)
    <3>1. session[d] # <<>> => Len(session[d]) \in DOMAIN session[d]
      BY ScopesOfSession DEF IInv
    <3>2. QED
      BY <3>1 DEF Innermost, ScopeAt
  <2>2. QED
    BY <2>1 DEF Chain
<1>b. \A d \in Connections : IsAborted(d) => IsAborted(d)'
  BY <1>a DEF IsAborted
<1>3. ASSUME NEW d \in Connections, NEW i \in DOMAIN session[d] PROVE NestedAt(d, i)'
  <2>1. /\ NestedAt(d, i) /\ i \in 1..i /\ \A j \in 1..i : j \in DOMAIN session[d]
        /\ i < Len(session[d]) => i + 1 \in DOMAIN session[d]
    BY ScopesOfSession DEF IInv, SessionIsNested
  <2>2. \A j \in 1..i : ScopeAt(d, j)' = ScopeAt(d, j)
    BY <2>1
  <2>3. /\ connection'[ScopeAt(d, i)] = d /\ enclosing'[ScopeAt(d, i)] = enclosing[ScopeAt(d, i)]
        /\ state'[ScopeAt(d, i)] \in {"running", "committing", "rollingBack"}
    BY <2>1 DEF NestedAt
  <2>4. i < Len(session'[d]) => /\ state'[ScopeAt(d, i)] = "running" /\ blocked'[ScopeAt(d, i)]
                                /\ caller'[ScopeAt(d, i + 1)'] = ScopeAt(d, i)
    BY <2>1 DEF NestedAt
  <2>5. QED
    BY <2>1, <2>2, <2>3, <2>4, NestedStays, Zenon
<1>4. SessionIsNested'
  BY <1>3 DEF SessionIsNested
<1>5. ASSUME NEW t \in Scopes PROVE IsInside(t)'
  <2>1. IsInside(t) /\ (state[t] # "starting" \/ connection[t] \in Connections)
    BY DEF IInv, HoldersAreInside, TypeOK, Ended
  <2>2. CASE state[t] \in {"running", "committing", "rollingBack"}
    <3>1. connection[t] \in Connections
      BY <2>2, ConstantsAssumption DEF IInv, TypeOK, Ended
    <3>2. QED
      BY <2>1, <2>2, <3>1 DEF IsInside
  <2>3. CASE state[t] = "starting"
    <3>2. /\ session[connection[t]] # <<>> => Innermost(connection[t])' = Innermost(connection[t])
          /\ Chain(connection[t])' = Chain(connection[t])
      BY <1>a, <2>1, <2>3
    <3>3. QED
      BY <2>1, <2>3, <3>2 DEF IsInside
  <2>4. CASE state[t] \notin {"starting", "running", "committing", "rollingBack"}
    BY <2>4 DEF IsInside
  <2>5. QED
    BY <2>2, <2>3, <2>4
<1>6. HoldersAreInside'
  BY <1>5 DEF HoldersAreInside
<1>7. ASSUME NEW d \in Connections, NEW i \in DOMAIN queue'[d] PROVE InOrder(d, i)'
  <2>1. CASE d = c
    <3>1. /\ WriteInPlace(c, i + 1) /\ ControlInPlace(c, i + 1) /\ i \in Nat \ {0} /\ i \in 1..i
          /\ queue[c][i + 1].scope \in Scopes
      BY <1>1, <2>1, QueueOf DEF IInv, QueueIsInOrder, InOrder
    <3>2. WriteInPlace(c, i)'
      BY <1>1, <1>a, <1>b, <2>1, <3>1, WriteStays
    <3>3. ControlInPlace(c, i)'
      <4> SUFFICES ASSUME queue'[c][i].op # "write"
                   PROVE  /\ connection'[queue'[c][i].scope] = c
                          /\ state'[queue'[c][i].scope] = StateFor(queue'[c][i].op)
                          /\ \A j \in DOMAIN queue'[c] : queue'[c][j].op # "write" => j = i
        BY DEF ControlInPlace
      <4>1. queue'[c][i] = queue[c][i + 1]
        BY <1>1, <2>1, <3>1
      <4>2. /\ connection[queue[c][i + 1].scope] = c
            /\ state[queue[c][i + 1].scope] = StateFor(queue[c][i + 1].op)
            /\ \A j \in DOMAIN queue[c] : queue[c][j].op # "write" => j = i + 1
        BY <3>1, <4>1 DEF ControlInPlace
      <4>3. ASSUME NEW j \in DOMAIN queue'[c], queue'[c][j].op # "write" PROVE j = i
        <5>1. j \in Nat \ {0} /\ j + 1 \in DOMAIN queue[c] /\ queue'[c][j] = queue[c][j + 1]
          <6>1. j \in Nat \ {0} /\ j + 1 \in DOMAIN queue[c] /\ \A k \in 1..j : queue'[c][k] = queue[c][k + 1]
            BY <1>1
          <6>2. j \in 1..j
            BY <6>1
          <6>3. QED
            BY <6>1, <6>2
        <5>2. j + 1 = i + 1
          BY <4>2, <4>3, <5>1
        <5>3. QED
          BY <3>1, <5>1, <5>2
      <4>4. QED
        BY <4>1, <4>2, <4>3
    <3>4. QED
      BY <2>1, <3>2, <3>3 DEF InOrder
  <2>2. CASE d # c
    <3>1. /\ WriteInPlace(d, i) /\ ControlInPlace(d, i) /\ queue'[d] = queue[d] /\ i \in Nat \ {0}
          /\ queue[d][i].scope \in Scopes /\ i + 0 = i
      BY <1>1, <2>2, QueueOf DEF IInv, QueueIsInOrder, InOrder
    <3>2. \A j \in 1..i : queue'[d][j] = queue[d][j + 0]
      <4>1. \A j \in 1..i : j + 0 = j
        OBVIOUS
      <4>2. QED
        BY <3>1, <4>1
    <3>3. WriteInPlace(d, i)'
      BY <1>a, <1>b, <3>1, <3>2, WriteStays
    <3>4. ControlInPlace(d, i)'
      BY <3>1 DEF ControlInPlace
    <3>5. QED
      BY <3>3, <3>4 DEF InOrder
  <2>3. QED
    BY <2>1, <2>2
<1>8. QueueIsInOrder'
  BY <1>7 DEF QueueIsInOrder
<1>9. ASSUME NEW t \in Scopes PROVE IsAwaited(t)'
  <2> SUFFICES ASSUME state[t] \in {"starting", "committing", "rollingBack"}
               PROVE  \E i \in DOMAIN queue'[connection[t]] : /\ queue'[connection[t]][i].op # "write"
                                                              /\ queue'[connection[t]][i].scope = t
    BY DEF IsAwaited
  <2>1. PICK i \in DOMAIN queue[connection[t]] :
          queue[connection[t]][i].op # "write" /\ queue[connection[t]][i].scope = t
    BY DEF IInv, AwaitedIsSent, IsAwaited
  <2>2. CASE connection[t] = c
    <3>1. i # 1
      BY <1>1, <2>1, <2>2
    <3>2. i - 1 \in DOMAIN queue'[c] /\ queue'[c][i - 1] = queue[c][i]
      BY <1>1, <2>1, <2>2, <3>1
    <3>4. QED
      BY <2>1, <2>2, <3>2
  <2>3. CASE connection[t] # c
    <3>1. connection[t] \in Connections \ {c}
      BY <2>3 DEF IInv, TypeOK, Ended
    <3>2. QED
      BY <1>1, <2>1, <3>1
  <2>4. QED
    BY <2>2, <2>3
<1>10. AwaitedIsSent' /\ EnclosingHasBegun'
  BY <1>9 DEF IInv, AwaitedIsSent, EnclosingHasBegun
<1>11. QED
  BY <1>4, <1>6, <1>8, <1>10

LEMMA WriteFailsStep ==
  ASSUME IInv, NEW c \in Connections, WriteFails(c)
  PROVE  IInv'
<1>1. /\ queue[c] # <<>> /\ Head(queue[c]).op = "write" /\ queue' = [queue EXCEPT ![c] = Tail(@)]
      /\ UNCHANGED <<state, caller, enclosing, connection, blocked, written, session, acknowledged, durable>>
      /\ Abort(c)
  BY DEF WriteFails, Sent
<1>2. aborted \subseteq aborted' /\ aborted' \subseteq Scopes
  BY <1>1, AbortGrows
<1>3. TypeOK'
  <2>1. queue' \in [Connections -> Seq(Statement)]
    BY <1>1, TailEffect DEF IInv
  <2>2. QED
    BY <1>1, <1>2, <2>1 DEF IInv, TypeOK
<1>4. SessionIsNested' /\ HoldersAreInside' /\ QueueIsInOrder' /\ AwaitedIsSent' /\ EnclosingHasBegun'
  <2>1. \A d, i : ScopeAt(d, i)' = ScopeAt(d, i)
    BY <1>1 DEF ScopeAt
  <2>2. QED
    BY <1>1, <1>2, <2>1, WriteAnswered
<1>6. WritesArePlaced'
  <2>1. \A t \in Scopes : Undone(t) => Undone(t)'
    BY <1>1, <1>2 DEF Undone
  <2>2. \A t \in Scopes : Settled(t) => Settled(t)'
    BY <1>1, AbortEffect DEF Settled
  <2>3. QED
    BY <1>1, <2>1, <2>2, PlacedStays
<1>7. QED
  BY <1>3, <1>4, <1>6 DEF IInv

LEMMA StartedStep ==
  ASSUME IInv, NEW c \in Connections, Started(c)
  PROVE  IInv'
<1>s. PICK s \in Scopes : s = Head(queue[c]).scope
  BY OneIsAwaited DEF Started, Sent
<1>1. /\ connection[s] = c /\ state[s] = "starting"
      /\ \A t \in Scopes : connection[t] = c /\ t # s => state[t] = "running"
      /\ \A i \in DOMAIN queue[c] : i = 1
  BY <1>s, OneIsAwaited DEF Started, Sent, StateFor
<1>2. /\ enclosing[s] = Chain(c) \cup {s}
      /\ session[c] # <<>> => /\ caller[s] = Innermost(c)
                              /\ state[Innermost(c)] = "running" /\ blocked[Innermost(c)]
  BY <1>1 DEF IInv, HoldersAreInside, IsInside
<1>q. queue[c] # <<>> /\ queue' = [queue EXCEPT ![c] = Tail(@)]
  BY DEF Started, Sent
<1>3. /\ queue' \in [Connections -> Seq(Statement)]
      /\ \A d \in Connections \ {c} : queue'[d] = queue[d]
      /\ \A i \in DOMAIN queue'[c] : FALSE
  <2>1. \A i \in DOMAIN queue'[c] : i \in Nat \ {0} /\ i + 1 \in DOMAIN queue[c]
    BY <1>q, TailEffect DEF IInv
  <2>2. ASSUME NEW i \in DOMAIN queue'[c] PROVE FALSE
    <3>1. i \in Nat \ {0} /\ i + 1 = 1
      BY <1>1, <2>1
    <3>2. QED
      BY <3>1
  <2>3. QED
    BY <1>q, <2>2, TailEffect DEF IInv
<1> DEFINE level == [scope |-> s, writes |-> {}]
<1>t. PICK top : top = Len(session[c]) + 1
  OBVIOUS
<1>4. /\ UNCHANGED <<caller, enclosing, connection, blocked, written, aborted, acknowledged, durable>>
      /\ \A t \in Scopes \ {s} : state'[t] = state[t]
      /\ state'[s] = "running"
      /\ session' = [session EXCEPT ![c] = Append(session[c], level)]
  BY <1>s DEF Started, IInv, TypeOK
<1>5. /\ session'[c] \in Seq(Level) /\ Len(session'[c]) = top /\ top = Len(session[c]) + 1 /\ session'[c] # <<>>
      /\ \A i \in 1..Len(session[c]) : session'[c][i] = session[c][i]
      /\ session'[c][top] = level
      /\ session[c] \in Seq(Level) /\ Len(session[c]) \in Nat
      /\ DOMAIN session[c] = 1..Len(session[c]) /\ DOMAIN session'[c] = 1..Len(session'[c])
      /\ \A d \in Connections \ {c} : session'[d] = session[d]
  <2>1. session[c] \in Seq(Level) /\ level \in Level /\ session'[c] = Append(session[c], level)
    BY <1>4 DEF IInv, TypeOK, Level
  <2>2. \A d \in Connections \ {c} : session'[d] = session[d]
    BY <1>4 DEF IInv, TypeOK
  <2> HIDE DEF level
  <2>3. QED
    BY <1>t, <2>1, <2>2, AppendTo, LenProperties
<1>6. TypeOK'
  <2>1. session' \in [Connections -> Seq(Level)]
    BY <1>4, <1>5 DEF IInv, TypeOK
  <2>2. state' \in [Scopes -> States]
    BY <1>s DEF Started, IInv, TypeOK, States
  <2>3. \A t \in Scopes : connection'[t] = None <=> state'[t] \in Ended \cup {"waiting"}
    BY <1>1, <1>4 DEF IInv, TypeOK, Ended
  <2>4. QED
    BY <1>3, <1>4, <2>1, <2>2, <2>3 DEF IInv, TypeOK
<1>7. /\ \A d \in Connections \ {c} : /\ \A i \in DOMAIN session'[d] : NestedAt(d, i)'
                                      /\ \A i \in DOMAIN queue'[d] : InOrder(d, i)'
      /\ \A t \in Scopes \ {s} : connection[t] # c => IsInside(t)' /\ IsAwaited(t)'
  <2>1. /\ aborted \subseteq aborted' /\ \A t \in Scopes : enclosing[t] # {} => enclosing'[t] = enclosing[t]
        /\ \A d \in Connections \ {c} : session'[d] = session[d] /\ queue'[d] = queue[d]
        /\ \A t \in Scopes : connection[t] # c /\ t # s =>
             /\ state'[t] = state[t] /\ connection'[t] = connection[t]
             /\ enclosing'[t] = enclosing[t] /\ caller'[t] = caller[t] /\ blocked'[t] = blocked[t]
    BY <1>3, <1>4, <1>5
  <2>2. QED
    BY <1>1, <2>1, OtherConnections
<1>8. /\ \A i \in 1..Len(session[c]) : ScopeAt(c, i)' = ScopeAt(c, i)
      /\ ScopeAt(c, top)' = s
  BY <1>5 DEF ScopeAt
<1>9. ASSUME NEW i \in DOMAIN session[c]
      PROVE  /\ NestedAt(c, i) /\ ScopeAt(c, i) \in Scopes /\ ScopeAt(c, i) # s
  BY <1>1, ScopesOfSession DEF IInv, SessionIsNested, NestedAt
<1>10. ASSUME NEW i \in DOMAIN session[c] PROVE NestedAt(c, i)'
  <2>1. /\ NestedAt(c, i) /\ i \in 1..i /\ ScopeAt(c, i) \in Scopes /\ ScopeAt(c, i) # s
        /\ \A j \in 1..i : ScopeAt(c, j)' = ScopeAt(c, j)
    BY <1>5, <1>8, <1>9
  <2>2. CASE i = Len(session[c])
    <3>1. /\ session[c] # <<>> /\ ScopeAt(c, i) = Innermost(c) /\ ScopeAt(c, i + 1)' = s
      BY <1>5, <1>8, <2>2 DEF Innermost, ScopeAt
    <3>2. /\ connection'[ScopeAt(c, i)] = c /\ enclosing'[ScopeAt(c, i)] = enclosing[ScopeAt(c, i)]
          /\ state'[ScopeAt(c, i)] = "running" /\ blocked'[ScopeAt(c, i)]
          /\ caller'[ScopeAt(c, i + 1)'] = ScopeAt(c, i)
      BY <1>2, <1>4, <2>1, <3>1 DEF NestedAt
    <3>3. QED
      BY <2>1, <3>2, NestedStays
  <2>3. CASE i # Len(session[c])
    <3>1. /\ i < Len(session[c]) /\ i + 1 \in 1..Len(session[c])
      BY <1>5, <2>3
    <3>2. /\ connection'[ScopeAt(c, i)] = c /\ enclosing'[ScopeAt(c, i)] = enclosing[ScopeAt(c, i)]
          /\ state'[ScopeAt(c, i)] = "running" /\ blocked'[ScopeAt(c, i)]
          /\ caller'[ScopeAt(c, i + 1)'] = ScopeAt(c, i)
      BY <1>4, <1>8, <2>1, <3>1 DEF NestedAt
    <3>3. QED
      BY <2>1, <3>2, NestedStays
  <2>4. QED
    BY <2>2, <2>3
<1>11. NestedAt(c, top)'
  <2>1. {ScopeAt(c, j) : j \in 1..top}' = {ScopeAt(c, j) : j \in DOMAIN session[c]} \cup {s}
    BY <1>5, <1>8
  <2>2. \A j \in 1..(top - 1) : ScopeAt(c, j)' # s
    BY <1>5, <1>8, <1>9
  <2>3. ~(top < Len(session'[c]))
    BY <1>5
  <2>4. /\ connection'[s] = c /\ enclosing'[s] = {ScopeAt(c, j) : j \in 1..top}'
    BY <1>1, <1>2, <1>4, <2>1 DEF Chain
  <2>5. QED
    BY <1>4, <1>8, <2>2, <2>3, <2>4 DEF NestedAt
<1>12. SessionIsNested'
  <2>1. ASSUME NEW i \in DOMAIN session'[c] PROVE NestedAt(c, i)'
    <3>1. i \in DOMAIN session[c] \/ i = top
      BY <1>5
    <3>2. QED
      BY <1>10, <1>11, <3>1
  <2>2. QED
    BY <1>7, <2>1 DEF SessionIsNested
<1>13. HoldersAreInside'
  <2>1. IsInside(s)'
    <3>1. top \in DOMAIN session'[c] /\ connection'[s] = c
      BY <1>1, <1>4, <1>5
    <3>2. QED
      BY <1>4, <1>8, <3>1 DEF IsInside
  <2>2. ASSUME NEW t \in Scopes \ {s}, connection[t] = c PROVE IsInside(t)'
    <3>1. PICK i \in DOMAIN session[c] : ScopeAt(c, i) = t
      BY <1>1, <2>2 DEF IInv, HoldersAreInside, IsInside
    <3>2. i \in DOMAIN session'[c] /\ ScopeAt(c, i)' = t
      BY <1>5, <1>8, <3>1
    <3>3. QED
      BY <1>1, <1>4, <2>2, <3>2 DEF IsInside
  <2>3. QED
    BY <1>7, <2>1, <2>2 DEF HoldersAreInside
<1>14. QueueIsInOrder'
  BY <1>3, <1>7 DEF QueueIsInOrder
<1>15. AwaitedIsSent'
  <2>1. ASSUME NEW t \in Scopes, connection[t] = c PROVE IsAwaited(t)'
    BY <1>1, <1>4, <2>1 DEF IsAwaited
  <2>2. QED
    BY <1>1, <1>7, <2>1 DEF AwaitedIsSent
<1>17. EnclosingHasBegun'
  BY <1>1, <1>4 DEF IInv, TypeOK, EnclosingHasBegun
<1>18. WritesArePlaced'
  <2>2. \A t \in Scopes : Settled(t) => Settled(t)'
    BY <1>1, <1>4 DEF Settled
  <2>3. \A t \in Scopes : Undone(t) => Undone(t)'
    <3> SUFFICES ASSUME NEW t \in Scopes, Undone(t) PROVE Undone(t)'
      OBVIOUS
    <3>1. t # s /\ state'[t] = state[t] /\ connection'[t] = connection[t] /\ aborted' = aborted
      BY <1>1, <1>4 DEF Undone
    <3>2. state[t] = "rollingBack" => connection[t] \in Connections \ {c}
      BY <1>1, <3>1 DEF IInv, TypeOK, Ended
    <3>3. QED
      BY <1>5, <3>1, <3>2 DEF Undone
  <2>4. ASSUME NEW d \in Connections, NEW i \in DOMAIN session'[d], NEW w \in session'[d][i].writes
        PROVE  i \in DOMAIN session[d] /\ w \in session[d][i].writes /\ ScopeAt(d, i)' = ScopeAt(d, i)
    <3>1. CASE d = c
      <4>1. i # top
        BY <1>5, <2>4, <3>1
      <4>2. QED
        BY <1>5, <1>8, <2>4, <3>1, <4>1
    <3>2. CASE d # c
      BY <1>5, <2>4, <3>2 DEF ScopeAt
    <3>3. QED
      BY <3>1, <3>2
  <2>5. ASSUME NEW d \in Connections, NEW i \in DOMAIN session[d], NEW w \in session[d][i].writes
        PROVE  i \in DOMAIN session'[d] /\ w \in session'[d][i].writes
    BY <1>5
  <2>6. acknowledged' \subseteq Write /\ durable' \subseteq acknowledged'
    BY <1>4 DEF IInv, TypeOK, WritesArePlaced
  <2>7. QED
    BY <1>4, <2>2, <2>3, <2>4, <2>5, <2>6, PlacedMoves
<1>19. QED
  BY <1>6, <1>12, <1>13, <1>14, <1>15, <1>17, <1>18 DEF IInv

LEMMA WrittenStep ==
  ASSUME IInv, NEW c \in Connections, Written(c)
  PROVE  IInv'
<1> DEFINE m == Head(queue[c])
           top == Len(session[c])
<1>w. PICK w : w = [scope |-> m.scope, n |-> m.n, late |-> m.late]
  OBVIOUS
<1>1. /\ queue[c] # <<>> /\ m.op = "write" /\ queue' = [queue EXCEPT ![c] = Tail(@)] /\ ~IsAborted(c)
      /\ UNCHANGED <<state, caller, enclosing, connection, blocked, written, aborted>>
      /\ acknowledged' = acknowledged \cup {w}
      /\ top = 0 => durable' = durable \cup {w} /\ session' = session
      /\ top # 0 => session' = [session EXCEPT ![c][top].writes = @ \cup {w}] /\ durable' = durable
  BY <1>w DEF Written, Sent
<1>2. /\ 1 \in DOMAIN queue[c] /\ m = queue[c][1] /\ queue[c][1] \in Statement
      /\ queue' \in [Connections -> Seq(Statement)]
  BY <1>1, TailEffect, QueueOf DEF IInv
<1>3. /\ m \in Statement /\ m.n # 0 /\ m.scope \in enclosing[m.scope] /\ Around(m) = Chain(c)
  <2>1. WriteInPlace(c, 1)
    BY <1>2 DEF IInv, QueueIsInOrder, InOrder
  <2>2. \A j \in 1..(1 - 1) : FALSE
    OBVIOUS
  <2>3. QED
    BY <1>1, <1>2, <2>1, <2>2 DEF WriteInPlace
<1>4. /\ w \in Write /\ w.scope \in enclosing[w.scope] /\ Around(w) = Chain(c) /\ Around(w)' = Chain(c)
  <2>1. m.n \in 1..MaxWrites
    <3>1. m.n \in 0..MaxWrites /\ m.n # 0
      BY <1>3 DEF Statement
    <3>2. QED
      BY <3>1, ConstantsAssumption
  <2>2. m.scope \in Scopes /\ m.late \in BOOLEAN
    BY <1>3 DEF Statement
  <2>3. w \in Write /\ w.scope = m.scope /\ w.late = m.late
    BY <1>w, <2>1, <2>2 DEF Write
  <2>4. QED
    BY <1>1, <1>3, <2>3 DEF Around
<1>l. /\ session[c] \in Seq(Level) /\ top \in Nat /\ DOMAIN session[c] = 1..top
      /\ session[c] = <<>> <=> top = 0
      /\ top # 0 => top \in DOMAIN session[c] /\ session[c][top] \in Level
  BY ScopesOfSession, LenProperties DEF IInv
<1> HIDE DEF top
<1>5. ASSUME top # 0
      PROVE  /\ session'[c] \in Seq(Level) /\ DOMAIN session'[c] = DOMAIN session[c] /\ Len(session'[c]) = Len(session[c])
             /\ \A i \in DOMAIN session[c] : i # top => session'[c][i] = session[c][i]
             /\ session'[c][top].writes = session[c][top].writes \cup {w}
             /\ session'[c][top].scope = session[c][top].scope
             /\ \A d \in Connections \ {c} : session'[d] = session[d]
             /\ session' \in [Connections -> Seq(Level)]
  <2>1. /\ session'[c] = [session[c] EXCEPT ![top] = [session[c][top] EXCEPT !.writes = @ \cup {w}]]
        /\ \A d \in Connections \ {c} : session'[d] = session[d]
    BY <1>1, <1>5 DEF IInv, TypeOK
  <2>2. [session[c][top] EXCEPT !.writes = @ \cup {w}] \in Level
    BY <1>4, <1>5, <1>l DEF Level
  <2>3. /\ session'[c] \in Seq(Level) /\ DOMAIN session'[c] = DOMAIN session[c] /\ Len(session'[c]) = Len(session[c])
        /\ \A i \in DOMAIN session[c] : session'[c][i] = IF i = top THEN [session[c][top] EXCEPT !.writes = @ \cup {w}]
                                                        ELSE session[c][i]
    BY <1>5, <1>l, <2>1, <2>2, ExceptSeq
  <2>4. /\ session'[c][top].writes = session[c][top].writes \cup {w}
        /\ session'[c][top].scope = session[c][top].scope
    BY <1>5, <1>l, <2>3 DEF Level
  <2>5. session' \in [Connections -> Seq(Level)]
    BY <1>1, <1>5, <2>3 DEF IInv, TypeOK
  <2>6. QED
    BY <2>1, <2>3, <2>4, <2>5
<1>9. \A d \in Connections : /\ DOMAIN session'[d] = DOMAIN session[d]
                             /\ Len(session'[d]) = Len(session[d])
                             /\ session'[d] = <<>> <=> session[d] = <<>>
                             /\ \A i \in DOMAIN session[d] : ScopeAt(d, i)' = ScopeAt(d, i)
  <2>1. CASE top = 0
    BY <1>1, <2>1 DEF ScopeAt
  <2>2. CASE top # 0
    <3>1. \A i \in DOMAIN session[c] : ScopeAt(c, i)' = ScopeAt(c, i)
      BY <1>5, <2>2 DEF ScopeAt
    <3>2. session'[c] # <<>>
      BY <1>5, <1>l, <2>2
    <3>3. \A d \in Connections \ {c} : \A i : ScopeAt(d, i)' = ScopeAt(d, i)
      BY <1>5, <2>2 DEF ScopeAt
    <3>4. QED
      BY <1>5, <1>l, <2>2, <3>1, <3>2, <3>3
  <2>3. QED
    BY <2>1, <2>2
<1>10. TypeOK'
  <2>1. session' \in [Connections -> Seq(Level)]
    BY <1>1, <1>5 DEF IInv, TypeOK
  <2>2. acknowledged' \subseteq Write /\ durable' \subseteq Write
    BY <1>1, <1>4 DEF IInv, TypeOK
  <2>3. QED
    BY <1>1, <1>2, <2>1, <2>2 DEF IInv, TypeOK
<1>11. SessionIsNested' /\ HoldersAreInside' /\ QueueIsInOrder' /\ AwaitedIsSent' /\ EnclosingHasBegun'
  BY <1>1, <1>9, WriteAnswered
<1>13. WritesArePlaced'
  <2>1. /\ acknowledged' \subseteq Write /\ acknowledged \subseteq acknowledged' /\ durable \subseteq durable'
        /\ durable' \subseteq acknowledged'
    BY <1>1, <1>4 DEF IInv, TypeOK, WritesArePlaced
  <2>2. /\ \A t \in Scopes : enclosing[t] # {} => enclosing'[t] = enclosing[t]
        /\ \A t \in Scopes : Settled(t) => Settled(t)'
    BY <1>1 DEF Settled
  <2>3. \A t \in Scopes : Undone(t) => Undone(t)'
    <3> SUFFICES ASSUME NEW t \in Scopes, Undone(t) PROVE Undone(t)'
      OBVIOUS
    <3>1. state[t] = "rollingBack" => connection[t] \in Connections
      BY DEF IInv, TypeOK, Ended
    <3>2. QED
      BY <1>1, <1>9, <3>1 DEF Undone
  <2>4. \A v \in acknowledged' \ acknowledged : v = w
    BY <1>1
  <2>5. w \notin durable' => \E d \in Connections : \E i \in DOMAIN session'[d] : w \in session'[d][i].writes
    BY <1>1, <1>5, <1>l
  <2>6. \A v \in durable' \ durable : \A t \in Around(v)' : Settled(t)'
    <3> SUFFICES ASSUME NEW v \in durable' \ durable PROVE Around(v)' = {}
      OBVIOUS
    <3>1. top = 0 /\ v = w
      BY <1>1
    <3>2. QED
      BY <1>4, <1>l, <3>1 DEF Chain
  <2>7. ASSUME NEW d \in Connections, NEW i \in DOMAIN session'[d], NEW v \in session'[d][i].writes
        PROVE  \/ i \in DOMAIN session[d] /\ v \in session[d][i].writes /\ ScopeAt(d, i)' = ScopeAt(d, i)
               \/ IsAtLevel(v, d, i)'
    <3>1. i \in DOMAIN session[d] /\ ScopeAt(d, i)' = ScopeAt(d, i)
      BY <1>9
    <3>2. ASSUME v \notin session[d][i].writes PROVE IsAtLevel(v, d, i)'
      <4>1. top # 0 /\ d = c /\ i = top /\ v = w
        BY <1>1, <1>5, <2>7, <3>1, <3>2
      <4>2. ScopeAt(d, i) = Innermost(c)
        BY <4>1 DEF Innermost, ScopeAt, top
      <4>3. enclosing[Innermost(c)] = Chain(c)
        BY <1>l, <4>1, InnermostIsNested
      <4>4. QED
        BY <1>1, <1>4, <3>1, <4>1, <4>2, <4>3 DEF IsAtLevel
    <3>3. QED
      BY <3>1, <3>2
  <2>8. ASSUME NEW d \in Connections, NEW i \in DOMAIN session[d], NEW v \in session[d][i].writes
        PROVE  \E j \in DOMAIN session'[d] : v \in session'[d][j].writes
    <3>1. i \in DOMAIN session'[d] /\ v \in session'[d][i].writes
      <4>1. CASE top = 0
        BY <1>1, <4>1
      <4>2. CASE top # 0
        BY <1>5, <4>2
      <4>3. QED
        BY <4>1, <4>2
    <3>2. QED
      BY <3>1
  <2>9. \A v \in acknowledged' \ acknowledged :
          /\ v.scope \in enclosing'[v.scope]
          /\ v \notin durable' => \E d \in Connections : \E i \in DOMAIN session'[d] : v \in session'[d][i].writes
    BY <1>1, <1>4, <2>4, <2>5
  <2>10. QED
    BY <2>1, <2>2, <2>3, <2>6, <2>7, <2>8, <2>9, PlacedMoves
<1>14. QED
  BY <1>10, <1>11, <1>13 DEF IInv

\* A scope that commits, or rolls back, is the innermost one; the one around it, if any,
\* is its caller.
LEMMA EndsWithin ==
  ASSUME IInv, NEW c \in Connections, queue[c] # <<>>, Head(queue[c]).op \in {"commit", "rollback"}
  PROVE  LET s == Head(queue[c]).scope IN
         /\ s \in Scopes /\ connection[s] = c /\ state[s] = StateFor(Head(queue[c]).op)
         /\ \A t \in Scopes : connection[t] = c /\ t # s => state[t] = "running"
         /\ session[c] = <<>> => state[s] = "rollingBack" /\ enclosing[s] = {s}
         /\ session[c] # <<>> => s = Innermost(c)
         /\ Len(session[c]) <= 1 => \A t \in Scopes : connection[t] = c => t = s
         /\ Len(session[c]) > 1 => caller[s] = ScopeAt(c, Len(session[c]) - 1)
         /\ IsSavepoint(s) <=> Len(session[c]) > 1
<1>s. PICK s \in Scopes : s = Head(queue[c]).scope
  BY OneIsAwaited
<1>1. /\ connection[s] = c /\ state[s] = StateFor(Head(queue[c]).op)
      /\ \A t \in Scopes : connection[t] = c /\ t # s => state[t] = "running"
  BY <1>s, OneIsAwaited
<1>2. state[s] \in {"committing", "rollingBack"}
  BY <1>1 DEF StateFor
<1>3. /\ session[c] = <<>> => state[s] = "rollingBack" /\ enclosing[s] = {s}
      /\ session[c] # <<>> => s = Innermost(c)
  BY <1>1, <1>2, EndsInside
<1>l. /\ session[c] \in Seq(Level) /\ Len(session[c]) \in Nat /\ DOMAIN session[c] = 1..Len(session[c])
      /\ session[c] # <<>> <=> Len(session[c]) # 0
  BY ScopesOfSession, LenProperties DEF IInv
<1>4. ASSUME NEW t \in Scopes, connection[t] = c, t # s
      PROVE  \E i \in DOMAIN session[c] : ScopeAt(c, i) = t
  BY <1>1, <1>4 DEF IInv, HoldersAreInside, IsInside
<1>5. ASSUME Len(session[c]) <= 1, NEW t \in Scopes, connection[t] = c PROVE t = s
  <2>1. \A i \in DOMAIN session[c] : i = Len(session[c]) /\ session[c] # <<>>
    BY <1>5, <1>l
  <2>2. QED
    BY <1>3, <1>4, <1>5, <2>1 DEF Innermost, ScopeAt
<1>6. ASSUME Len(session[c]) > 1 PROVE caller[s] = ScopeAt(c, Len(session[c]) - 1) /\ enclosing[s] # {s}
  <2> DEFINE i == Len(session[c]) - 1
  <2>1. i \in DOMAIN session[c] /\ i < Len(session[c]) /\ i + 1 = Len(session[c]) /\ session[c] # <<>>
    BY <1>6, <1>l
  <2>2. NestedAt(c, i)
    BY <2>1 DEF IInv, SessionIsNested
  <2>3. caller[s] = ScopeAt(c, i)
    BY <1>3, <2>1, <2>2 DEF NestedAt, Innermost, ScopeAt
  <2>4. ScopeAt(c, i) \in enclosing[s] /\ ScopeAt(c, i) # s
    BY <1>3, <2>1, InnermostIsNested DEF Chain
  <2>5. QED
    BY <2>3, <2>4
<1>7. ASSUME ~(Len(session[c]) > 1) PROVE enclosing[s] = {s}
  <2>1. CASE session[c] = <<>>
    BY <1>3, <2>1
  <2>2. CASE session[c] # <<>>
    <3>1. Len(session[c]) = 1
      <4>1. Len(session[c]) \in Nat /\ Len(session[c]) # 0
        BY <1>l, <2>2
      <4>2. ASSUME NEW n \in Nat, n # 0, ~(n > 1) PROVE n = 1
        BY <4>2
      <4>3. QED
        BY <1>7, <4>1, <4>2
    <3>2. DOMAIN session[c] = {1} /\ ScopeAt(c, 1) = s
      BY <1>3, <1>l, <2>2, <3>1 DEF Innermost, ScopeAt
    <3>3. QED
      BY <1>3, <2>2, <3>2, InnermostIsNested DEF Chain
  <2>3. QED
    BY <2>1, <2>2
<1>8. IsSavepoint(s) <=> Len(session[c]) > 1
  BY <1>6, <1>7 DEF IsSavepoint
<1>9. QED
  BY <1>s, <1>1, <1>3, <1>5, <1>6, <1>8

\* The innermost transaction of a connection ends, one way or the other.
LEMMA LevelEnds ==
  ASSUME IInv, NEW c \in Connections, queue[c] # <<>>, Head(queue[c]).op \in {"commit", "rollback"},
         NEW s, s = Head(queue[c]).scope, NEW outcome \in {"resolved", "rejected"}, Finally(s, outcome),
         queue' = [queue EXCEPT ![c] = Tail(@)],
         UNCHANGED <<caller, enclosing, aborted>>,
         \A d \in Connections \ {c} : session'[d] = session[d],
         session'[c] \in Seq(Level),
         session[c] = <<>> => session'[c] = <<>>,
         session[c] # <<>> => Len(session'[c]) = Len(session[c]) - 1,
         \A i \in DOMAIN session'[c] : ScopeAt(c, i)' = ScopeAt(c, i)
  PROVE  /\ state' \in [Scopes -> States] /\ blocked' \in [Scopes -> BOOLEAN]
         /\ connection' \in [Scopes -> Connections \cup {None}]
         /\ \A t \in Scopes : connection'[t] = None <=> state'[t] \in Ended \cup {"waiting"}
         /\ queue' \in [Connections -> Seq(Statement)]
         /\ SessionIsNested' /\ HoldersAreInside' /\ QueueIsInOrder' /\ AwaitedIsSent' /\ EnclosingHasBegun'
         /\ \A t \in Scopes \ {s} : state'[t] = state[t] /\ connection'[t] = connection[t]
         /\ s \in Scopes /\ state'[s] = outcome
<1>1. /\ s \in Scopes /\ connection[s] = c /\ state[s] \in {"committing", "rollingBack"}
      /\ \A t \in Scopes : connection[t] = c /\ t # s => state[t] = "running"
      /\ session[c] # <<>> => s = Innermost(c)
      /\ Len(session[c]) <= 1 => \A t \in Scopes : connection[t] = c => t = s
      /\ IsSavepoint(s) => caller[s] = ScopeAt(c, Len(session[c]) - 1) /\ Len(session[c]) > 1
  BY EndsWithin DEF StateFor
<1>2. /\ queue' \in [Connections -> Seq(Statement)]
      /\ \A d \in Connections \ {c} : queue'[d] = queue[d]
  BY TailEffect DEF IInv
<1>e. ASSUME NEW i \in DOMAIN queue'[c]
      PROVE  /\ i \in Nat \ {0} /\ \A j \in 1..i : queue'[c][j].op = "write"
             /\ queue'[c][i].n # 0 /\ queue'[c][i].late /\ queue'[c][i].scope = s /\ s \in enclosing[s]
  <2>1. /\ i \in Nat \ {0} /\ i + 1 \in DOMAIN queue[c] /\ \A j \in 1..i : queue'[c][j] = queue[c][j + 1]
    BY TailEffect DEF IInv
  <2>2. \A j \in 1..(i + 1) : j \in DOMAIN queue[c]
    BY <2>1, QueueOf DEF IInv
  <2>3. ASSUME NEW j \in 1..i PROVE j + 1 \in DOMAIN queue[c] /\ j + 1 # 1
    <3>1. j + 1 \in 1..(i + 1) /\ j + 1 # 1
      BY <2>1
    <3>2. QED
      BY <2>2, <3>1
  <2>4. ASSUME NEW j \in DOMAIN queue[c], j # 1
        PROVE  /\ queue[c][j].op = "write" /\ queue[c][j].n # 0
               /\ queue[c][j].late /\ queue[c][j].scope = s /\ s \in enclosing[s]
    BY <2>4, OneIsAwaited
  <2>5. i \in 1..i
    BY <2>1
  <2>6. QED
    BY <2>1, <2>3, <2>4, <2>5
<1>3. /\ \A t \in Scopes \ {s} : state'[t] = state[t] /\ connection'[t] = connection[t]
      /\ state'[s] = outcome /\ connection'[s] = None
      /\ \A t \in Scopes \ {s} : ~(IsSavepoint(s) /\ t = caller[s]) => blocked'[t] = blocked[t]
  BY <1>1 DEF Finally, DropConnection, IInv, TypeOK
<1>4. /\ state' \in [Scopes -> States] /\ blocked' \in [Scopes -> BOOLEAN]
      /\ connection' \in [Scopes -> Connections \cup {None}]
  BY <1>1 DEF Finally, DropConnection, IInv, TypeOK, States
<1>5. \A t \in Scopes : connection'[t] = None <=> state'[t] \in Ended \cup {"waiting"}
  BY <1>3 DEF IInv, TypeOK, Ended
<1>l. /\ session[c] \in Seq(Level) /\ Len(session[c]) \in Nat /\ DOMAIN session[c] = 1..Len(session[c])
      /\ Len(session'[c]) \in Nat /\ DOMAIN session'[c] = 1..Len(session'[c])
      /\ session[c] # <<>> <=> Len(session[c]) # 0
  BY ScopesOfSession, LenProperties DEF IInv
<1>6. ASSUME NEW i \in DOMAIN session'[c]
      PROVE  /\ i \in DOMAIN session[c] /\ i < Len(session[c]) /\ session[c] # <<>>
             /\ i + 1 \in DOMAIN session[c] /\ Len(session'[c]) = Len(session[c]) - 1
             /\ \A j \in 1..i : j \in DOMAIN session'[c]
  <2>1. session[c] # <<>>
    <3> SUFFICES ASSUME session[c] = <<>> PROVE FALSE
      OBVIOUS
    <3>1. DOMAIN session'[c] = {}
      OBVIOUS
    <3>2. QED
      BY <1>6, <3>1
  <2>2. Len(session'[c]) = Len(session[c]) - 1
    BY <2>1
  <2>3. i \in 1..Len(session'[c])
    BY <1>6, <1>l
  <2>4. i \in Nat /\ i >= 1 /\ i <= Len(session[c]) - 1
    BY <1>l, <2>2, <2>3
  <2>5. i \in 1..Len(session[c]) /\ i + 1 \in 1..Len(session[c]) /\ i < Len(session[c])
    BY <1>l, <2>4
  <2>6. \A j \in 1..i : j \in 1..Len(session'[c])
    BY <1>l, <2>3
  <2>7. QED
    BY <1>l, <2>1, <2>2, <2>5, <2>6
<1>7. IsSavepoint(s) => /\ connection[caller[s]] = c /\ caller[s] \in Scopes
                        /\ Len(session[c]) - 1 \in DOMAIN session[c]
                        /\ \A j \in 1..(Len(session[c]) - 2) : ScopeAt(c, j) # caller[s]
  <2> SUFFICES ASSUME IsSavepoint(s)
               PROVE  /\ connection[caller[s]] = c /\ caller[s] \in Scopes
                      /\ Len(session[c]) - 1 \in DOMAIN session[c]
                      /\ \A j \in 1..(Len(session[c]) - 2) : ScopeAt(c, j) # caller[s]
    OBVIOUS
  <2> DEFINE i == Len(session[c]) - 1
  <2>1. i \in DOMAIN session[c] /\ i - 1 = Len(session[c]) - 2
    BY <1>1, <1>l
  <2>2. NestedAt(c, i) /\ ScopeAt(c, i) \in Scopes /\ caller[s] = ScopeAt(c, i)
    BY <1>1, <2>1, ScopesOfSession DEF IInv, SessionIsNested
  <2> HIDE DEF i
  <2>3. QED
    BY <2>1, <2>2 DEF NestedAt, i
<1>8. \A t \in Scopes : connection[t] # c /\ t # s =>
        /\ state'[t] = state[t] /\ connection'[t] = connection[t] /\ enclosing'[t] = enclosing[t]
        /\ caller'[t] = caller[t] /\ blocked'[t] = blocked[t]
  BY <1>3, <1>7
<1>k. aborted \subseteq aborted' /\ \A t \in Scopes : enclosing[t] # {} => enclosing'[t] = enclosing[t]
  OBVIOUS
<1>9. /\ \A d \in Connections \ {c} : /\ \A i \in DOMAIN session'[d] : NestedAt(d, i)'
                                      /\ \A i \in DOMAIN queue'[d] : InOrder(d, i)'
      /\ \A t \in Scopes \ {s} : connection[t] # c => IsInside(t)' /\ IsAwaited(t)'
  BY <1>1, <1>2, <1>8, <1>k, OtherConnections
<1>10. ASSUME NEW i \in DOMAIN session'[c] PROVE NestedAt(c, i)'
  <2>1. /\ NestedAt(c, i) /\ ScopeAt(c, i) \in Scopes /\ i \in 1..i
        /\ i < Len(session[c]) /\ s = Innermost(c)
        /\ \A j \in 1..i : ScopeAt(c, j)' = ScopeAt(c, j)
    <3>1. i \in DOMAIN session[c] /\ i < Len(session[c]) /\ s = Innermost(c)
      BY <1>1, <1>6
    <3>2. NestedAt(c, i) /\ ScopeAt(c, i) \in Scopes
      BY <3>1, ScopesOfSession DEF IInv, SessionIsNested
    <3>3. i \in 1..i
      BY <1>l, <3>1
    <3>4. QED
      BY <1>6, <3>1, <3>2, <3>3
  <2>2. ScopeAt(c, i) # s
    BY <1>6, <2>1, InnermostIsNested
  <2>3. /\ connection'[ScopeAt(c, i)] = c /\ enclosing'[ScopeAt(c, i)] = enclosing[ScopeAt(c, i)]
        /\ state'[ScopeAt(c, i)] = "running"
    BY <1>3, <2>1, <2>2 DEF NestedAt
  <2>4. ASSUME i < Len(session'[c])
        PROVE  blocked'[ScopeAt(c, i)] /\ caller'[ScopeAt(c, i + 1)'] = ScopeAt(c, i)
    <3>1. i + 1 \in DOMAIN session'[c] /\ i \in 1..(Len(session[c]) - 2)
      BY <1>6, <1>l, <2>4
    <3>2. ScopeAt(c, i + 1)' = ScopeAt(c, i + 1)
      BY <3>1
    <3>3. blocked[ScopeAt(c, i)] /\ caller[ScopeAt(c, i + 1)] = ScopeAt(c, i)
      BY <2>1 DEF NestedAt
    <3>4. ~(IsSavepoint(s) /\ ScopeAt(c, i) = caller[s])
      BY <1>7, <3>1
    <3>5. QED
      BY <1>3, <2>1, <2>2, <3>2, <3>3, <3>4
  <2>5. QED
    BY <2>1, <2>3, <2>4, NestedStays
<1>11. SessionIsNested'
  BY <1>9, <1>10 DEF SessionIsNested
<1>12. HoldersAreInside'
  <2>1. IsInside(s)'
    BY <1>3 DEF IsInside
  <2>2. ASSUME NEW t \in Scopes \ {s}, connection[t] = c PROVE IsInside(t)'
    <3>1. PICK i \in DOMAIN session[c] : ScopeAt(c, i) = t
      BY <1>1, <2>2 DEF IInv, HoldersAreInside, IsInside
    <3>2. session[c] # <<>> /\ i # Len(session[c])
      BY <1>1, <1>l, <2>2, <3>1 DEF Innermost, ScopeAt
    <3>3. i \in DOMAIN session'[c]
      BY <1>l, <3>2
    <3>4. QED
      BY <1>1, <1>3, <2>2, <3>1, <3>3 DEF IsInside
  <2>3. QED
    BY <1>9, <2>1, <2>2 DEF HoldersAreInside
<1>c. Chain(c)' = enclosing[s] \ {s}
  <2>1. CASE session[c] = <<>>
    <3>1. enclosing[s] = {s} /\ session'[c] = <<>>
      BY <1>1, <2>1, EndsInside
    <3>2. QED
      BY <3>1 DEF Chain
  <2>2. CASE session[c] # <<>>
    <3>1. /\ enclosing[s] = {ScopeAt(c, j) : j \in 1..Len(session[c])} /\ s = ScopeAt(c, Len(session[c]))
          /\ \A j \in 1..Len(session[c]) : j # Len(session[c]) => ScopeAt(c, j) # s
      <4>1. /\ enclosing[s] = Chain(c) /\ s = Innermost(c)
            /\ \A j \in DOMAIN session[c] : j # Len(session[c]) => ScopeAt(c, j) # s
        BY <1>1, <2>2, InnermostIsNested
      <4>2. Innermost(c) = ScopeAt(c, Len(session[c])) /\ Chain(c) = {ScopeAt(c, j) : j \in 1..Len(session[c])}
        BY <1>l DEF Chain, Innermost, ScopeAt
      <4>3. QED
        BY <1>l, <4>1, <4>2
    <3>2. \A j \in 1..Len(session[c]) : j \in 1..Len(session'[c]) <=> j # Len(session[c])
      BY <1>l, <2>2
    <3>3. \A j \in 1..Len(session'[c]) : j \in 1..Len(session[c])
      BY <1>l, <2>2
    <3>4. \A j \in 1..Len(session'[c]) : ScopeAt(c, j)' = ScopeAt(c, j)
      BY <1>l
    <3>5. Chain(c)' = {ScopeAt(c, j) : j \in 1..Len(session'[c])}
      BY <1>l, <3>4 DEF Chain
    <3>6. QED
      BY <3>1, <3>2, <3>3, <3>5
  <2>3. QED
    BY <2>1, <2>2
<1>13. QueueIsInOrder'
  <2>1. ASSUME NEW i \in DOMAIN queue'[c] PROVE InOrder(c, i)'
    <3>1. WriteInPlace(c, i)'
      <4>1. /\ i \in Nat \ {0} /\ \A j \in 1..i : queue'[c][j].op = "write"
            /\ queue'[c][i].n # 0 /\ queue'[c][i].late /\ queue'[c][i].scope = s /\ s \in enclosing'[s]
        BY <1>e
      <4>2. ~IsAborted(c)' => Chain(c)' = enclosing'[s] \ {s}
        BY <1>c
      <4>3. QED
        BY <4>1, <4>2, LateWritesLead
    <3>2. i \in 1..i
      BY <1>e
    <3>3. QED
      BY <1>e, <3>1, <3>2 DEF InOrder, ControlInPlace
  <2>2. QED
    BY <1>9, <2>1 DEF QueueIsInOrder
<1>14. AwaitedIsSent'
  <2>1. IsAwaited(s)'
    BY <1>3 DEF IsAwaited
  <2>2. ASSUME NEW t \in Scopes \ {s}, connection[t] = c PROVE IsAwaited(t)'
    BY <1>1, <1>3, <2>2 DEF IsAwaited
  <2>3. QED
    BY <1>9, <2>1, <2>2 DEF AwaitedIsSent
<1>15. EnclosingHasBegun'
  BY <1>1, <1>3 DEF IInv, TypeOK, EnclosingHasBegun
<1>16. QED
  BY <1>1, <1>2, <1>3, <1>4, <1>5, <1>11, <1>12, <1>13, <1>14, <1>15

LEMMA CommittedStep ==
  ASSUME IInv, NEW c \in Connections, Committed(c)
  PROVE  IInv'
<1>s. PICK s \in Scopes : s = Head(queue[c]).scope
  BY EndsWithin DEF Committed, Sent
<1>q. /\ queue[c] # <<>> /\ Head(queue[c]).op \in {"commit", "rollback"} /\ queue' = [queue EXCEPT ![c] = Tail(@)]
      /\ ~IsAborted(c)
  BY DEF Committed, Sent
<1>t. PICK top : top = Len(session[c])
  OBVIOUS
<1>w. PICK writes : writes = session[c][top].writes
  OBVIOUS
<1>1. /\ connection[s] = c /\ state[s] = "committing" /\ session[c] # <<>> /\ s = Innermost(c)
      /\ \A t \in Scopes : connection[t] = c /\ t # s => state[t] = "running"
      /\ IsSavepoint(s) <=> top > 1
  BY <1>s, <1>q, <1>t, EndsWithin DEF Committed, Sent, StateFor
<1>a. s \notin aborted
  BY <1>1, <1>q DEF IsAborted
<1>l. /\ session[c] \in Seq(Level) /\ top \in Nat /\ DOMAIN session[c] = 1..top /\ top # 0
      /\ top \in DOMAIN session[c] /\ session[c][top] \in Level
      /\ \A i \in DOMAIN session[c] : session[c][i] \in Level
  BY <1>1, <1>t, ScopesOfSession, LenProperties DEF IInv
<1>2. /\ UNCHANGED <<caller, enclosing, written, aborted, acknowledged>>
      /\ Finally(s, "resolved")
      /\ IF top = 1
         THEN durable' = durable \cup writes /\ session' = [session EXCEPT ![c] = <<>>]
         ELSE /\ session' = [session EXCEPT ![c] = [Outer(c) EXCEPT ![top - 1].writes = @ \cup writes]]
              /\ durable' = durable
  BY <1>s, <1>t, <1>w DEF Committed
<1>d. \A d \in Connections \ {c} : session'[d] = session[d]
  BY <1>2 DEF IInv, TypeOK
<1>b. /\ s = ScopeAt(c, top) /\ enclosing[s] = Chain(c) /\ acknowledged \subseteq Write /\ durable \subseteq acknowledged
      /\ \A w \in acknowledged : w.scope \in Scopes /\ enclosing[w.scope] \subseteq Scopes /\ Around(w) \subseteq Scopes
  <2>1. \A w \in acknowledged : w.scope \in Scopes /\ enclosing[w.scope] \subseteq Scopes
    BY DEF IInv, TypeOK, Write
  <2>2. QED
    BY <1>1, <1>t, <2>1, InnermostIsNested DEF Innermost, ScopeAt, Around, IInv, TypeOK, WritesArePlaced
<1>v. \A w \in writes : /\ w \in acknowledged /\ enclosing[s] \subseteq Around(w)
                        /\ \A t \in Around(w) \ enclosing[s] : Settled(t)
  BY <1>l, <1>w, <1>b DEF IInv, WritesArePlaced, IsAtLevel
<1>3. CASE top = 1
  <2>1. session'[c] = <<>> /\ durable' = durable \cup writes
    BY <1>2, <1>3 DEF IInv, TypeOK
  <2>2. /\ <<>> \in Seq(Level) /\ Len(<<>>) = 0 /\ DOMAIN <<>> = {}
    OBVIOUS
  <2>3. /\ state' \in [Scopes -> States] /\ blocked' \in [Scopes -> BOOLEAN]
        /\ connection' \in [Scopes -> Connections \cup {None}]
        /\ \A t \in Scopes : connection'[t] = None <=> state'[t] \in Ended \cup {"waiting"}
        /\ queue' \in [Connections -> Seq(Statement)]
        /\ SessionIsNested' /\ HoldersAreInside' /\ QueueIsInOrder' /\ AwaitedIsSent' /\ EnclosingHasBegun'
        /\ \A t \in Scopes \ {s} : state'[t] = state[t] /\ connection'[t] = connection[t]
        /\ state'[s] = "resolved"
    <3>1. /\ session'[c] \in Seq(Level)
          /\ session[c] = <<>> => session'[c] = <<>>
          /\ session[c] # <<>> => Len(session'[c]) = Len(session[c]) - 1
          /\ \A i \in DOMAIN session'[c] : ScopeAt(c, i)' = ScopeAt(c, i)
      BY <1>3, <1>t, <2>1, <2>2
    <3>2. "resolved" \in {"resolved", "rejected"} /\ UNCHANGED <<caller, enclosing, aborted>>
      BY <1>2
    <3>3. QED
      BY <1>s, <1>q, <1>2, <1>d, <3>1, <3>2, LevelEnds
  <2>4. TypeOK'
    <3>1. session' \in [Connections -> Seq(Level)]
      BY <1>2, <1>3, <2>2 DEF IInv, TypeOK
    <3>2. durable' \subseteq Write
      BY <1>l, <1>w, <2>1 DEF IInv, TypeOK, Level
    <3>3. QED
      BY <1>2, <2>3, <3>1, <3>2 DEF IInv, TypeOK
  <2>6. WritesArePlaced'
    <3>1. enclosing[s] = {s}
      <4>1. DOMAIN session[c] = {1}
        BY <1>3, <1>l
      <4>2. QED
        BY <1>3, <1>b, <4>1 DEF Chain
    <3>2. \A t \in Scopes : Settled(t) => Settled(t)'
      BY <1>1, <1>2, <2>3 DEF Settled
    <3>3. \A t \in Scopes : Undone(t) => Undone(t)'
      <4> SUFFICES ASSUME NEW t \in Scopes, Undone(t) PROVE Undone(t)'
        OBVIOUS
      <4>1. t # s /\ (state[t] = "rollingBack" => connection[t] \in Connections \ {c})
        BY <1>1 DEF Undone, IInv, TypeOK, Ended
      <4>2. QED
        BY <1>2, <1>d, <2>3, <4>1 DEF Undone
    <3>4. Settled(s)'
      BY <1>2, <1>a, <2>3 DEF Settled
    <3>5. ASSUME NEW w \in durable' \ durable, NEW t \in Around(w)' PROVE Settled(t)'
      <4>1. w \in writes /\ Around(w)' = Around(w)
        BY <1>2, <2>1 DEF Around
      <4>2. t = s \/ Settled(t)
        BY <1>v, <3>1, <4>1
      <4>3. t \in Scopes
        BY <1>b, <1>v, <4>1
      <4>4. QED
        BY <3>2, <3>4, <4>2, <4>3
    <3>6. ASSUME NEW d \in Connections, NEW i \in DOMAIN session'[d], NEW w \in session'[d][i].writes
          PROVE  i \in DOMAIN session[d] /\ w \in session[d][i].writes /\ ScopeAt(d, i)' = ScopeAt(d, i)
      BY <1>d, <2>1, <2>2 DEF ScopeAt
    <3>7. ASSUME NEW d \in Connections, NEW i \in DOMAIN session[d], NEW w \in session[d][i].writes
          PROVE  w \in durable' \/ \E j \in DOMAIN session'[d] : w \in session'[d][j].writes
      <4>1. CASE d = c
        <5>1. i = top
          BY <1>3, <1>l, <4>1
        <5>2. QED
          BY <1>w, <2>1, <4>1, <5>1
      <4>2. CASE d # c
        BY <1>d, <4>2
      <4>3. QED
        BY <4>1, <4>2
    <3>8. /\ acknowledged' \subseteq Write /\ acknowledged \subseteq acknowledged' /\ acknowledged' \subseteq acknowledged
          /\ durable \subseteq durable' /\ durable' \subseteq acknowledged'
          /\ \A t \in Scopes : enclosing[t] # {} => enclosing'[t] = enclosing[t]
      BY <1>2, <1>b, <1>v, <2>1
    <3>9. QED
      BY <3>2, <3>3, <3>5, <3>6, <3>7, <3>8, PlacedMoves
  <2>7. QED
    BY <2>3, <2>4, <2>6 DEF IInv
<1>4. CASE top # 1
  <2> DEFINE level == [Outer(c)[top - 1] EXCEPT !.writes = @ \cup writes]
  <2>n. PICK n : n = top - 1
    OBVIOUS
  <2>0. n \in 1..(top - 1) /\ n + 1 = top /\ n \in DOMAIN session[c] /\ top > 1 /\ n # top
    BY <1>4, <1>l, <2>n
  <2>1. /\ session'[c] = [Outer(c) EXCEPT ![n] = level] /\ durable' = durable
    BY <1>2, <1>4, <2>n DEF IInv, TypeOK
  <2>2. /\ Outer(c) \in Seq(Level) /\ Len(Outer(c)) = top - 1
        /\ \A i \in 1..(top - 1) : Outer(c)[i] = session[c][i]
        /\ DOMAIN Outer(c) = 1..(top - 1)
    BY <1>1, <1>t, OuterOf, LenProperties DEF IInv
  <2>3. /\ level \in Level /\ level.scope = session[c][n].scope
        /\ level.writes = session[c][n].writes \cup writes
    <3>1. Outer(c)[n] = session[c][n] /\ session[c][n] \in Level /\ writes \subseteq Write
      BY <1>l, <1>w, <2>0, <2>2 DEF Level
    <3>2. QED
      BY <2>n, <3>1 DEF Level
  <2> HIDE DEF level
  <2>4. /\ session'[c] \in Seq(Level) /\ DOMAIN session'[c] = 1..(top - 1) /\ Len(session'[c]) = top - 1
        /\ session'[c][n] = level
        /\ \A i \in 1..(top - 1) : i # n => session'[c][i] = session[c][i]
    <3>1. n \in 1..Len(Outer(c)) /\ level \in Level /\ Outer(c) \in Seq(Level)
      BY <2>0, <2>2, <2>3
    <3>2. /\ session'[c] \in Seq(Level) /\ Len(session'[c]) = Len(Outer(c))
          /\ \A i \in 1..Len(Outer(c)) : session'[c][i] = IF i = n THEN level ELSE Outer(c)[i]
      BY <2>1, <3>1, ExceptSeq
    <3>3. DOMAIN session'[c] = 1..(top - 1)
      BY <2>2, <3>2, LenProperties
    <3>4. QED
      BY <2>0, <2>2, <3>2, <3>3
  <2>5. \A i \in 1..(top - 1) : ScopeAt(c, i)' = ScopeAt(c, i)
    BY <2>3, <2>4 DEF ScopeAt
  <2>6. /\ state' \in [Scopes -> States] /\ blocked' \in [Scopes -> BOOLEAN]
        /\ connection' \in [Scopes -> Connections \cup {None}]
        /\ \A t \in Scopes : connection'[t] = None <=> state'[t] \in Ended \cup {"waiting"}
        /\ queue' \in [Connections -> Seq(Statement)]
        /\ SessionIsNested' /\ HoldersAreInside' /\ QueueIsInOrder' /\ AwaitedIsSent' /\ EnclosingHasBegun'
        /\ \A t \in Scopes \ {s} : state'[t] = state[t] /\ connection'[t] = connection[t]
        /\ state'[s] = "resolved"
    <3>1. /\ session'[c] \in Seq(Level)
          /\ session[c] = <<>> => session'[c] = <<>>
          /\ session[c] # <<>> => Len(session'[c]) = Len(session[c]) - 1
          /\ \A i \in DOMAIN session'[c] : ScopeAt(c, i)' = ScopeAt(c, i)
      BY <1>1, <1>t, <2>4, <2>5
    <3>2. "resolved" \in {"resolved", "rejected"} /\ UNCHANGED <<caller, enclosing, aborted>>
      BY <1>2
    <3>3. QED
      BY <1>s, <1>q, <1>2, <1>d, <3>1, <3>2, LevelEnds
  <2>7. TypeOK'
    <3>1. session' \in [Connections -> Seq(Level)]
      BY <1>2, <1>4, <1>d, <2>4 DEF IInv, TypeOK
    <3>2. QED
      BY <1>2, <2>1, <2>6, <3>1 DEF IInv, TypeOK
  <2>9. WritesArePlaced'
    <3>2. enclosing[ScopeAt(c, n)] = {ScopeAt(c, j) : j \in 1..n}
      BY <2>0 DEF IInv, SessionIsNested, NestedAt
    <3>3. enclosing[s] = enclosing[ScopeAt(c, n)] \cup {s}
      <4>1. \A j \in 1..top : j \in 1..n \/ j = top
        BY <1>l, <2>n
      <4>2. \A j \in 1..n : j \in 1..top
        BY <1>l, <2>n
      <4>3. QED
        BY <1>l, <1>b, <3>2, <4>1, <4>2 DEF Chain
    <3>4. \A t \in Scopes : Settled(t) => Settled(t)'
      BY <1>1, <1>2, <2>6 DEF Settled
    <3>5. \A t \in Scopes : Undone(t) => Undone(t)'
      <4> SUFFICES ASSUME NEW t \in Scopes, Undone(t) PROVE Undone(t)'
        OBVIOUS
      <4>1. t # s /\ (state[t] = "rollingBack" => connection[t] \in Connections \ {c})
        BY <1>1 DEF Undone, IInv, TypeOK, Ended
      <4>2. QED
        BY <1>2, <1>d, <2>6, <4>1 DEF Undone
    <3>6. Settled(s)'
      BY <1>2, <1>a, <2>6 DEF Settled
    <3>7. ASSUME NEW w \in writes PROVE IsAtLevel(w, c, n)'
      <4>1. Around(w)' = Around(w) /\ ScopeAt(c, n)' = ScopeAt(c, n) /\ enclosing' = enclosing /\ acknowledged' = acknowledged
        BY <1>2, <2>0, <2>5 DEF Around
      <4>2. /\ w \in acknowledged /\ enclosing[ScopeAt(c, n)] \subseteq Around(w)
            /\ \A t \in Around(w) \ enclosing[ScopeAt(c, n)] : t \in Scopes /\ (t = s \/ Settled(t))
        BY <1>b, <1>v, <3>3
      <4>3. QED
        BY <3>4, <3>6, <4>1, <4>2 DEF IsAtLevel
    <3>8. ASSUME NEW d \in Connections, NEW i \in DOMAIN session'[d], NEW w \in session'[d][i].writes
          PROVE  \/ i \in DOMAIN session[d] /\ w \in session[d][i].writes /\ ScopeAt(d, i)' = ScopeAt(d, i)
                 \/ IsAtLevel(w, d, i)'
      <4>1. CASE d = c /\ i = n /\ w \in writes
        BY <3>7, <4>1
      <4>2. CASE ~(d = c /\ i = n /\ w \in writes)
        <5>1. CASE d = c
          BY <1>l, <2>3, <2>4, <2>5, <3>8, <4>2, <5>1
        <5>2. CASE d # c
          BY <1>d, <3>8, <5>2 DEF ScopeAt
        <5>3. QED
          BY <5>1, <5>2
      <4>3. QED
        BY <4>1, <4>2
    <3>9. ASSUME NEW d \in Connections, NEW i \in DOMAIN session[d], NEW w \in session[d][i].writes
          PROVE  \E j \in DOMAIN session'[d] : w \in session'[d][j].writes
      <4>1. CASE d = c /\ i = top
        BY <1>w, <2>0, <2>3, <2>4, <4>1
      <4>2. CASE d = c /\ i # top
        <5>1. i \in 1..(top - 1)
          BY <1>l, <4>2
        <5>2. QED
          BY <2>3, <2>4, <4>2, <5>1
      <4>3. CASE d # c
        BY <1>d, <4>3
      <4>4. QED
        BY <4>1, <4>2, <4>3
    <3>10. /\ acknowledged' \subseteq Write /\ acknowledged \subseteq acknowledged' /\ acknowledged' \subseteq acknowledged
           /\ durable \subseteq durable' /\ durable' \subseteq durable /\ durable' \subseteq acknowledged'
           /\ \A t \in Scopes : enclosing[t] # {} => enclosing'[t] = enclosing[t]
      BY <1>2, <1>b, <2>1
    <3>11. QED
      BY <3>4, <3>5, <3>8, <3>9, <3>10, PlacedMoves
  <2>10. QED
    BY <2>6, <2>7, <2>9 DEF IInv
<1>5. QED
  BY <1>3, <1>4

\* The innermost transaction is gone, and its scope has ended or is about to.
LEMMA LevelIsLost ==
  ASSUME IInv, NEW c \in Connections, NEW s \in Scopes, connection[s] = c,
         session[c] # <<>> => s = Innermost(c),
         session[c] = <<>> => Undone(s),
         UNCHANGED <<enclosing, acknowledged, durable>>,
         \A d \in Connections \ {c} : session'[d] = session[d],
         \A i \in DOMAIN session'[c] : i \in DOMAIN session[c] /\ session'[c][i] = session[c][i],
         \A i \in DOMAIN session[c] : i # Len(session[c]) => i \in DOMAIN session'[c],
         \A t \in Scopes : Settled(t) => Settled(t)',
         Undone(s)', \A t \in Scopes \ {s} : Undone(t) => Undone(t)'
  PROVE  WritesArePlaced'
<1>1. ASSUME NEW d \in Connections, NEW i \in DOMAIN session'[d], NEW w \in session'[d][i].writes
      PROVE  i \in DOMAIN session[d] /\ w \in session[d][i].writes /\ ScopeAt(d, i)' = ScopeAt(d, i)
  BY DEF ScopeAt
<1>2. ASSUME NEW d \in Connections, NEW i \in DOMAIN session[d], NEW w \in session[d][i].writes
      PROVE  \/ \E j \in DOMAIN session'[d] : w \in session'[d][j].writes
             \/ \E t \in Around(w) : Undone(t)'
  <2>1. CASE d = c /\ i = Len(session[c])
    <3>1. session[c] # <<>> /\ ScopeAt(c, i) = s
      BY <2>1, ScopesOfSession DEF Innermost, ScopeAt, IInv
    <3>2. s \in enclosing[s]
      <4>1. enclosing[Innermost(c)] = Chain(c) /\ Len(session[c]) \in DOMAIN session[c]
        BY <3>1, InnermostIsNested
      <4>2. ScopeAt(c, Len(session[c])) \in Chain(c)
        BY <4>1 DEF Chain
      <4>3. QED
        BY <2>1, <3>1, <4>1, <4>2
    <3>3. IsAtLevel(w, c, i)
      BY <2>1 DEF IInv, WritesArePlaced
    <3>4. s \in Around(w)
      BY <3>1, <3>2, <3>3 DEF IsAtLevel
    <3>5. QED
      BY <3>4
  <2>2. CASE ~(d = c /\ i = Len(session[c]))
    BY <2>2
  <2>3. QED
    BY <2>1, <2>2
<1>3. /\ acknowledged' \subseteq Write /\ acknowledged \subseteq acknowledged' /\ acknowledged' \subseteq acknowledged
      /\ durable \subseteq durable' /\ durable' \subseteq durable /\ durable' \subseteq acknowledged'
      /\ \A t \in Scopes : enclosing[t] # {} => enclosing'[t] = enclosing[t]
  BY DEF IInv, TypeOK, WritesArePlaced
<1>4. \A t \in Scopes : Undone(t) => Undone(t)'
  OBVIOUS
<1>5. QED
  BY <1>1, <1>2, <1>3, <1>4, PlacedMoves

LEMMA CommittedNothingStep ==
  ASSUME IInv, NEW c \in Connections, CommittedNothing(c)
  PROVE  IInv'
<1>s. PICK s \in Scopes : s = Head(queue[c]).scope
  BY EndsWithin DEF CommittedNothing, Sent
<1>q. /\ queue[c] # <<>> /\ Head(queue[c]).op \in {"commit", "rollback"} /\ queue' = [queue EXCEPT ![c] = Tail(@)]
      /\ IsAborted(c) /\ Len(session[c]) = 1
  BY DEF CommittedNothing, Sent
<1>1. /\ connection[s] = c /\ state[s] = "committing" /\ session[c] # <<>> /\ s = Innermost(c) /\ s \in aborted
      /\ \A t \in Scopes : connection[t] = c /\ t # s => state[t] = "running"
  BY <1>s, <1>q, EndsWithin DEF CommittedNothing, Sent, StateFor, IsAborted
<1>2. /\ UNCHANGED <<caller, enclosing, written, aborted, acknowledged, durable>>
      /\ Finally(s, "resolved") /\ session' = [session EXCEPT ![c] = <<>>]
  BY <1>s DEF CommittedNothing
<1>3. /\ session'[c] = <<>> /\ \A d \in Connections \ {c} : session'[d] = session[d]
      /\ session'[c] \in Seq(Level) /\ Len(session'[c]) = Len(session[c]) - 1 /\ DOMAIN session'[c] = {}
  <2>1. <<>> \in Seq(Level) /\ Len(<<>>) = 0 /\ DOMAIN <<>> = {}
    OBVIOUS
  <2>2. QED
    BY <1>2, <1>q, <2>1 DEF IInv, TypeOK
<1>5. /\ state' \in [Scopes -> States] /\ blocked' \in [Scopes -> BOOLEAN]
      /\ connection' \in [Scopes -> Connections \cup {None}]
      /\ \A t \in Scopes : connection'[t] = None <=> state'[t] \in Ended \cup {"waiting"}
      /\ queue' \in [Connections -> Seq(Statement)]
      /\ SessionIsNested' /\ HoldersAreInside' /\ QueueIsInOrder' /\ AwaitedIsSent' /\ EnclosingHasBegun'
      /\ \A t \in Scopes \ {s} : state'[t] = state[t] /\ connection'[t] = connection[t]
      /\ state'[s] = "resolved"
  <2>1. "resolved" \in {"resolved", "rejected"} /\ UNCHANGED <<caller, enclosing, aborted>>
    BY <1>2
  <2>2. \A i \in DOMAIN session'[c] : ScopeAt(c, i)' = ScopeAt(c, i)
    BY <1>3
  <2>3. QED
    BY <1>s, <1>q, <1>1, <1>2, <1>3, <2>1, <2>2, LevelEnds
<1>6. TypeOK'
  <2>1. session' \in [Connections -> Seq(Level)]
    BY <1>2, <1>3 DEF IInv, TypeOK
  <2>2. QED
    BY <1>2, <1>5, <2>1 DEF IInv, TypeOK
<1>7. WritesArePlaced'
  <2>1. Undone(s)'
    BY <1>1, <1>2, <1>5 DEF Undone
  <2>2. \A t \in Scopes : Settled(t) => Settled(t)'
    BY <1>1, <1>2, <1>5 DEF Settled
  <2>3. ASSUME NEW t \in Scopes \ {s}, Undone(t) PROVE Undone(t)'
    <3>1. state[t] = "rollingBack" => connection[t] \in Connections \ {c}
      BY <1>1 DEF IInv, TypeOK, Ended
    <3>2. QED
      BY <1>2, <1>3, <1>5, <2>3, <3>1 DEF Undone
  <2>4. \A i \in DOMAIN session[c] : i = Len(session[c])
    BY <1>q, ScopesOfSession, LenProperties DEF IInv
  <2>5. QED
    BY <1>1, <1>2, <1>3, <2>1, <2>2, <2>3, <2>4, LevelIsLost
<1>8. QED
  BY <1>5, <1>6, <1>7 DEF IInv

LEMMA CommitFailsStep ==
  ASSUME IInv, NEW c \in Connections, CommitFails(c)
  PROVE  IInv'
<1>s. PICK s \in Scopes : s = Head(queue[c]).scope
  BY EndsWithin DEF CommitFails, Sent
<1>q. queue[c] # <<>> /\ Head(queue[c]).op \in {"commit", "rollback"} /\ Head(queue[c]).op = "commit" /\ Abort(c)
  BY DEF CommitFails, Sent
<1>m. PICK m : m = Control("rollback", s)
  OBVIOUS
<1>n. PICK n : n = Len(queue[c])
  OBVIOUS
<1>1. /\ connection[s] = c /\ state[s] = "committing" /\ session[c] # <<>> /\ s = Innermost(c)
      /\ \A t \in Scopes : connection[t] = c /\ t # s => state[t] = "running"
      /\ ~IsSavepoint(s) => \A t \in Scopes : connection[t] = c => t = s
      /\ ~IsSavepoint(s) => enclosing[s] = {s} /\ \A i \in DOMAIN session[c] : i = Len(session[c])
  <2>1. /\ connection[s] = c /\ state[s] = "committing" /\ session[c] # <<>> /\ s = Innermost(c)
        /\ \A t \in Scopes : connection[t] = c /\ t # s => state[t] = "running"
        /\ IsSavepoint(s) <=> Len(session[c]) > 1
        /\ Len(session[c]) <= 1 => \A t \in Scopes : connection[t] = c => t = s
    BY <1>s, <1>q, EndsWithin DEF StateFor
  <2>2. Len(session[c]) \in Nat /\ DOMAIN session[c] = 1..Len(session[c])
    BY ScopesOfSession, LenProperties DEF IInv
  <2>3. ~IsSavepoint(s) => Len(session[c]) <= 1 /\ \A i \in DOMAIN session[c] : i = Len(session[c])
    BY <2>1, <2>2
  <2>4. QED
    BY <2>1, <2>3 DEF IsSavepoint
<1>2. /\ m \in Statement /\ m.op = "rollback" /\ m.scope = s
      /\ queue' = [queue EXCEPT ![c] = Append(Tail(@), m)]
  BY <1>s, <1>m, ConstantsAssumption DEF Statement, Control, CommitFails
<1>3. /\ queue' \in [Connections -> Seq(Statement)]
      /\ \A d \in Connections \ {c} : queue'[d] = queue[d]
      /\ n \in DOMAIN queue'[c] /\ queue'[c][n] = m
      /\ \A i \in DOMAIN queue'[c] :
           /\ i \in Nat \ {0} /\ i \in 1..i
           /\ \A j \in 1..i : j # n => /\ queue'[c][j].op = "write" /\ queue'[c][j].n # 0
                                       /\ queue'[c][j].late /\ queue'[c][j].scope = s /\ s \in enclosing[s]
           /\ i = n => \A j \in 1..(i - 1) : j \in 1..i /\ j # n
           /\ i # n => \A j \in 1..i : j # n
  <2>1. /\ queue[c] \in Seq(Statement) /\ Tail(queue[c]) \in Seq(Statement)
        /\ n \in Nat /\ n >= 1 /\ Len(Tail(queue[c])) = n - 1
        /\ \A i \in 1..(n - 1) : Tail(queue[c])[i] = queue[c][i + 1]
        /\ DOMAIN queue[c] = 1..n
    BY <1>q, <1>n, TailOf, LenProperties DEF IInv, TypeOK
  <2>2. queue'[c] = Append(Tail(queue[c]), m)
    BY <1>2 DEF IInv, TypeOK
  <2>3. \A i \in DOMAIN queue[c] : i # 1 =>
          /\ queue[c][i].op = "write" /\ queue[c][i].n # 0
          /\ queue[c][i].late /\ queue[c][i].scope = s /\ s \in enclosing[s]
    BY <1>s, <1>q, OneIsAwaited
  <2>4. /\ queue'[c] \in Seq(Statement) /\ Len(queue'[c]) = n /\ queue'[c][n] = m
        /\ \A i \in 1..(n - 1) : queue'[c][i] = queue[c][i + 1]
        /\ DOMAIN queue'[c] = 1..n
    <3>1. /\ queue'[c] \in Seq(Statement) /\ Len(queue'[c]) = Len(Tail(queue[c])) + 1
          /\ \A i \in 1..Len(Tail(queue[c])) : queue'[c][i] = Tail(queue[c])[i]
          /\ queue'[c][Len(Tail(queue[c])) + 1] = m
      <4>1. PICK q \in Seq(Statement) : q = Tail(queue[c])
        BY <2>1
      <4>2. m \in Statement
        BY <1>2
      <4>3. queue'[c] = Append(q, m)
        BY <2>2, <4>1
      <4>4. /\ Append(q, m) \in Seq(Statement) /\ Len(Append(q, m)) = Len(q) + 1
            /\ \A i \in 1..Len(q) : Append(q, m)[i] = q[i]
            /\ Append(q, m)[Len(q) + 1] = m
        BY <4>2, AppendTo
      <4>5. QED
        BY <4>1, <4>3, <4>4
    <3>2. (n - 1) + 1 = n
      BY <2>1
    <3>3. QED
      BY <2>1, <3>1, <3>2, LenProperties
  <2>5. ASSUME NEW j \in 1..n, j # n
        PROVE  /\ queue'[c][j].op = "write" /\ queue'[c][j].n # 0
               /\ queue'[c][j].late /\ queue'[c][j].scope = s /\ s \in enclosing[s]
    <3>1. j \in 1..(n - 1) /\ j + 1 \in 1..n /\ j + 1 # 1
      BY <2>1, <2>5
    <3>2. queue'[c][j] = queue[c][j + 1]
      BY <2>4, <3>1
    <3>3. j + 1 \in DOMAIN queue[c] /\ j + 1 # 1
      BY <2>1, <3>1
    <3>4. QED
      BY <2>3, <3>2, <3>3
  <2>6. ASSUME NEW i \in 1..n
        PROVE  /\ i \in Nat \ {0} /\ i \in 1..i /\ \A j \in 1..i : j \in 1..n
               /\ i = n => \A j \in 1..(i - 1) : j \in 1..i /\ j # n
               /\ i # n => \A j \in 1..i : j # n
    BY <2>1
  <2>7. /\ queue' \in [Connections -> Seq(Statement)]
        /\ \A d \in Connections \ {c} : queue'[d] = queue[d]
    BY <1>2, <2>4 DEF IInv, TypeOK
  <2>8. n \in 1..n
    BY <2>1
  <2>9. QED
    BY <2>4, <2>5, <2>6, <2>7, <2>8
<1>4. /\ UNCHANGED <<caller, enclosing, connection, blocked, written, acknowledged, durable>>
      /\ \A t \in Scopes \ {s} : state'[t] = state[t]
      /\ state'[s] = "rollingBack"
      /\ \A d \in Connections \ {c} : session'[d] = session[d]
      /\ session'[c] = IF IsSavepoint(s) THEN session[c] ELSE <<>>
      /\ session' = IF IsSavepoint(s) THEN session ELSE [session EXCEPT ![c] = <<>>]
      /\ aborted \subseteq aborted' /\ aborted' \subseteq Scopes /\ s \in aborted'
  <2>1. /\ UNCHANGED <<caller, enclosing, connection, blocked, written, acknowledged, durable>>
        /\ \A t \in Scopes \ {s} : state'[t] = state[t]
        /\ state'[s] = "rollingBack"
        /\ session' = IF IsSavepoint(s) THEN session ELSE [session EXCEPT ![c] = <<>>]
    BY <1>s DEF CommitFails, IInv, TypeOK
  <2>2. s \in aborted'
    BY <1>1, <1>q DEF Abort
  <2>3. QED
    BY <1>q, <2>1, <2>2, AbortGrows DEF IInv, TypeOK
<1>5. TypeOK'
  <2>1. state' \in [Scopes -> States] /\ session' \in [Connections -> Seq(Level)]
    <3>1. <<>> \in Seq(Level)
      OBVIOUS
    <3>2. QED
      BY <1>s, <1>4, <3>1 DEF CommitFails, IInv, TypeOK, States
  <2>2. \A t \in Scopes : connection'[t] = None <=> state'[t] \in Ended \cup {"waiting"}
    BY <1>1, <1>4 DEF IInv, TypeOK, Ended
  <2>3. QED
    BY <1>3, <1>4, <2>1, <2>2 DEF IInv, TypeOK
<1>6. /\ \A d \in Connections \ {c} : /\ \A i \in DOMAIN session'[d] : NestedAt(d, i)'
                                      /\ \A i \in DOMAIN queue'[d] : InOrder(d, i)'
      /\ \A t \in Scopes \ {s} : connection[t] # c => IsInside(t)' /\ IsAwaited(t)'
  BY <1>1, <1>3, <1>4, OtherConnections
<1>7. SessionIsNested'
  <2>1. CASE IsSavepoint(s)
    <3>1. session' = session /\ \A i : ScopeAt(c, i)' = ScopeAt(c, i)
      BY <1>4, <2>1 DEF ScopeAt
    <3>2. ASSUME NEW i \in DOMAIN session[c] PROVE NestedAt(c, i)'
      <4>1. /\ NestedAt(c, i) /\ i \in 1..i /\ ScopeAt(c, i) \in Scopes
            /\ i < Len(session[c]) => ScopeAt(c, i) # s
        BY <1>1, ScopesOfSession, InnermostIsNested DEF IInv, SessionIsNested
      <4>2. i < Len(session'[c]) => /\ state'[ScopeAt(c, i)] = "running" /\ blocked'[ScopeAt(c, i)]
                                    /\ caller'[ScopeAt(c, i + 1)'] = ScopeAt(c, i)
        BY <1>4, <3>1, <4>1 DEF NestedAt
      <4>3. /\ connection'[ScopeAt(c, i)] = c /\ enclosing'[ScopeAt(c, i)] = enclosing[ScopeAt(c, i)]
            /\ state'[ScopeAt(c, i)] \in {"running", "committing", "rollingBack"}
        BY <1>4, <4>1 DEF NestedAt
      <4>4. QED
        BY <3>1, <4>1, <4>2, <4>3, NestedStays
    <3>3. QED
      BY <1>6, <3>1, <3>2 DEF SessionIsNested
  <2>2. CASE ~IsSavepoint(s)
    <3>1. DOMAIN session'[c] = {}
      BY <1>4, <2>2
    <3>2. QED
      BY <1>6, <3>1 DEF SessionIsNested
  <2>3. QED
    BY <2>1, <2>2
<1>8. HoldersAreInside'
  <2>1. ASSUME NEW t \in Scopes, connection[t] = c PROVE IsInside(t)'
    <3>1. CASE IsSavepoint(s)
      <4>1. session' = session /\ \A i : ScopeAt(c, i)' = ScopeAt(c, i)
        BY <1>4, <3>1 DEF ScopeAt
      <4>2. \E i \in DOMAIN session[c] : ScopeAt(c, i) = t
        BY <1>1, <2>1 DEF IInv, HoldersAreInside, IsInside
      <4>3. QED
        BY <1>1, <1>4, <2>1, <4>1, <4>2 DEF IsInside
    <3>2. CASE ~IsSavepoint(s)
      <4>1. t = s /\ session'[c] = <<>> /\ enclosing'[s] = {s}
        BY <1>1, <1>4, <2>1, <3>2
      <4>2. QED
        BY <1>1, <1>4, <4>1 DEF IsInside
    <3>3. QED
      BY <3>1, <3>2
  <2>2. QED
    BY <1>1, <1>6, <2>1 DEF HoldersAreInside
<1>9. QueueIsInOrder'
  <2>1. ~IsAborted(c)' => Chain(c)' = enclosing'[s] \ {s}
    <3>1. CASE IsSavepoint(s)
      <4>1. session' = session /\ Innermost(c)' = s
        BY <1>1, <1>4, <3>1 DEF Innermost
      <4>2. QED
        BY <1>1, <1>4, <4>1 DEF IsAborted
    <3>2. CASE ~IsSavepoint(s)
      BY <1>1, <1>4, <3>2 DEF Chain
    <3>3. QED
      BY <3>1, <3>2
  <2>2. ASSUME NEW i \in DOMAIN queue'[c] PROVE InOrder(c, i)'
    <3>1. CASE i = n
      <4>1. WriteInPlace(c, i)'
        BY <1>2, <1>3, <3>1 DEF WriteInPlace
      <4>2. \A j \in DOMAIN queue'[c] : queue'[c][j].op # "write" => j = i
        <5> SUFFICES ASSUME NEW j \in DOMAIN queue'[c], j # n PROVE queue'[c][j].op = "write"
          BY <3>1
        <5>1. QED
          BY <1>3
      <4>3. ControlInPlace(c, i)'
        BY <1>1, <1>2, <1>3, <1>4, <3>1, <4>2 DEF ControlInPlace, StateFor
      <4>4. QED
        BY <4>1, <4>3 DEF InOrder
    <3>2. CASE i # n
      <4>1. /\ i \in Nat \ {0} /\ \A j \in 1..i : queue'[c][j].op = "write"
            /\ queue'[c][i].op = "write" /\ queue'[c][i].n # 0 /\ queue'[c][i].late
            /\ queue'[c][i].scope = s /\ s \in enclosing'[s]
        BY <1>3, <1>4, <3>2
      <4>2. WriteInPlace(c, i)'
        BY <2>1, <4>1, LateWritesLead
      <4>3. QED
        BY <4>1, <4>2 DEF InOrder, ControlInPlace
    <3>3. QED
      BY <3>1, <3>2
  <2>3. QED
    BY <1>6, <2>2 DEF QueueIsInOrder
<1>10. AwaitedIsSent'
  <2>1. IsAwaited(s)'
    BY <1>1, <1>2, <1>3, <1>4 DEF IsAwaited
  <2>2. ASSUME NEW t \in Scopes \ {s}, connection[t] = c PROVE IsAwaited(t)'
    BY <1>1, <1>4, <2>2 DEF IsAwaited
  <2>3. QED
    BY <1>6, <2>1, <2>2 DEF AwaitedIsSent
<1>11. EnclosingHasBegun'
  BY <1>1, <1>4 DEF IInv, TypeOK, EnclosingHasBegun
<1>12. WritesArePlaced'
  <2>1. \A t \in Scopes : Settled(t) => Settled(t)'
    BY <1>1, <1>4, <1>q, AbortEffect DEF Settled
  <2>2. \A t \in Scopes : Undone(t) => Undone(t)'
    <3> SUFFICES ASSUME NEW t \in Scopes, Undone(t) PROVE Undone(t)'
      OBVIOUS
    <3>1. t # s /\ (state[t] = "rollingBack" => connection[t] \in Connections \ {c})
      BY <1>1 DEF Undone, IInv, TypeOK, Ended
    <3>2. QED
      BY <1>4, <3>1 DEF Undone
  <2>3. CASE IsSavepoint(s)
    BY <1>4, <2>1, <2>2, <2>3, PlacedStays
  <2>4. CASE ~IsSavepoint(s)
    <3>1. session'[c] = <<>> /\ DOMAIN session'[c] = {}
      BY <1>4, <2>4
    <3>2. Undone(s)'
      BY <1>1, <1>4, <3>1 DEF Undone
    <3>3. \A i \in DOMAIN session[c] : i = Len(session[c])
      BY <1>1, <2>4
    <3>4. QED
      BY <1>1, <1>4, <2>1, <2>2, <3>1, <3>2, <3>3, LevelIsLost
  <2>5. QED
    BY <2>3, <2>4
<1>13. QED
  BY <1>5, <1>7, <1>8, <1>9, <1>10, <1>11, <1>12 DEF IInv

LEMMA RolledBackStep ==
  ASSUME IInv, NEW c \in Connections, RolledBack(c)
  PROVE  IInv'
<1>s. PICK s \in Scopes : s = Head(queue[c]).scope
  BY EndsWithin DEF RolledBack, Sent
<1>q. queue[c] # <<>> /\ Head(queue[c]).op \in {"commit", "rollback"} /\ queue' = [queue EXCEPT ![c] = Tail(@)]
  BY DEF RolledBack, Sent
<1>1. /\ connection[s] = c /\ state[s] = "rollingBack"
      /\ session[c] # <<>> => s = Innermost(c)
      /\ \A t \in Scopes : connection[t] = c /\ t # s => state[t] = "running"
  BY <1>s, <1>q, EndsWithin DEF RolledBack, Sent, StateFor
<1>2. /\ UNCHANGED <<caller, enclosing, written, aborted, acknowledged, durable>>
      /\ Finally(s, "rejected")
      /\ session' = [session EXCEPT ![c] = IF session[c] = <<>> THEN <<>> ELSE Outer(c)]
  BY <1>s DEF RolledBack, DropLevel
<1>d. \A d \in Connections \ {c} : session'[d] = session[d]
  BY <1>2 DEF IInv, TypeOK
<1>3. /\ session'[c] \in Seq(Level)
      /\ session[c] = <<>> => session'[c] = <<>>
      /\ session[c] # <<>> => Len(session'[c]) = Len(session[c]) - 1
      /\ \A i \in DOMAIN session'[c] : /\ i \in DOMAIN session[c] /\ session'[c][i] = session[c][i]
                                     /\ i # Len(session[c])
      /\ \A i \in DOMAIN session[c] : i # Len(session[c]) => i \in DOMAIN session'[c]
  <2>1. session'[c] = IF session[c] = <<>> THEN <<>> ELSE Outer(c)
    BY <1>2 DEF IInv, TypeOK
  <2>2. CASE session[c] = <<>>
    BY <2>1, <2>2
  <2>3. CASE session[c] # <<>>
    <3>1. /\ Outer(c) \in Seq(Level) /\ Len(Outer(c)) = Len(session[c]) - 1
          /\ \A i \in 1..(Len(session[c]) - 1) : Outer(c)[i] = session[c][i]
          /\ DOMAIN Outer(c) = 1..(Len(session[c]) - 1) /\ DOMAIN session[c] = 1..Len(session[c])
          /\ Len(session[c]) \in Nat
      BY <2>3, OuterOf, LenProperties, ScopesOfSession DEF IInv
    <3>2. QED
      BY <2>1, <2>3, <3>1
  <2>4. QED
    BY <2>2, <2>3
<1>4. \A i \in DOMAIN session'[c] : ScopeAt(c, i)' = ScopeAt(c, i)
  BY <1>3 DEF ScopeAt
<1>5. /\ state' \in [Scopes -> States] /\ blocked' \in [Scopes -> BOOLEAN]
      /\ connection' \in [Scopes -> Connections \cup {None}]
      /\ \A t \in Scopes : connection'[t] = None <=> state'[t] \in Ended \cup {"waiting"}
      /\ queue' \in [Connections -> Seq(Statement)]
      /\ SessionIsNested' /\ HoldersAreInside' /\ QueueIsInOrder' /\ AwaitedIsSent' /\ EnclosingHasBegun'
      /\ \A t \in Scopes \ {s} : state'[t] = state[t] /\ connection'[t] = connection[t]
      /\ state'[s] = "rejected"
  <2>1. "rejected" \in {"resolved", "rejected"} /\ UNCHANGED <<caller, enclosing, aborted>>
    BY <1>2
  <2>2. QED
    BY <1>s, <1>q, <1>2, <1>d, <1>3, <1>4, <2>1, LevelEnds
<1>6. TypeOK'
  <2>1. session' \in [Connections -> Seq(Level)]
    BY <1>2, <1>3, <1>d DEF IInv, TypeOK
  <2>2. QED
    BY <1>2, <1>5, <2>1 DEF IInv, TypeOK
<1>7. WritesArePlaced'
  <2>1. \A t \in Scopes : Settled(t) => Settled(t)'
    BY <1>1, <1>2, <1>5 DEF Settled
  <2>2. Undone(s)' /\ (session[c] = <<>> => Undone(s))
    BY <1>1, <1>5 DEF Undone
  <2>3. ASSUME NEW t \in Scopes \ {s}, Undone(t) PROVE Undone(t)'
    <3>1. state[t] = "rollingBack" => connection[t] \in Connections \ {c}
      BY <1>1 DEF IInv, TypeOK, Ended
    <3>2. QED
      BY <1>2, <1>d, <1>5, <2>3, <3>1 DEF Undone
  <2>4. QED
    BY <1>1, <1>2, <1>3, <1>d, <2>1, <2>2, <2>3, LevelIsLost
<1>8. QED
  BY <1>5, <1>6, <1>7 DEF IInv

-----------------------------------------------------------------------------
LEMMA IInvStep ==
  ASSUME IInv, [Next]_vars
  PROVE  IInv'
<1>1. ASSUME NEW s \in Scopes, NEW p \in Scopes \cup {None}, Call(s, p) PROVE IInv'
  BY <1>1, OutsideStep DEF Call
<1>2. ASSUME NEW s \in Scopes, NEW c \in Connections, Acquire(s, c) PROVE IInv'
  BY <1>2, AcquireStep
<1>3. ASSUME NEW s \in Scopes, NEW p \in Scopes, Nest(s, p) PROVE IInv'
  BY <1>3, NestStep
<1>4. ASSUME NEW s \in Scopes, GiveUp(s) PROVE IInv'
  <2>1. caller' = [caller EXCEPT ![s] = caller[s]] /\ caller[s] \in Scopes \cup {None}
    BY <1>4 DEF GiveUp, IInv, TypeOK
  <2>2. QED
    BY <1>4, <2>1, OutsideStep DEF GiveUp, GivesUp
<1>5. ASSUME NEW s \in Scopes, Query(s) \/ Resolve(s) \/ Reject(s) PROVE IInv'
  BY <1>5, QueryStep, EndStep
<1>6. ASSUME NEW c \in Connections, Answer(c) PROVE IInv'
  BY <1>6, StartedStep, StartFailsStep, WrittenStep, WriteFailsStep, CommittedStep, CommittedNothingStep,
     CommitFailsStep, RolledBackStep DEF Answer
<1>7. CASE UNCHANGED vars
  <2>1. UNCHANGED <<state, connection, enclosing, caller, blocked, queue, session, aborted, acknowledged, durable>>
    BY <1>7 DEF vars
  <2>2. /\ \A d, i : ScopeAt(d, i)' = ScopeAt(d, i)
        /\ \A d : Innermost(d)' = Innermost(d) /\ Chain(d)' = Chain(d) /\ (IsAborted(d)' <=> IsAborted(d))
    BY <2>1 DEF ScopeAt, Innermost, Chain, IsAborted
  <2>3. TypeOK' /\ EnclosingHasBegun'
    BY <1>7 DEF vars, IInv, TypeOK, EnclosingHasBegun
  <2>4. SessionIsNested'
    BY <2>1, NestedUnchanged DEF IInv, SessionIsNested
  <2>5. ASSUME NEW t \in Scopes PROVE IsInside(t)' /\ IsAwaited(t)'
    <3>1. IsInside(t) /\ IsAwaited(t)
      BY DEF IInv, HoldersAreInside, AwaitedIsSent
    <3>2. QED
      BY <2>1, <2>2, <3>1 DEF IsInside, IsAwaited
  <2>6. ASSUME NEW c \in Connections, NEW i \in DOMAIN queue'[c] PROVE InOrder(c, i)'
    <3>1. InOrder(c, i)
      BY <2>1 DEF IInv, QueueIsInOrder
    <3>2. WriteInPlace(c, i)'
      BY <2>1, <2>2, <3>1 DEF InOrder, WriteInPlace, Around
    <3>3. ControlInPlace(c, i)'
      BY <2>1, <3>1 DEF InOrder, ControlInPlace
    <3>4. QED
      BY <3>2, <3>3 DEF InOrder
  <2>7. WritesArePlaced'
    BY <2>1, PlacedStays DEF Undone, Settled
  <2>8. QED
    BY <2>3, <2>4, <2>5, <2>6, <2>7 DEF IInv, HoldersAreInside, QueueIsInOrder, AwaitedIsSent
<1>8. QED
  BY <1>1, <1>2, <1>3, <1>4, <1>5, <1>6, <1>7 DEF Next

\* Scopes nest, at most one scope of a connection starts or ends, and writes are where
\* they belong, in every behaviour.
THEOREM TransactionInvariance == Spec => []IInv
  BY IInvInit, IInvStep, PTL DEF Spec

\* A scope has a connection exactly while it has begun and not ended.
THEOREM TypeCorrectness == Spec => []TypeOK
<1>1. IInv => TypeOK
  BY DEF IInv
<1>2. QED
  BY <1>1, TransactionInvariance, PTL

\* An acknowledged write is committed if and only if every transaction around it is
\* resolved and none had a failure that was not passed on (context.ts:218-273); what is
\* written by a branch that is left over shares the fate of the transactions that its
\* scope was nested in.
THEOREM WritesAreAtomic == Spec => []AllOrNothing
<1>1. ASSUME IInv PROVE AllOrNothing
  <2>2. ASSUME NEW c \in Connections, NEW i \in DOMAIN session[c], NEW w \in session[c][i].writes
        PROVE  \E t \in Around(w) : ~Settled(t)
    <3>1. NestedAt(c, i) /\ i \in 1..i
      BY <1>1, ScopesOfSession DEF IInv, SessionIsNested
    <3>2. ScopeAt(c, i) \in enclosing[ScopeAt(c, i)] /\ state[ScopeAt(c, i)] # "resolved"
      BY <3>1 DEF NestedAt
    <3>3. enclosing[ScopeAt(c, i)] \subseteq Around(w)
      BY <1>1 DEF IInv, WritesArePlaced, IsAtLevel
    <3>4. QED
      BY <3>2, <3>3 DEF Settled
  <2>3. ASSUME NEW w \in acknowledged \ durable
        PROVE  \E t \in Around(w) : ~Settled(t)
    BY <1>1, <2>2 DEF IInv, WritesArePlaced, Undone, Settled
  <2>4. QED
    BY <1>1, <2>3 DEF IInv, WritesArePlaced, AllOrNothing, Settled
<1>2. QED
  BY <1>1, TransactionInvariance, PTL

\* A connection goes back to the pool without a transaction, and all that may not have
\* been answered is what branches have asked for when their callback had ended
\* (context.ts:117-182, 185-280).
THEOREM PoolStaysClean == Spec => []PoolIsClean
<1>1. ASSUME IInv PROVE PoolIsClean
  BY <1>1, FreeIsClean DEF PoolIsClean, Free
<1>2. QED
  BY <1>1, TransactionInvariance, PTL

\* A Context that can be used is the innermost one of its connection, also while its own
\* transaction ends: a query never overtakes the scopes that are nested in its own
\* (context.ts:121-130, 218-226, 263-275).
THEOREM InnermostIsUsed == Spec => []UsableIsInnermost
<1>1. ASSUME IInv PROVE UsableIsInnermost
  <2> SUFFICES ASSUME NEW s \in Scopes, Usable(s),
                      NEW t \in Scopes \ {s}, connection[t] = connection[s], state[t] \notin Ended
               PROVE  t \in enclosing[s]
    BY DEF UsableIsInnermost
  <2>c. PICK c \in Connections : connection[s] = c
    BY <1>1, ConstantsAssumption DEF Usable, IInv, TypeOK, Ended
  <2>1. /\ state[t] = "running"
        /\ session[c] # <<>> => s = Innermost(c)
        /\ session[c] = <<>> => state[s] = "rollingBack"
    <3>1. CASE state[s] = "running"
      BY <1>1, <2>c, <3>1, RunsInside DEF Usable
    <3>2. CASE state[s] \in {"committing", "rollingBack"}
      <4>1. /\ session[c] # <<>> => s = Innermost(c)
            /\ session[c] = <<>> => state[s] = "rollingBack"
        BY <1>1, <2>c, <3>2, EndsInside
      <4>2. PICK i \in DOMAIN queue[c] : queue[c][i].op # "write" /\ queue[c][i].scope = s
        BY <1>1, <2>c, <3>2 DEF IInv, AwaitedIsSent, IsAwaited
      <4>3. ASSUME NEW j \in DOMAIN queue[c], queue[c][j].op # "write" PROVE j = i
        BY <1>1, <4>2, <4>3 DEF IInv, QueueIsInOrder, InOrder, ControlInPlace
      <4>4. state[t] \notin {"starting", "committing", "rollingBack"}
        BY <1>1, <2>c, <4>2, <4>3 DEF IInv, AwaitedIsSent, IsAwaited
      <4>5. state[t] # "waiting"
        BY <1>1, <2>c, ConstantsAssumption DEF IInv, TypeOK, Ended
      <4>6. QED
        BY <1>1, <4>1, <4>4, <4>5 DEF IInv, TypeOK, States, Ended
    <3>3. QED
      BY <3>1, <3>2 DEF Usable
  <2>2. PICK i \in DOMAIN session[c] : ScopeAt(c, i) = t
    BY <1>1, <2>c, <2>1 DEF IInv, HoldersAreInside, IsInside
  <2>3. session[c] # <<>>
    BY <2>2
  <2>4. enclosing[Innermost(c)] = Chain(c)
    BY <1>1, <2>3, InnermostIsNested
  <2>5. QED
    BY <2>1, <2>2, <2>3, <2>4 DEF Chain
<1>2. QED
  BY <1>1, TransactionInvariance, PTL
=============================================================================
