----------------------------- MODULE StreamFamily -----------------------------
(***************************************************************************)
(* A stream of linked contracts as the kernel opens it (Kernel.stream):    *)
(* besides the base stream, which is of the roots, an inverse stream of    *)
(* the leaves that are linked to a root, for the base stream does not      *)
(* notice a leaf that it has not sent yet.  For each event of the inverse  *)
(* stream a handler looks for a root with that leaf, and emits an event    *)
(* about that root on the base stream, which is not told.                  *)
(*                                                                         *)
(* Both streams are Streams, with roots and leaves exchanged, on the same  *)
(* tables.  The inverse stream is neither queried nor given another        *)
(* schema.                                                                 *)
(***************************************************************************)
EXTENDS Streams, SequencesExt

CONSTANT Handlers  \* handlers of inverse events in progress at once

VARIABLES
  inverseWire, inverseSeen, inverseStage, inverseRootIds, inversePayload,
  inverseRetries, inverseContracts, inverseEvents, inverseView,
  handling  \* of each handler, None or the event it was called with, whether it is
            \* "waiting" (the delay and the query) or "answered", and what it found

Inverted(pairs) == {<<p[2], p[1]>> : p \in pairs}

\* inverseSchema: that of the leaf, linked to the query without its $$links.
OfLeaves == INSTANCE Streams WITH
  Roots <- Leaves, Leaves <- Roots, links <- Inverted(links), linked <- Inverted(linked),
  wire <- inverseWire, seen <- inverseSeen, stage <- inverseStage,
  rootIds <- inverseRootIds, payload <- inversePayload, retries <- inverseRetries,
  contracts <- inverseContracts, events <- inverseEvents, view <- inverseView

inverse == <<inverseWire, inverseSeen, inverseStage, inverseRootIds, inversePayload,
             inverseRetries, inverseContracts, inverseEvents, inverseView>>

familyVars == <<vars, inverse, handling>>

FamilyInit ==
  /\ Init
  /\ inverseWire = <<>>
  /\ inverseSeen = [c \in Contracts |-> {}]
  /\ inverseStage = [p \in Pushes |-> "idle"]
  /\ inverseRootIds = [p \in Pushes |-> {}]
  /\ inversePayload = [p \in Pushes |-> None]
  /\ inverseRetries = [p \in Pushes |-> 0]
  /\ inverseContracts = [p \in Pushes |-> OfLeaves!NoContracts]
  /\ inverseEvents = {}
  /\ inverseView = OfLeaves!NoContracts
  /\ handling = [h \in Handlers |-> None]

-----------------------------------------------------------------------------
(* The database notifies both streams; a link is found by the end that is  *)
(* of the type of the stream.                                              *)

NotifyInverse(id) ==
  LET n == Last(wire') IN OfLeaves!Notify(id, n.type, n.link) /\ UNCHANGED handling

FamilyDatabase ==
  \/ \E c \in Contracts, v \in Maybe(Values) : Write(c, v) /\ NotifyInverse(c)
  \/ \E r \in Roots, l \in Leaves :
       \/ WriteLink(r, l) /\ NotifyInverse(l)
       \/ LinkLands(r, l) /\ UNCHANGED <<inverse, handling>>

BaseStream ==
  /\ \/ \E p \in Pushes : Push(p) \/ Fetch(p, schema) \/ Dataset(p)
     \/ PushDelete \/ PushNothing
  /\ UNCHANGED <<inverse, handling>>

-----------------------------------------------------------------------------
(* The 'data' handlers of the inverse stream.                              *)

Idle == {h \in Handlers : handling[h] = None}

\* A handler is called for each event, and waits 50 ms.
Called(es) ==
  LET called == SetToSeq(es)
      free == SetToSeq(Idle)
      Handled(h) == {i \in DOMAIN called : free[i] = h}
  IN /\ Len(called) <= Len(free)
     /\ handling' = [h \in Handlers |->
          IF h \in Idle /\ Handled(h) # {}
          THEN [event |-> called[CHOOSE i \in Handled(h) : TRUE], stage |-> "waiting", root |-> None, after |-> None]
          ELSE handling[h]]

InverseStream ==
  /\ UNCHANGED <<db, wire, schema, seen, push>> /\ Quiet
  /\ \/ \E p \in Pushes : OfLeaves!Push(p)
     \/ OfLeaves!PushDelete \/ OfLeaves!PushNothing
  /\ Called(inverseEvents')

\* The roots that a query without the schema of the leaf joins to it (schema.$$links
\* has the inverse verb, not this one).
RootsOf(l) == {r \in Roots : rows[r] \in schema /\ <<r, l>> \in links /\ rows[l] # None}

\* The query of a handler, for one root with this leaf, and its result.
Find(h) ==
  /\ handling[h] # None /\ handling[h].stage = "waiting"
  /\ LET e == handling[h].event
         Found(r) == [value |-> rows[r], leaves |-> [l \in Leaves |-> IF l = e.id THEN rows[l] ELSE None]]
     IN IF RootsOf(e.id) = {}
        THEN handling' = [handling EXCEPT ![h] = None]
        ELSE \E r \in RootsOf(e.id) :
               handling' = [handling EXCEPT ![h].stage = "answered", ![h].root = r,
                                            ![h].after = IF e.after = None THEN None ELSE Found(r)]
  /\ Quiet
  /\ UNCHANGED <<db, wire, schema, seen, push, inverse>>

\* The change, with the root in place of the leaf, is emitted on the base stream.
Report(h) ==
  /\ handling[h] # None /\ handling[h].stage = "answered"
  /\ Emit({[id |-> handling[h].root, type |-> handling[h].event.type, after |-> handling[h].after]})
  /\ handling' = [handling EXCEPT ![h] = None]
  /\ UNCHANGED <<db, wire, schema, seen, push, inverse>>

\* The query is rejected: nobody is told.
FindFails(h) ==
  /\ handling[h] # None /\ handling[h].stage = "waiting"
  /\ handling' = [handling EXCEPT ![h] = None]
  /\ Quiet
  /\ UNCHANGED <<db, wire, schema, seen, push, inverse>>

FamilyNext ==
  \/ FamilyDatabase \/ BaseStream \/ InverseStream
  \/ \E h \in Handlers : Find(h) \/ Report(h) \/ FindFails(h)

FamilySpec == FamilyInit /\ [][FamilyNext]_familyVars

-----------------------------------------------------------------------------
(* Properties.                                                             *)

\* kernel.ts:1301-1303: "unmatch: on an update to a previously seen contract [...]
\* that makes the contract not match the schema anymore".  A root that the subscriber
\* holds and that a handler is about to report as unmatched does not match when the
\* handler looks for it.
UnmatchMeansNoMatch ==
  [][\A h \in Handlers :
       Find(h) /\ handling[h].event.type = "unmatch" /\ handling'[h] # None =>
         LET r == handling'[h].root IN view[r] # None => ~Matches(schema, r)]_familyVars
=============================================================================
