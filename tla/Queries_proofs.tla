---------------------------- MODULE Queries_proofs ----------------------------
(***************************************************************************)
(* slug@latest is one version, and the newest release if there is one. An  *)
(* actor's query answers for what the actor may read.  Folding constants   *)
(* changes neither what a filter selects nor the links in it; keywords say *)
(* nothing of values of other types, nor of contracts without a property.  *)
(*                                                                         *)
(* All of it from the equations that define the recursive operators, for   *)
(* any schemas, contracts, actors, links and versions.                     *)
(***************************************************************************)
EXTENDS Queries, Keywords, FiniteSetTheorems, SequenceTheorems, TLAPS

-----------------------------------------------------------------------------
(* slug@latest is one version, and the newest release if there is one. *)

LEMMA VersionFields ==
  ASSUME NEW v \in Version
  PROVE  /\ v.major \in Nat /\ v.minor \in Nat /\ v.patch \in Nat
         /\ v.prerelease \in Texts /\ v.build \in Texts
         /\ TextRank[v.prerelease] \in Nat /\ TextRank[v.build] \in Nat
BY VersionsAssumption DEF Version

\* Two versions whose columns are equal are equal.
LEMMA ColumnsIdentify ==
  ASSUME NEW v \in Version, NEW w \in Version,
         v.major = w.major, v.minor = w.minor, v.patch = w.patch,
         TextRank[v.prerelease] = TextRank[w.prerelease], TextRank[v.build] = TextRank[w.build]
  PROVE  v = w
<1>1. v.prerelease = w.prerelease /\ v.build = w.build
  BY VersionFields, VersionsAssumption
<1>2. QED
  BY <1>1 DEF Version

\* The columns one by one.
LEMMA PrecedesByColumns ==
  ASSUME NEW v \in Version, NEW w \in Version
  PROVE  Precedes(v, w) <=>
           \/ TextRank[v.prerelease] < TextRank[w.prerelease]
           \/ /\ TextRank[v.prerelease] = TextRank[w.prerelease]
              /\ \/ v.major > w.major
                 \/ v.major = w.major /\ v.minor > w.minor
                 \/ v.major = w.major /\ v.minor = w.minor /\ v.patch > w.patch
                 \/ /\ v.major = w.major /\ v.minor = w.minor /\ v.patch = w.patch
                    /\ TextRank[v.build] > TextRank[w.build]
<1>1. /\ VersionOrder[1] = [column |-> "prerelease", desc |-> FALSE]
      /\ VersionOrder[2] = [column |-> "major", desc |-> TRUE]
      /\ VersionOrder[3] = [column |-> "minor", desc |-> TRUE]
      /\ VersionOrder[4] = [column |-> "patch", desc |-> TRUE]
      /\ VersionOrder[5] = [column |-> "build", desc |-> TRUE]
  <2>1. /\ Columns[1] = "prerelease" /\ Columns[2] = "major" /\ Columns[3] = "minor"
        /\ Columns[4] = "patch" /\ Columns[5] = "build"
    BY DEF Columns
  <2>2. \A i \in 1..5 : VersionOrder[i] = [column |-> Columns[i], desc |-> Columns[i] # "prerelease"]
    BY DEF VersionOrder
  <2>3. /\ VersionOrder[1] = [column |-> "prerelease", desc |-> "prerelease" # "prerelease"]
        /\ VersionOrder[2] = [column |-> "major", desc |-> "major" # "prerelease"]
        /\ VersionOrder[3] = [column |-> "minor", desc |-> "minor" # "prerelease"]
        /\ VersionOrder[4] = [column |-> "patch", desc |-> "patch" # "prerelease"]
        /\ VersionOrder[5] = [column |-> "build", desc |-> "build" # "prerelease"]
    BY <2>1, <2>2
  <2>4. QED
    BY <2>3
<1>2. \A x \in {v, w} : /\ Column(x, "prerelease") = TextRank[x.prerelease]
                        /\ Column(x, "major") = x.major
                        /\ Column(x, "minor") = x.minor
                        /\ Column(x, "patch") = x.patch
                        /\ Column(x, "build") = TextRank[x.build]
  BY DEF Column
<1> DEFINE Differ(i) == /\ LET a == Column(v, VersionOrder[i].column)
                               b == Column(w, VersionOrder[i].column)
                           IN IF VersionOrder[i].desc THEN a > b ELSE a < b
                        /\ \A j \in 1..(i - 1) :
                             Column(v, VersionOrder[j].column) = Column(w, VersionOrder[j].column)
<1>3. Precedes(v, w) <=> Differ(1) \/ Differ(2) \/ Differ(3) \/ Differ(4) \/ Differ(5)
  <2>1. 1..5 = {1, 2, 3, 4, 5}
    OBVIOUS
  <2>2. QED
    BY <2>1 DEF Precedes
<1>4. 1..0 = {} /\ 1..1 = {1} /\ 1..2 = {1, 2} /\ 1..3 = {1, 2, 3} /\ 1..4 = {1, 2, 3, 4}
  OBVIOUS
<1>5. Differ(1) <=> TextRank[v.prerelease] < TextRank[w.prerelease]
  BY <1>1, <1>2, <1>4
<1>6. Differ(2) <=> TextRank[v.prerelease] = TextRank[w.prerelease] /\ v.major > w.major
  BY <1>1, <1>2, <1>4
<1>7. Differ(3) <=> /\ TextRank[v.prerelease] = TextRank[w.prerelease] /\ v.major = w.major
                    /\ v.minor > w.minor
  BY <1>1, <1>2, <1>4
<1>8. Differ(4) <=> /\ TextRank[v.prerelease] = TextRank[w.prerelease] /\ v.major = w.major
                    /\ v.minor = w.minor /\ v.patch > w.patch
  BY <1>1, <1>2, <1>4
<1>9. Differ(5) <=> /\ TextRank[v.prerelease] = TextRank[w.prerelease] /\ v.major = w.major
                    /\ v.minor = w.minor /\ v.patch = w.patch /\ TextRank[v.build] > TextRank[w.build]
  BY <1>1, <1>2, <1>4
<1>10. QED
  BY <1>3, <1>5, <1>6, <1>7, <1>8, <1>9

\* A strict total order.
LEMMA PrecedesOrders ==
  ASSUME NEW u \in Version, NEW v \in Version, NEW w \in Version
  PROVE  /\ ~Precedes(v, v)
         /\ Precedes(v, w) => ~Precedes(w, v)
         /\ Precedes(u, v) /\ Precedes(v, w) => Precedes(u, w)
         /\ v # w => Precedes(v, w) \/ Precedes(w, v)
<1>1. ~Precedes(v, v) /\ (Precedes(v, w) => ~Precedes(w, v))
  BY VersionFields, PrecedesByColumns
<1>2. Precedes(u, v) /\ Precedes(v, w) => Precedes(u, w)
  BY VersionFields, PrecedesByColumns
<1>3. v # w => Precedes(v, w) \/ Precedes(w, v)
  BY VersionFields, PrecedesByColumns, ColumnsIdentify
<1>4. QED
  BY <1>1, <1>2, <1>3

\* The versions of a slug have a first: one that the fewest precede.
LEMMA FirstExists ==
  ASSUME NEW versions \in SUBSET Version, IsFiniteSet(versions), versions # {}
  PROVE  \E v \in versions : IsFirst(v, versions)
<1> DEFINE Before(v) == {w \in versions : Precedes(w, v)}
           Befores == {Before(v) : v \in versions}
<1>1. IsWellFoundedOn(StrictSubsetOrdering(versions), FiniteSubsetsOf(versions))
  BY FS_StrictSubsetOrderingWellFounded
<1>2. Befores \subseteq FiniteSubsetsOf(versions) /\ Befores # {}
  <2>1. Befores \subseteq SUBSET versions /\ Befores # {}
    OBVIOUS
  <2>2. QED
    BY <2>1, FS_FiniteSubsetsOfFinite
<1>3. PICK S \in Befores : \A T \in Befores : <<T, S>> \notin StrictSubsetOrdering(versions)
  BY <1>1, <1>2, WFMin
<1>4. PICK v \in versions : S = Before(v)
  BY <1>3
<1>5. ASSUME NEW w \in versions, w # v PROVE Precedes(v, w)
  <2>1. SUFFICES ASSUME Precedes(w, v) PROVE FALSE
    BY <1>5, PrecedesOrders
  <2>2. Before(w) \subseteq Before(v)
    BY <2>1, PrecedesOrders
  <2>3. w \in Before(v) /\ w \notin Before(w)
    BY <2>1, PrecedesOrders
  <2>4. <<Before(w), Before(v)>> \in StrictSubsetOrdering(versions)
    BY <2>2, <2>3 DEF StrictSubsetOrdering
  <2>5. QED
    BY <1>3, <1>4, <2>4
<1>6. QED
  BY <1>5 DEF IsFirst

-----------------------------------------------------------------------------
\* ORDER BY ... LIMIT 1 leaves no choice: the columns of the order are those of the
\* table's unique key (cards.ts:137), and one version comes before all others.
THEOREM LatestIsDetermined ==
  ASSUME NEW versions \in SUBSET Versions, IsFiniteSet(versions), versions # {}
  PROVE  /\ Latest(versions) \in versions /\ IsFirst(Latest(versions), versions)
         /\ \A v \in versions : IsFirst(v, versions) => v = Latest(versions)
<1>1. versions \in SUBSET Version
  BY VersionsAssumption
<1>2. Latest(versions) \in versions /\ IsFirst(Latest(versions), versions)
  BY <1>1, FirstExists DEF Latest
<1>3. ASSUME NEW v \in versions, IsFirst(v, versions), v # Latest(versions) PROVE FALSE
  <2>1. PICK w \in versions : w = Latest(versions)
    BY <1>2
  <2>2. Precedes(v, w) /\ Precedes(w, v)
    BY <1>2, <1>3, <2>1 DEF IsFirst
  <2>3. QED
    BY <1>1, <2>2, PrecedesOrders
<1>4. QED
  BY <1>2, <1>3

\* slug@latest is a release if there is one, and no release is newer: prereleases come
\* last although every other column is in descending order (sql-query.ts:122-151).
THEOREM LatestIsNewestRelease ==
  ASSUME NEW versions \in SUBSET Versions, IsFiniteSet(versions), versions # {}
  PROVE  IsNewest(Latest(versions), versions)
<1>1. PICK v \in versions : v = Latest(versions) /\ IsFirst(v, versions)
  BY LatestIsDetermined
<1>2. versions \subseteq Version
  BY VersionsAssumption
<1>3. ASSUME NEW w \in Releases(versions) PROVE v.prerelease = "" /\ ~NewerRelease(w, v)
  <2>1. w \in Version /\ v \in Version /\ w.prerelease = ""
    BY <1>2, <1>3 DEF Releases
  <2>2. v = w \/ Precedes(v, w)
    BY <1>1, <1>3 DEF IsFirst, Releases
  <2>3. /\ v.major \in Nat /\ v.minor \in Nat /\ v.patch \in Nat
        /\ w.major \in Nat /\ w.minor \in Nat /\ w.patch \in Nat
        /\ v.prerelease \in Texts /\ TextRank[v.prerelease] \in Nat /\ TextRank[w.prerelease] = 0
    BY <2>1, VersionFields, VersionsAssumption
  <2>4. Precedes(v, w) =>
           \/ TextRank[v.prerelease] < TextRank[w.prerelease]
           \/ /\ TextRank[v.prerelease] = TextRank[w.prerelease]
              /\ \/ v.major > w.major
                 \/ v.major = w.major /\ v.minor > w.minor
                 \/ v.major = w.major /\ v.minor = w.minor /\ v.patch >= w.patch
    <3>1. TextRank[v.build] > TextRank[w.build] /\ v.patch = w.patch => v.patch >= w.patch
      BY <2>3
    <3>2. v.patch > w.patch => v.patch >= w.patch
      BY <2>3
    <3>3. QED
      BY <2>1, <3>1, <3>2, PrecedesByColumns, Zenon
  <2>5. TextRank[v.prerelease] = 0
    BY <2>2, <2>3, <2>4
  <2>6. v.prerelease = ""
    BY <2>5, <2>3, VersionsAssumption
  <2>7. ~NewerRelease(w, v)
    <3>1. CASE v = w
      BY <2>3, <3>1 DEF NewerRelease
    <3>2. CASE Precedes(v, w)
      BY <2>3, <2>4, <3>2 DEF NewerRelease
    <3>3. QED
      BY <2>2, <3>1, <3>2
  <2>8. QED
    BY <2>6, <2>7
<1>4. QED
  BY <1>1, <1>3 DEF IsNewest, Releases

-----------------------------------------------------------------------------
(* Authorization.                                                          *)

\* A set as a sequence has its elements.
LEMMA SequenceOfSet ==
  ASSUME NEW S, IsFiniteSet(S)
  PROVE  {SetToSeq(S)[i] : i \in DOMAIN SetToSeq(S)} = S
<1> DEFINE n == Cardinality(S)
<1>1. n \in Nat /\ ExistsBijection(1..n, S)
  BY FS_CardinalityType
<1>2. \E f \in [1..n -> S] : IsInjective(f)
  BY <1>1 DEF ExistsBijection, Bijection, Injection
<1>3. SetToSeq(S) \in [1..n -> S] /\ IsInjective(SetToSeq(S))
  BY <1>2 DEF SetToSeq
<1>4. SetToSeq(S) \in Injection(1..n, S)
  BY <1>3 DEF Injection
<1>5. Cardinality(1..n) = n
  BY <1>1, FS_Interval
<1>6. SetToSeq(S) \in Surjection(1..n, S)
  BY <1>4, <1>5, FS_Injection
<1>7. QED
  BY <1>3, <1>6 DEF Surjection

LEMMA LimitsAre ==
  Limits = {"minimum", "maximum", "exclusiveMinimum", "exclusiveMaximum", "multipleOf", "minLength",
            "maxLength", "minItems", "maxItems", "minProperties", "maxProperties"}
<1>1. DOMAIN LimitKeywords = {1, 2, 3, 4, 5, 6, 7, 8, 9, 10, 11}
  BY DEF LimitKeywords
<1>2. QED
  BY <1>1 DEF Limits, LimitKeywords

\* What validity is, by its keywords.
LEMMA ValidityOfSchema ==
  ASSUME NEW schema \in Schemas, NEW v \in Values, NEW linked \in Linkings
  PROVE  IsValid(schema, v, linked) <=>
           Satisfies(schema, v, linked, LAMBDA s, x : IsValid(s, x, linked))
BY ValidityAssumption

LEMMA MergeIsConjunction ==
  ASSUME NEW a, NEW b, Merge(<<a, b>>) \in Schemas, NEW v \in Values, NEW linked \in Linkings
  PROVE  IsValid(Merge(<<a, b>>), v, linked) <=> IsValid(a, v, linked) /\ IsValid(b, v, linked)
<1> DEFINE m == [allOf |-> <<a, b>>]
<1>1. m = Merge(<<a, b>>) /\ m \in Schemas
  BY DEF Merge
<1>2. IsValid(m, v, linked) <=> Satisfies(m, v, linked, LAMBDA s, x : IsValid(s, x, linked))
  BY <1>1, ValidityOfSchema
<1>3. DOMAIN m = {"allOf"} /\ m.allOf = <<a, b>> /\ DOMAIN <<a, b>> = {1, 2}
  OBVIOUS
<1>4. Satisfies(m, v, linked, LAMBDA s, x : IsValid(s, x, linked)) <=>
        \A i \in DOMAIN m.allOf : IsValid(m.allOf[i], v, linked)
  <2> HIDE DEF m
  <2> QED
    BY <1>3, LimitsAre DEF Satisfies, Has
<1>5. m.allOf[1] = a /\ m.allOf[2] = b
  OBVIOUS
<1> HIDE DEF m
<1>6. QED
  BY <1>1, <1>2, <1>3, <1>4, <1>5

\* A schema of one property.
LEMMA OnlyIsValid ==
  ASSUME NEW column, NEW s, Only(column, s) \in Schemas,
         NEW v \in Values, v.type = "object", NEW linked \in Linkings
  PROVE  IsValid(Only(column, s), v, linked) <=>
           (Property(v, column) # Missing => IsValid(s, Property(v, column), linked))
<1> DEFINE o == Only(column, s)
<1>1. DOMAIN o = {"type", "properties"} /\ o.type = {"object"}
      /\ DOMAIN o.properties = {column} /\ o.properties[column] = s
  BY DEF Only
<1>2. IsValid(o, v, linked) <=> Satisfies(o, v, linked, LAMBDA t, x : IsValid(t, x, linked))
  BY ValidityOfSchema
<1> HIDE DEF o
<1>3. Satisfies(o, v, linked, LAMBDA t, x : IsValid(t, x, linked)) <=>
        /\ \E t \in o.type : IsOfType(v, t)
        /\ \A name \in DOMAIN o.properties :
             Property(v, name) # Missing => IsValid(o.properties[name], Property(v, name), linked)
  BY <1>1, LimitsAre DEF Satisfies, Has
<1>4. \E t \in o.type : IsOfType(v, t)
  BY <1>1 DEF IsOfType
<1>5. QED
  BY <1>1, <1>2, <1>3, <1>4 DEF o

LEMMA ValuesWithin ==
  ASSUME NEW v \in Values
  PROVE  /\ v.type = "array" => Elements(v) \subseteq Values
         /\ v.type = "array" => \A i \in DOMAIN v.elements : v.elements[i] \in Values
         /\ \A name : Property(v, name) # Missing => Property(v, name) \in Values
BY ContractsAssumption DEF Elements, Property

\* Schemas with the same keywords say the same if those within them do.
LEMMA SameKeywords ==
  ASSUME NEW a \in Schemas, NEW b \in Schemas, NEW k \in Linkings, NEW l \in Linkings,
         DOMAIN a = DOMAIN b,
         \A key \in DOMAIN a \ (SchemaKeywords \cup SchemasKeywords \cup {"if", "then", "else", "links"}) :
           a[key] = b[key],
         \A key \in (SchemaKeywords \cup {"if", "then", "else"}) \cap DOMAIN a, x \in Values :
           IsValid(a[key], x, k) <=> IsValid(b[key], x, l),
         \A key \in SchemasKeywords \cap DOMAIN a :
           /\ DOMAIN a[key] = DOMAIN b[key]
           /\ \A i \in DOMAIN a[key], x \in Values : IsValid(a[key][i], x, k) <=> IsValid(b[key][i], x, l),
         Has(a, "links") =>
           ((\A t \in DOMAIN a.links : \E c \in k[t] : IsValid(a.links[t], c, k)) <=>
            (\A t \in DOMAIN b.links : \E c \in l[t] : IsValid(b.links[t], c, l))),
         NEW v \in Values
  PROVE  IsValid(a, v, k) <=> IsValid(b, v, l)
<1>1. IsValid(a, v, k) <=> Satisfies(a, v, k, LAMBDA s, x : IsValid(s, x, k))
  BY ValidityOfSchema
<1>2. IsValid(b, v, l) <=> Satisfies(b, v, l, LAMBDA s, x : IsValid(s, x, l))
  BY ValidityOfSchema
<1>3. \A key : Has(a, key) <=> Has(b, key)
  BY DEF Has
<1>4. \A key \in {"boolean", "type", "const", "enum", "pattern", "required"} \cup Limits :
        Has(a, key) => a[key] = b[key]
  BY LimitsAre DEF Has, SchemaKeywords, SchemasKeywords
<1>5. Has(a, "properties") =>
        /\ DOMAIN a.properties = DOMAIN b.properties
        /\ \A name \in DOMAIN a.properties, x \in Values :
             IsValid(a.properties[name], x, k) <=> IsValid(b.properties[name], x, l)
  BY DEF Has, SchemasKeywords
<1>6. Has(a, "tuple") =>
        /\ DOMAIN a.tuple = DOMAIN b.tuple
        /\ \A i \in DOMAIN a.tuple, x \in Values : IsValid(a.tuple[i], x, k) <=> IsValid(b.tuple[i], x, l)
  BY DEF Has, SchemasKeywords
<1>7. Has(a, "allOf") =>
        /\ DOMAIN a.allOf = DOMAIN b.allOf
        /\ \A i \in DOMAIN a.allOf, x \in Values : IsValid(a.allOf[i], x, k) <=> IsValid(b.allOf[i], x, l)
  BY DEF Has, SchemasKeywords
<1>8. Has(a, "anyOf") =>
        /\ DOMAIN a.anyOf = DOMAIN b.anyOf
        /\ \A i \in DOMAIN a.anyOf, x \in Values : IsValid(a.anyOf[i], x, k) <=> IsValid(b.anyOf[i], x, l)
  BY DEF Has, SchemasKeywords
<1>9. \A x \in Values : /\ Has(a, "items") => (IsValid(a.items, x, k) <=> IsValid(b.items, x, l))
                        /\ Has(a, "contains") => (IsValid(a.contains, x, k) <=> IsValid(b.contains, x, l))
                        /\ Has(a, "not") => (IsValid(a.not, x, k) <=> IsValid(b.not, x, l))
  BY DEF Has, SchemaKeywords
<1>10. Has(a, "if") => /\ IsValid(a.if, v, k) <=> IsValid(b.if, v, l)
                       /\ IsValid(a.then, v, k) <=> IsValid(b.then, v, l)
                       /\ IsValid(a.else, v, k) <=> IsValid(b.else, v, l)
  BY NestingAssumption DEF Has
<1>11. \A name : Property(v, name) # Missing => Property(v, name) \in Values
  BY ValuesWithin
<1>12. v.type = "array" => /\ Elements(v) \subseteq Values
                           /\ \A i \in DOMAIN v.elements : v.elements[i] \in Values
  BY ValuesWithin
<1>13. /\ (Has(a, "boolean") => a.boolean) <=> (Has(b, "boolean") => b.boolean)
       /\ (Has(a, "type") => \E t \in a.type : IsOfType(v, t))
          <=> (Has(b, "type") => \E t \in b.type : IsOfType(v, t))
       /\ (Has(a, "const") => v = a.const) <=> (Has(b, "const") => v = b.const)
       /\ (Has(a, "enum") => v \in a.enum) <=> (Has(b, "enum") => v \in b.enum)
       /\ (Has(a, "pattern") => (v.type = "string" => v.text \in a.pattern))
          <=> (Has(b, "pattern") => (v.type = "string" => v.text \in b.pattern))
       /\ (Has(a, "required") =>
             (v.type = "object" => \A name \in a.required : Property(v, name) # Missing))
          <=> (Has(b, "required") =>
                 (v.type = "object" => \A name \in b.required : Property(v, name) # Missing))
  BY <1>3, <1>4
<1>14. (\A key \in Limits : Has(a, key) => (v.type = LimitedType(key) => Within(key, Size(v), a[key])))
       <=> (\A key \in Limits : Has(b, key) => (v.type = LimitedType(key) => Within(key, Size(v), b[key])))
  BY <1>3, <1>4
<1>15. (Has(a, "properties") =>
          \A name \in DOMAIN a.properties :
            Property(v, name) # Missing => IsValid(a.properties[name], Property(v, name), k))
       <=> (Has(b, "properties") =>
              \A name \in DOMAIN b.properties :
                Property(v, name) # Missing => IsValid(b.properties[name], Property(v, name), l))
  BY <1>3, <1>5, <1>11
<1>16. (Has(a, "items") => (v.type = "array" => \A e \in Elements(v) : IsValid(a.items, e, k)))
       <=> (Has(b, "items") => (v.type = "array" => \A e \in Elements(v) : IsValid(b.items, e, l)))
  BY <1>3, <1>9, <1>12
<1>17. (Has(a, "tuple") =>
          (v.type = "array" => \A i \in DOMAIN v.elements \cap DOMAIN a.tuple :
                                 IsValid(a.tuple[i], v.elements[i], k)))
       <=> (Has(b, "tuple") =>
              (v.type = "array" => \A i \in DOMAIN v.elements \cap DOMAIN b.tuple :
                                     IsValid(b.tuple[i], v.elements[i], l)))
  BY <1>3, <1>6, <1>12
<1>18. (Has(a, "contains") => (v.type = "array" => \E e \in Elements(v) : IsValid(a.contains, e, k)))
       <=> (Has(b, "contains") => (v.type = "array" => \E e \in Elements(v) : IsValid(b.contains, e, l)))
  BY <1>3, <1>9, <1>12
<1>19. /\ (Has(a, "not") => ~IsValid(a.not, v, k)) <=> (Has(b, "not") => ~IsValid(b.not, v, l))
       /\ (Has(a, "allOf") => \A i \in DOMAIN a.allOf : IsValid(a.allOf[i], v, k))
          <=> (Has(b, "allOf") => \A i \in DOMAIN b.allOf : IsValid(b.allOf[i], v, l))
       /\ (Has(a, "anyOf") => \E i \in DOMAIN a.anyOf : IsValid(a.anyOf[i], v, k))
          <=> (Has(b, "anyOf") => \E i \in DOMAIN b.anyOf : IsValid(b.anyOf[i], v, l))
  BY <1>3, <1>7, <1>8, <1>9
<1>20. (Has(a, "if") => IsValid(IF IsValid(a.if, v, k) THEN a.then ELSE a.else, v, k))
       <=> (Has(b, "if") => IsValid(IF IsValid(b.if, v, l) THEN b.then ELSE b.else, v, l))
  BY <1>3, <1>10
<1>21. (Has(a, "links") => \A t \in DOMAIN a.links : \E c \in k[t] : IsValid(a.links[t], c, k))
       <=> (Has(b, "links") => \A t \in DOMAIN b.links : \E c \in l[t] : IsValid(b.links[t], c, l))
  BY <1>3
<1>22. QED
  BY <1>1, <1>2, <1>13, <1>14, <1>15, <1>16, <1>17, <1>18, <1>19, <1>20, <1>21 DEF Satisfies

\* A schema says the same whatever is linked, if it mentions no link.
LEMMA PlainStep ==
  ASSUME NEW schema \in PlainSchemas, NEW k \in Linkings, NEW l \in Linkings,
         \A s \in SchemasWithin(schema), x \in Values : IsValid(s, x, k) <=> IsValid(s, x, l),
         NEW v \in Values
  PROVE  IsValid(schema, v, k) <=> IsValid(schema, v, l)
<1>1. schema \in Schemas /\ ~Has(schema, "links")
  BY PlainAssumption
<1>2. \A key \in (SchemaKeywords \cup {"if", "then", "else"}) \cap DOMAIN schema :
        schema[key] \in SchemasWithin(schema)
  BY DEF SchemasWithin, Conditional, ConditionalKeywords, Unconditional
<1>3. \A key \in SchemasKeywords \cap DOMAIN schema : \A i \in DOMAIN schema[key] :
        schema[key][i] \in SchemasWithin(schema)
  BY DEF SchemasWithin, Unconditional
<1>4. QED
  BY <1>1, <1>2, <1>3, SameKeywords

LEMMA LeastNumber ==
  ASSUME NEW S \in SUBSET Nat, S # {}
  PROVE  \E m \in S : \A n \in S : m <= n
<1>1. IsWellFoundedOn(OpToRel(<, Nat), Nat)
  BY NatLessThanWellFounded
<1>2. PICK m \in S : \A n \in S : <<n, m>> \notin OpToRel(<, Nat)
  BY <1>1, WFMin
<1>3. ASSUME NEW n \in S, n < m PROVE FALSE
  <2>1. <<n, m>> \in Nat \X Nat /\ <<n, m>>[1] = n /\ <<n, m>>[2] = m
    OBVIOUS
  <2>2. <<n, m>> \in OpToRel(<, Nat)
    BY <1>3, <2>1 DEF OpToRel
  <2>3. QED
    BY <1>2, <2>2
<1>4. QED
  BY <1>3

LEMMA PlainIgnoresLinks ==
  ASSUME NEW schema \in PlainSchemas, NEW k \in Linkings, NEW l \in Linkings, NEW v \in Values
  PROVE  IsValid(schema, v, k) <=> IsValid(schema, v, l)
<1> DEFINE Same(s) == \A x \in Values : IsValid(s, x, k) <=> IsValid(s, x, l)
           Wrong == {s \in PlainSchemas : ~Same(s)}
<1>1. SUFFICES ASSUME Wrong # {} PROVE FALSE
  OBVIOUS
<1>2. PICK s \in Wrong : \A t \in Wrong : Nesting(s) <= Nesting(t)
  <2> DEFINE N == {Nesting(s) : s \in Wrong}
  <2>1. N \in SUBSET Nat /\ N # {}
    BY <1>1, PlainAssumption, NestingAssumption
  <2>2. PICK m \in N : \A n \in N : m <= n
    BY <2>1, LeastNumber
  <2>3. QED
    BY <2>2
<1>3. \A t \in SchemasWithin(s) : Same(t)
  <2>1. \A t \in SchemasWithin(s) : t \in PlainSchemas /\ Nesting(t) < Nesting(s) /\ Nesting(t) \in Nat /\ Nesting(s) \in Nat
    BY PlainAssumption, NestingAssumption
  <2>2. QED
    BY <1>2, <2>1
<1>4. Same(s)
  BY <1>3, PlainStep
<1>5. QED
  BY <1>4

LEMMA SchemasWithinSchemas ==
  ASSUME NEW schema \in Schemas
  PROVE  /\ Has(schema, "items") => schema.items \in Schemas
         /\ Has(schema, "allOf") => \A i \in DOMAIN schema.allOf : schema.allOf[i] \in Schemas
         /\ Has(schema, "anyOf") => \A i \in DOMAIN schema.anyOf : schema.anyOf[i] \in Schemas
         /\ Has(schema, "properties") =>
              \A name \in DOMAIN schema.properties : schema.properties[name] \in Schemas
         /\ Has(schema, "links") => \A t \in DOMAIN schema.links : schema.links[t] \in Schemas
<1>1. Unconditional(schema) \subseteq Schemas
  BY NestingAssumption DEF SchemasWithin
<1>2. \A k \in SchemaKeywords \cap DOMAIN schema : schema[k] \in Schemas
  BY <1>1 DEF Unconditional
<1>3. \A k \in (SchemasKeywords \cup {"links"}) \cap DOMAIN schema :
        \A i \in DOMAIN schema[k] : schema[k][i] \in Schemas
  BY <1>1 DEF Unconditional
<1>4. Has(schema, "items") => schema.items \in Schemas
  BY <1>2 DEF SchemaKeywords, Has
<1>5. /\ Has(schema, "allOf") => \A i \in DOMAIN schema.allOf : schema.allOf[i] \in Schemas
      /\ Has(schema, "anyOf") => \A i \in DOMAIN schema.anyOf : schema.anyOf[i] \in Schemas
  BY <1>3 DEF SchemasKeywords, Has
<1>6. /\ Has(schema, "properties") =>
              \A name \in DOMAIN schema.properties : schema.properties[name] \in Schemas
      /\ Has(schema, "links") => \A t \in DOMAIN schema.links : schema.links[t] \in Schemas
  BY <1>3 DEF SchemasKeywords, Has
<1>7. QED
  BY <1>4, <1>5, <1>6

\* A schema with one of the keywords that MarkerSchema uses.
LEMMA EnumIsValid ==
  ASSUME NEW texts, [enum |-> texts] \in Schemas, NEW v \in Values, NEW linked \in Linkings
  PROVE  IsValid([enum |-> texts], v, linked) <=> v \in texts
<1> DEFINE e == [enum |-> texts]
<1>1. DOMAIN e = {"enum"} /\ e.enum = texts
  OBVIOUS
<1>2. IsValid(e, v, linked) <=> Satisfies(e, v, linked, LAMBDA s, x : IsValid(s, x, linked))
  BY ValidityOfSchema
<1> HIDE DEF e
<1>3. Satisfies(e, v, linked, LAMBDA s, x : IsValid(s, x, linked)) <=> v \in e.enum
  BY <1>1, LimitsAre DEF Satisfies, Has
<1>4. QED
  BY <1>1, <1>2, <1>3 DEF e

LEMMA PatternIsValid ==
  ASSUME NEW texts, [pattern |-> texts] \in Schemas,
         NEW v \in Values, v.type = "string", NEW linked \in Linkings
  PROVE  IsValid([pattern |-> texts], v, linked) <=> v.text \in texts
<1> DEFINE e == [pattern |-> texts]
<1>1. DOMAIN e = {"pattern"} /\ e.pattern = texts
  OBVIOUS
<1>2. IsValid(e, v, linked) <=> Satisfies(e, v, linked, LAMBDA s, x : IsValid(s, x, linked))
  BY ValidityOfSchema
<1> HIDE DEF e
<1>3. Satisfies(e, v, linked, LAMBDA s, x : IsValid(s, x, linked)) <=> v.text \in e.pattern
  BY <1>1, LimitsAre DEF Satisfies, Has
<1>4. QED
  BY <1>1, <1>2, <1>3 DEF e

\* A marker of a contract that is, or has as a part, one of the markers.
LEMMA MarkerIsValid ==
  ASSUME NEW markers, MarkerSchema(markers) \in Schemas,
         NEW m \in DOMAIN MarkerParts, Text(m) \in Values, NEW linked \in Linkings
  PROVE  IsValid(MarkerSchema(markers), Text(m), linked) <=> (MarkerParts[m] \cup {m}) \cap markers # {}
<1> DEFINE s == MarkerSchema(markers)
           v == Text(m)
           enum == [enum |-> {Text(n) : n \in markers}]
           pattern == [pattern |-> {n \in DOMAIN MarkerParts : MarkerParts[n] \cap markers # {}}]
<1>1. /\ DOMAIN s = {"type", "anyOf"} /\ s.type = {"string"} /\ DOMAIN s.anyOf = {1, 2}
      /\ s.anyOf[1] = enum /\ s.anyOf[2] = pattern
  BY DEF MarkerSchema
<1>2. v.type = "string" /\ v.text = m /\ v \in Values
  BY DEF Text
<1>3. IsValid(s, v, linked) <=> Satisfies(s, v, linked, LAMBDA t, x : IsValid(t, x, linked))
  BY ValidityOfSchema
<1>4. enum \in Schemas /\ pattern \in Schemas
  <2>1. s \in Schemas /\ Has(s, "anyOf")
    BY <1>1 DEF Has
  <2>2. s.anyOf[1] \in Schemas /\ s.anyOf[2] \in Schemas
    BY <1>1, <2>1, SchemasWithinSchemas
  <2>3. QED
    BY <1>1, <2>2
<1>5. IsValid(enum, v, linked) <=> m \in markers
  <2>1. IsValid(enum, v, linked) <=> v \in {Text(n) : n \in markers}
    BY <1>2, <1>4, EnumIsValid
  <2>2. \A n \in markers : v = Text(n) => n = m
    BY <1>2 DEF Text
  <2>3. QED
    BY <2>1, <2>2
<1>6. IsValid(pattern, v, linked) <=> MarkerParts[m] \cap markers # {}
  <2>1. IsValid(pattern, v, linked) <=>
          v.text \in {n \in DOMAIN MarkerParts : MarkerParts[n] \cap markers # {}}
    BY <1>2, <1>4, PatternIsValid
  <2>2. QED
    BY <1>2, <2>1
<1> HIDE DEF s, v, enum, pattern
<1>7. Satisfies(s, v, linked, LAMBDA t, x : IsValid(t, x, linked)) <=>
        /\ \E t \in s.type : IsOfType(v, t)
        /\ \E i \in DOMAIN s.anyOf : IsValid(s.anyOf[i], v, linked)
  BY <1>1, LimitsAre DEF Satisfies, Has
<1>8. \E t \in s.type : IsOfType(v, t)
  BY <1>1, <1>2 DEF IsOfType
<1>9. IsValid(s, v, linked) <=> IsValid(enum, v, linked) \/ IsValid(pattern, v, linked)
  BY <1>1, <1>3, <1>7, <1>8
<1>10. IsValid(s, v, linked) <=> (MarkerParts[m] \cup {m}) \cap markers # {}
  BY <1>5, <1>6, <1>9
<1>11. QED
  BY <1>10 DEF s, v

\* The elements of an array are valid.
LEMMA ItemsAreValid ==
  ASSUME NEW s, [type |-> {"array"}, items |-> s] \in Schemas,
         NEW v \in Values, v.type = "array", NEW linked \in Linkings
  PROVE  IsValid([type |-> {"array"}, items |-> s], v, linked) <=>
           \A e \in Elements(v) : IsValid(s, e, linked)
<1> DEFINE a == [type |-> {"array"}, items |-> s]
<1>1. DOMAIN a = {"type", "items"} /\ a.type = {"array"} /\ a.items = s
  OBVIOUS
<1>2. IsValid(a, v, linked) <=> Satisfies(a, v, linked, LAMBDA t, x : IsValid(t, x, linked))
  BY ValidityOfSchema
<1> HIDE DEF a
<1>3. Satisfies(a, v, linked, LAMBDA t, x : IsValid(t, x, linked)) <=>
        /\ \E t \in a.type : IsOfType(v, t)
        /\ \A e \in Elements(v) : IsValid(a.items, e, linked)
  BY <1>1, LimitsAre DEF Satisfies, Has
<1>4. \E t \in a.type : IsOfType(v, t)
  BY <1>1 DEF IsOfType
<1>5. QED
  BY <1>1, <1>2, <1>3, <1>4 DEF a

\* Every marker is allowed (markers.ts:50-81).
LEMMA MarkersAreValid ==
  ASSUME NEW actor, MarkerBasedSchema(actor) \in Schemas, NEW c \in Contracts, NEW linked \in Linkings
  PROVE  IsValid(MarkerBasedSchema(actor), c, linked) <=>
           \/ actor.slug = "user-admin"
           \/ \A m \in Elements(Property(c, "markers")) :
                (MarkerParts[m.text] \cup {m.text}) \cap Markers(actor) # {}
<1> DEFINE ms == Property(c, "markers")
           item == MarkerSchema(Markers(actor))
           array == [type |-> {"array"}, items |-> item]
<1>1. CASE actor.slug = "user-admin"
  <2> DEFINE b == [boolean |-> TRUE]
  <2>1. DOMAIN b = {"boolean"} /\ b.boolean = TRUE /\ b = MarkerBasedSchema(actor)
    BY <1>1 DEF MarkerBasedSchema
  <2>2. c \in Values
    BY ContractsAssumption
  <2>3. IsValid(b, c, linked) <=> Satisfies(b, c, linked, LAMBDA t, x : IsValid(t, x, linked))
    BY <2>1, <2>2, ValidityOfSchema
  <2> HIDE DEF b
  <2>4. Satisfies(b, c, linked, LAMBDA t, x : IsValid(t, x, linked))
    BY <2>1, LimitsAre DEF Satisfies, Has
  <2>5. QED
    BY <1>1, <2>1, <2>3, <2>4
<1>2. CASE actor.slug # "user-admin"
  <2>1. /\ c \in Values /\ c.type = "object" /\ ms # Missing /\ ms.type = "array" /\ ms \in Values
        /\ Elements(ms) \subseteq {Text(m) : m \in DOMAIN MarkerParts}
        /\ Elements(ms) \subseteq Values
    BY ContractsAssumption, ValuesWithin
  <2>2. MarkerBasedSchema(actor) = Only("markers", array) /\ Only("markers", array) \in Schemas
    BY <1>2 DEF MarkerBasedSchema
  <2>3. array \in Schemas
    <3> DEFINE o == Only("markers", array)
    <3>1. Has(o, "properties") /\ "markers" \in DOMAIN o.properties /\ o.properties["markers"] = array
      BY DEF Only, Has
    <3>2. QED
      BY <2>2, <3>1, SchemasWithinSchemas
  <2>4. item \in Schemas
    <3>1. Has(array, "items") /\ array.items = item
      BY DEF Has
    <3>2. QED
      BY <2>3, <3>1, SchemasWithinSchemas
  <2>5. IsValid(MarkerBasedSchema(actor), c, linked) <=> IsValid(array, ms, linked)
    BY <2>1, <2>2, OnlyIsValid
  <2>6. IsValid(array, ms, linked) <=> \A e \in Elements(ms) : IsValid(item, e, linked)
    BY <2>1, <2>3, ItemsAreValid
  <2>7. ASSUME NEW e \in Elements(ms)
        PROVE  IsValid(item, e, linked) <=> (MarkerParts[e.text] \cup {e.text}) \cap Markers(actor) # {}
    <3>1. PICK m \in DOMAIN MarkerParts : e = Text(m)
      BY <2>1
    <3>2. e.text = m /\ Text(m) \in Values
      BY <2>1, <3>1 DEF Text
    <3>3. IsValid(item, Text(m), linked) <=> (MarkerParts[m] \cup {m}) \cap Markers(actor) # {}
      BY <2>4, <3>2, MarkerIsValid
    <3>4. QED
      BY <3>1, <3>2, <3>3
  <2>8. QED
    BY <1>2, <2>5, <2>6, <2>7
<1>3. QED
  BY <1>1, <1>2

\* Some role allows it, or there is none and nothing does (roles.ts:26-50).
LEMMA RolesAreValid ==
  ASSUME NEW actor \in Actors, RoleBasedSchema(actor) \in Schemas,
         NEW c \in Contracts, NEW linked \in Linkings
  PROVE  IsValid(RoleBasedSchema(actor), c, linked) <=>
           \E s \in RoleSlugs(actor) : IsValid(RoleSchemas[s], c, linked)
<1> DEFINE r == RoleBasedSchema(actor)
           nobody == Only("id", [const |-> Null])
           allowed == {RoleSchemas[s] : s \in RoleSlugs(actor)}
<1>1. /\ DOMAIN r = {"type", "anyOf"} /\ r.type = {"object"}
      /\ r.anyOf = IF RoleSlugs(actor) = {} THEN <<nobody>> ELSE SetToSeq(allowed)
  BY DEF RoleBasedSchema
<1>2. IsValid(r, c, linked) <=> Satisfies(r, c, linked, LAMBDA t, x : IsValid(t, x, linked))
  BY ContractsAssumption, ValidityOfSchema
<1> HIDE DEF r
<1>3. Satisfies(r, c, linked, LAMBDA t, x : IsValid(t, x, linked)) <=>
        /\ \E t \in r.type : IsOfType(c, t)
        /\ \E i \in DOMAIN r.anyOf : IsValid(r.anyOf[i], c, linked)
  BY <1>1, LimitsAre DEF Satisfies, Has
<1>4. \E t \in r.type : IsOfType(c, t)
  BY <1>1, ContractsAssumption DEF IsOfType
<1>5. IsValid(r, c, linked) <=> \E i \in DOMAIN r.anyOf : IsValid(r.anyOf[i], c, linked)
  BY <1>2, <1>3, <1>4
<1>6. CASE RoleSlugs(actor) = {}
  <2>1. r.anyOf = <<nobody>> /\ DOMAIN r.anyOf = {1} /\ r.anyOf[1] = nobody
    BY <1>1, <1>6
  <2>2. nobody \in Schemas
    <3>1. r \in Schemas /\ Has(r, "anyOf")
      BY <1>1 DEF r, Has
    <3>2. r.anyOf[1] \in Schemas
      BY <2>1, <3>1, SchemasWithinSchemas
    <3>3. QED
      BY <2>1, <3>2
  <2>3. [const |-> Null] \in Schemas
    <3>1. Has(nobody, "properties") /\ "id" \in DOMAIN nobody.properties
          /\ nobody.properties["id"] = [const |-> Null]
      BY DEF Only, Has
    <3>2. QED
      BY <2>2, <3>1, SchemasWithinSchemas
  <2>4. c \in Values /\ c.type = "object" /\ Property(c, "id") \in Values
        /\ Property(c, "id") # Missing /\ Property(c, "id") # Null
    BY ContractsAssumption, ValuesWithin
  <2>5. IsValid(nobody, c, linked) <=> IsValid([const |-> Null], Property(c, "id"), linked)
    BY <2>2, <2>4, OnlyIsValid
  <2>6. ~IsValid([const |-> Null], Property(c, "id"), linked)
    <3> DEFINE n == [const |-> Null]
               v == Property(c, "id")
    <3>1. DOMAIN n = {"const"} /\ n.const = Null
      OBVIOUS
    <3>2. IsValid(n, v, linked) <=> Satisfies(n, v, linked, LAMBDA t, x : IsValid(t, x, linked))
      BY <2>3, <2>4, ValidityOfSchema
    <3> HIDE DEF n
    <3>3. Satisfies(n, v, linked, LAMBDA t, x : IsValid(t, x, linked)) => v = n.const
      BY <3>1, LimitsAre DEF Satisfies, Has
    <3>4. QED
      BY <2>4, <3>1, <3>2, <3>3 DEF n
  <2>7. QED
    BY <1>5, <1>6, <2>1, <2>5, <2>6 DEF r
<1>7. CASE RoleSlugs(actor) # {}
  <2>1. IsFiniteSet(allowed)
    <3>1. IsFiniteSet(actor.roles)
      BY ActorsAssumption
    <3>2. IsFiniteSet(actor.roles \cup {actor.slug})
      BY <3>1, FS_AddElement
    <3>3. IsFiniteSet(RoleSlugs(actor))
      BY <3>2, FS_Intersection DEF RoleSlugs
    <3>4. [s \in RoleSlugs(actor) |-> RoleSchemas[s]] \in Surjection(RoleSlugs(actor), allowed)
      BY DEF Surjection
    <3>5. QED
      BY <3>3, <3>4, FS_Surjection
  <2>2. {SetToSeq(allowed)[i] : i \in DOMAIN SetToSeq(allowed)} = allowed
    BY <2>1, SequenceOfSet
  <2>3. {r.anyOf[i] : i \in DOMAIN r.anyOf} = allowed
    BY <1>1, <1>7, <2>2
  <2> HIDE DEF allowed
  <2>4. (\E i \in DOMAIN r.anyOf : IsValid(r.anyOf[i], c, linked)) <=>
          \E s \in allowed : IsValid(s, c, linked)
    BY <2>3
  <2>5. QED
    BY <1>5, <2>4 DEF r, allowed
<1>8. QED
  BY <1>6, <1>7

\* Who is authorized is who may read, whatever is linked (index.ts:24-50).
LEMMA AuthorizedMayRead ==
  ASSUME NEW actor \in Actors, AuthorizationSchema(actor) \in Schemas,
         NEW c \in Contracts, NEW linked \in Linkings
  PROVE  IsValid(AuthorizationSchema(actor), c, linked) <=> MayRead(actor, c)
<1> DEFINE role == RoleBasedSchema(actor)
           marker == MarkerBasedSchema(actor)
           both == Merge(<<role, marker>>)
<1>1. c \in Values /\ actor.scope \in PlainSchemas /\ actor.scope \in Schemas
      /\ (\A s \in RoleSlugs(actor) : RoleSchemas[s] \in PlainSchemas) /\ NoLinks \in Linkings
  BY ContractsAssumption, ActorsAssumption, PlainAssumption DEF RoleSlugs
<1>2. \A a, b : Merge(<<a, b>>) \in Schemas => a \in Schemas /\ b \in Schemas
  <2>1. SUFFICES ASSUME NEW a, NEW b, Merge(<<a, b>>) \in Schemas PROVE a \in Schemas /\ b \in Schemas
    OBVIOUS
  <2>2. LET m == Merge(<<a, b>>) IN
        Has(m, "allOf") /\ DOMAIN m.allOf = {1, 2} /\ m.allOf[1] = a /\ m.allOf[2] = b
    BY DEF Merge, Has
  <2>3. QED
    BY <2>1, <2>2, SchemasWithinSchemas
<1>3. both \in Schemas /\ role \in Schemas /\ marker \in Schemas
  <2>1. CASE DOMAIN actor.scope = {}
    <3>1. AuthorizationSchema(actor) = both
      BY <2>1 DEF AuthorizationSchema
    <3>2. QED
      BY <3>1, <1>2
  <2>2. CASE DOMAIN actor.scope # {}
    <3>1. AuthorizationSchema(actor) = Merge(<<both, actor.scope>>)
      BY <2>2 DEF AuthorizationSchema
    <3>2. both \in Schemas
      BY <3>1, <1>2
    <3>3. QED
      BY <3>2, <1>2
  <2>3. QED
    BY <2>1, <2>2
<1>4. IsValid(both, c, linked) <=>
        /\ \E s \in RoleSlugs(actor) : IsValid(RoleSchemas[s], c, NoLinks)
        /\ \/ actor.slug = "user-admin"
           \/ \A m \in Elements(Property(c, "markers")) :
                (MarkerParts[m.text] \cup {m.text}) \cap Markers(actor) # {}
  <2>1. IsValid(both, c, linked) <=> IsValid(role, c, linked) /\ IsValid(marker, c, linked)
    BY <1>1, <1>3, MergeIsConjunction
  <2>2. IsValid(role, c, linked) <=> \E s \in RoleSlugs(actor) : IsValid(RoleSchemas[s], c, linked)
    BY <1>3, RolesAreValid
  <2>3. \A s \in RoleSlugs(actor) : IsValid(RoleSchemas[s], c, linked) <=> IsValid(RoleSchemas[s], c, NoLinks)
    BY <1>1, PlainIgnoresLinks
  <2>4. IsValid(marker, c, linked) <=>
          \/ actor.slug = "user-admin"
          \/ \A m \in Elements(Property(c, "markers")) :
               (MarkerParts[m.text] \cup {m.text}) \cap Markers(actor) # {}
    BY <1>3, MarkersAreValid
  <2>5. QED
    BY <2>1, <2>2, <2>3, <2>4
<1>5. IsValid(actor.scope, c, linked) <=> IsValid(actor.scope, c, NoLinks)
  BY <1>1, PlainIgnoresLinks
<1>6. IsValid(AuthorizationSchema(actor), c, linked) <=>
        IsValid(both, c, linked) /\ IsValid(actor.scope, c, linked)
  <2>1. CASE DOMAIN actor.scope = {}
    <3>1. AuthorizationSchema(actor) = both
      BY <2>1 DEF AuthorizationSchema
    <3>2. IsValid(actor.scope, c, linked)
      <4> DEFINE e == actor.scope
      <4>1. IsValid(e, c, linked) <=> Satisfies(e, c, linked, LAMBDA t, x : IsValid(t, x, linked))
        BY <1>1, ValidityOfSchema
      <4> HIDE DEF e
      <4>2. Satisfies(e, c, linked, LAMBDA t, x : IsValid(t, x, linked))
        <5>1. DOMAIN e = {}
          BY <2>1 DEF e
        <5>2. QED
          BY <5>1 DEF Satisfies, Has
      <4>3. QED
        BY <4>1, <4>2 DEF e
    <3>3. QED
      BY <3>1, <3>2
  <2>2. CASE DOMAIN actor.scope # {}
    <3>1. AuthorizationSchema(actor) = Merge(<<both, actor.scope>>)
      BY <2>2 DEF AuthorizationSchema
    <3> HIDE DEF both
    <3>2. QED
      BY <1>1, <3>1, MergeIsConjunction
  <2>3. QED
    BY <2>1, <2>2
<1>7. QED
  BY <1>4, <1>5, <1>6 DEF MayRead

\* The keywords of a schema whose links are authorized (utils.ts:8-55).
LEMMA AuthorizedKeywords ==
  ASSUME NEW actor \in Actors, NEW schema \in ActorSchemas
  PROVE  LET auth == AuthorizationSchema(actor)
             a == AuthorizeLinks(schema, auth)
         IN /\ auth \in Schemas /\ a \in Schemas /\ DOMAIN a = DOMAIN schema
            /\ Has(schema, "links") =>
                 /\ DOMAIN a.links = DOMAIN schema.links
                 /\ \A t \in DOMAIN schema.links :
                      a.links[t] = Merge(<<auth, AuthorizeLinks(schema.links[t], auth)>>)
            /\ \A k \in SchemasKeywords \cap DOMAIN schema :
                 /\ DOMAIN a[k] = DOMAIN schema[k]
                 /\ \A i \in DOMAIN schema[k] : a[k][i] = AuthorizeLinks(schema[k][i], auth)
            /\ \A k \in SchemaKeywords \cap DOMAIN schema : a[k] = AuthorizeLinks(schema[k], auth)
            /\ \A k \in DOMAIN schema \ (SchemaKeywords \cup SchemasKeywords \cup {"links"}) :
                 a[k] = schema[k]
<1> DEFINE auth == AuthorizationSchema(actor)
           a == AuthorizeLinks(schema, auth)
<1>1. a = AuthorizeKeywords(schema, auth, LAMBDA s : AuthorizeLinks(s, auth))
  BY LinksAssumption
<1>2. auth \in Schemas /\ a \in Schemas
  <2> DEFINE q == AuthorizeQuery(schema, actor)
  <2>1. q \in Schemas /\ a \in Schemas
    BY ActorSchemasAssumption
  <2>2. Has(q, "allOf") /\ DOMAIN q.allOf = {1, 2} /\ q.allOf[1] = auth
    BY DEF AuthorizeQuery, Merge, Has
  <2> HIDE DEF q
  <2>3. q.allOf[1] \in Schemas
    BY <2>1, <2>2, SchemasWithinSchemas
  <2>4. QED
    BY <2>1, <2>2, <2>3
<1> HIDE DEF a, auth
<1>3. DOMAIN a = DOMAIN schema
  BY <1>1 DEF AuthorizeKeywords
<1>4. ASSUME Has(schema, "links")
      PROVE  a.links = [t \in DOMAIN schema.links |-> Merge(<<auth, AuthorizeLinks(schema.links[t], auth)>>)]
  <2>1. "links" \in DOMAIN schema
    BY <1>4 DEF Has
  <2> DEFINE b == [t \in DOMAIN schema.links |-> Merge(<<auth, AuthorizeLinks(schema.links[t], auth)>>)]
  <2>2. a["links"] = CASE "links" = "links" -> b
                       [] "links" \in SchemasKeywords ->
                            [i \in DOMAIN schema["links"] |-> AuthorizeLinks(schema["links"][i], auth)]
                       [] "links" \in SchemaKeywords -> AuthorizeLinks(schema["links"], auth)
                       [] OTHER -> schema["links"]
    BY <1>1, <2>1 DEF AuthorizeKeywords
  <2> HIDE DEF b
  <2>3. a["links"] = b
    BY <2>2 DEF SchemaKeywords, SchemasKeywords
  <2>4. QED
    BY <2>3 DEF b
<1>5. ASSUME NEW k \in SchemasKeywords \cap DOMAIN schema
      PROVE  a[k] = [i \in DOMAIN schema[k] |-> AuthorizeLinks(schema[k][i], auth)]
  <2> DEFINE b == [i \in DOMAIN schema[k] |-> AuthorizeLinks(schema[k][i], auth)]
             l == [t \in DOMAIN schema.links |-> Merge(<<auth, AuthorizeLinks(schema.links[t], auth)>>)]
  <2>1. a[k] = CASE k = "links" -> l
                 [] k \in SchemasKeywords -> b
                 [] k \in SchemaKeywords -> AuthorizeLinks(schema[k], auth)
                 [] OTHER -> schema[k]
    BY <1>1 DEF AuthorizeKeywords
  <2> HIDE DEF b, l
  <2>2. k # "links" /\ k \notin SchemaKeywords
    BY DEF SchemaKeywords, SchemasKeywords
  <2>3. a[k] = b
    BY <2>1, <2>2
  <2>4. QED
    BY <2>3 DEF b
<1>6. ASSUME NEW k \in SchemaKeywords \cap DOMAIN schema
      PROVE  a[k] = AuthorizeLinks(schema[k], auth)
  BY <1>1 DEF AuthorizeKeywords, SchemasKeywords, SchemaKeywords
<1>7. ASSUME NEW k \in DOMAIN schema \ (SchemaKeywords \cup SchemasKeywords \cup {"links"})
      PROVE  a[k] = schema[k]
  BY <1>1 DEF AuthorizeKeywords
<1>8. QED
  BY <1>2, <1>3, <1>4, <1>5, <1>6, <1>7 DEF a, auth

\* The keywords of a schema whose templates are evaluated (utils.ts:57-84).
LEMMA EvaluatedKeywords ==
  ASSUME NEW actor \in Actors, NEW schema \in Schemas, ~Has(schema, "eval")
  PROVE  LET e == EvaluateTemplates(schema, actor)
         IN /\ DOMAIN e = DOMAIN schema
            /\ \A k \in (SchemasKeywords \cup {"links"}) \cap DOMAIN schema :
                 /\ DOMAIN e[k] = DOMAIN schema[k]
                 /\ \A i \in DOMAIN schema[k] : e[k][i] = EvaluateTemplates(schema[k][i], actor)
            /\ \A k \in (SchemaKeywords \cup ConditionalKeywords) \cap DOMAIN schema :
                 e[k] = EvaluateTemplates(schema[k], actor)
            /\ \A k \in DOMAIN schema \ (SchemaKeywords \cup SchemasKeywords \cup ConditionalKeywords
                                         \cup {"links"}) :
                 e[k] = schema[k]
<1> DEFINE e == EvaluateTemplates(schema, actor)
<1>1. e = EvaluateKeywords(schema, actor, LAMBDA s : EvaluateTemplates(s, actor))
  BY TemplatesAssumption
<1>2. e = [k \in DOMAIN schema |->
             CASE k \in SchemasKeywords \cup {"links"} ->
                    [i \in DOMAIN schema[k] |-> EvaluateTemplates(schema[k][i], actor)]
               [] k \in SchemaKeywords \cup ConditionalKeywords -> EvaluateTemplates(schema[k], actor)
               [] OTHER -> schema[k]]
  BY <1>1 DEF EvaluateKeywords
<1> HIDE DEF e
<1>3. DOMAIN e = DOMAIN schema
  BY <1>2
<1>4. ASSUME NEW k \in (SchemasKeywords \cup {"links"}) \cap DOMAIN schema
      PROVE  e[k] = [i \in DOMAIN schema[k] |-> EvaluateTemplates(schema[k][i], actor)]
  <2> DEFINE b == [i \in DOMAIN schema[k] |-> EvaluateTemplates(schema[k][i], actor)]
  <2>1. e[k] = CASE k \in SchemasKeywords \cup {"links"} -> b
                 [] k \in SchemaKeywords \cup ConditionalKeywords -> EvaluateTemplates(schema[k], actor)
                 [] OTHER -> schema[k]
    BY <1>2
  <2> HIDE DEF b
  <2>2. k \notin SchemaKeywords \cup ConditionalKeywords
    BY DEF SchemaKeywords, SchemasKeywords, ConditionalKeywords
  <2>3. e[k] = b
    BY <2>1, <2>2
  <2>4. QED
    BY <2>3 DEF b
<1>5. ASSUME NEW k \in (SchemaKeywords \cup ConditionalKeywords) \cap DOMAIN schema
      PROVE  e[k] = EvaluateTemplates(schema[k], actor)
  BY <1>2 DEF SchemaKeywords, SchemasKeywords, ConditionalKeywords
<1>6. ASSUME NEW k \in DOMAIN schema \ (SchemaKeywords \cup SchemasKeywords \cup ConditionalKeywords
                                        \cup {"links"})
      PROVE  e[k] = schema[k]
  BY <1>2
<1>7. QED
  BY <1>3, <1>4, <1>5, <1>6 DEF e

\* The templates of a conjunction of two schemas are those of both.
LEMMA EvaluatedMerge ==
  ASSUME NEW actor \in Actors, NEW a, NEW b, Merge(<<a, b>>) \in Schemas,
         EvaluateTemplates(Merge(<<a, b>>), actor) \in Schemas, NEW v \in Values, NEW linked \in Linkings
  PROVE  IsValid(EvaluateTemplates(Merge(<<a, b>>), actor), v, linked) <=>
           IsValid(EvaluateTemplates(a, actor), v, linked) /\ IsValid(EvaluateTemplates(b, actor), v, linked)
<1> DEFINE m == Merge(<<a, b>>)
           e == EvaluateTemplates(m, actor)
<1>1. DOMAIN m = {"allOf"} /\ m.allOf = <<a, b>> /\ DOMAIN <<a, b>> = {1, 2} /\ ~Has(m, "eval")
  BY DEF Merge, Has
<1>2. m.allOf[1] = a /\ m.allOf[2] = b
  BY <1>1
<1> HIDE DEF m
<1>3. "allOf" \in SchemasKeywords
  BY DEF SchemasKeywords
<1>4. /\ DOMAIN e = {"allOf"} /\ DOMAIN e.allOf = {1, 2}
      /\ e.allOf[1] = EvaluateTemplates(a, actor) /\ e.allOf[2] = EvaluateTemplates(b, actor)
  <2>1. m \in Schemas
    BY DEF m
  <2>2. /\ DOMAIN e = DOMAIN m
        /\ \A k \in (SchemasKeywords \cup {"links"}) \cap DOMAIN m :
             /\ DOMAIN e[k] = DOMAIN m[k]
             /\ \A i \in DOMAIN m[k] : e[k][i] = EvaluateTemplates(m[k][i], actor)
    BY <1>1, <2>1, EvaluatedKeywords
  <2> HIDE DEF e
  <2>3. QED
    BY <1>1, <1>2, <1>3, <2>2
<1>5. IsValid(e, v, linked) <=> Satisfies(e, v, linked, LAMBDA s, x : IsValid(s, x, linked))
  BY ValidityOfSchema DEF m
<1> HIDE DEF e
<1>6. Satisfies(e, v, linked, LAMBDA s, x : IsValid(s, x, linked)) <=>
        \A i \in DOMAIN e.allOf : IsValid(e.allOf[i], v, linked)
  BY <1>4, LimitsAre DEF Satisfies, Has
<1>7. QED
  BY <1>4, <1>5, <1>6 DEF e, m

\* What an actor's schema becomes, step by step, is among the schemas.
LEMMA QueryParts ==
  ASSUME NEW actor \in Actors, NEW schema \in ActorSchemas
  PROVE  LET auth == AuthorizationSchema(actor)
             b == EvaluateTemplates(AuthorizeLinks(schema, auth), actor)
         IN /\ schema \in Schemas /\ EvaluateTemplates(schema, actor) \in Schemas
            /\ auth \in Schemas /\ AuthorizeLinks(schema, auth) \in Schemas /\ b \in Schemas
            /\ AuthorizeQuery(schema, actor) = Merge(<<auth, b>>) /\ Merge(<<auth, b>>) \in Schemas
<1> DEFINE auth == AuthorizationSchema(actor)
           b == EvaluateTemplates(AuthorizeLinks(schema, auth), actor)
           q == AuthorizeQuery(schema, actor)
<1>1. q = Merge(<<auth, b>>) /\ q \in Schemas
  BY ActorSchemasAssumption DEF AuthorizeQuery
<1>2. Has(q, "allOf") /\ DOMAIN q.allOf = {1, 2} /\ q.allOf[1] = auth /\ q.allOf[2] = b
  <2> HIDE DEF b, auth, q
  <2> QED
    BY <1>1 DEF Merge, Has
<1> HIDE DEF q, b, auth
<1>3. q.allOf[1] \in Schemas /\ q.allOf[2] \in Schemas
  BY <1>1, <1>2, SchemasWithinSchemas
<1>4. auth \in Schemas /\ b \in Schemas
  BY <1>2, <1>3
<1>5. /\ schema \in Schemas /\ EvaluateTemplates(schema, actor) \in Schemas
      /\ AuthorizeLinks(schema, auth) \in Schemas
  BY ActorSchemasAssumption DEF auth
<1>6. QED
  BY <1>1, <1>4, <1>5 DEF q, b, auth

\* A template says the same, authorized or not.
LEMMA AuthorizedTemplate ==
  ASSUME NEW actor \in Actors, NEW schema \in ReachedSchemas, Has(schema, "eval"),
         NEW linked \in Linkings, NEW v \in Values
  PROVE  IsValid(EvaluateTemplates(AuthorizeLinks(schema, AuthorizationSchema(actor)), actor), v, linked)
           <=> IsValid(EvaluateTemplates(schema, actor), v, Readable(actor, linked))
<1> DEFINE a == AuthorizeLinks(schema, AuthorizationSchema(actor))
           t == schema.eval[actor.slug]
<1>1. schema \in ActorSchemas /\ schema \in Schemas /\ a \in Schemas
  BY ReachedAssumption, QueryParts
<1>2. t \in PlainSchemas
  <2>1. actor.slug \in DOMAIN schema.eval
    BY <1>1, ActorSchemasAssumption
  <2>2. t \in Templates(schema)
    BY <2>1 DEF Templates
  <2>3. QED
    BY <2>2, ReachedAssumption
<1>3. Has(a, "eval") /\ a.eval = schema.eval
  <2>1. /\ DOMAIN a = DOMAIN schema
        /\ \A k \in DOMAIN schema \ (SchemaKeywords \cup SchemasKeywords \cup {"links"}) : a[k] = schema[k]
    BY <1>1, AuthorizedKeywords
  <2> HIDE DEF a
  <2>2. "eval" \in DOMAIN schema \ (SchemaKeywords \cup SchemasKeywords \cup {"links"})
    BY DEF Has, SchemaKeywords, SchemasKeywords
  <2>3. QED
    BY <2>1, <2>2 DEF Has
<1>4. EvaluateTemplates(schema, actor) = t
  <2>1. EvaluateTemplates(schema, actor) =
          EvaluateKeywords(schema, actor, LAMBDA s : EvaluateTemplates(s, actor))
    BY <1>1, TemplatesAssumption
  <2>2. QED
    BY <2>1 DEF EvaluateKeywords
<1>5. EvaluateTemplates(a, actor) = t
  <2> HIDE DEF a
  <2>1. EvaluateTemplates(a, actor) = EvaluateKeywords(a, actor, LAMBDA s : EvaluateTemplates(s, actor))
    BY <1>1, TemplatesAssumption
  <2>2. QED
    BY <1>3, <2>1 DEF EvaluateKeywords
<1>6. Readable(actor, linked) \in Linkings
  BY ContractsAssumption
<1> HIDE DEF a, t
<1>7. QED
  BY <1>2, <1>4, <1>5, <1>6, PlainIgnoresLinks DEF a

LEMMA AuthorizedStep ==
  ASSUME NEW actor \in Actors, NEW schema \in ReachedSchemas, ~Has(schema, "eval"), NEW linked \in Linkings,
         \A s \in Unconditional(schema), x \in Values :
           IsValid(EvaluateTemplates(AuthorizeLinks(s, AuthorizationSchema(actor)), actor), x, linked)
             <=> IsValid(EvaluateTemplates(s, actor), x, Readable(actor, linked)),
         NEW v \in Values
  PROVE  IsValid(EvaluateTemplates(AuthorizeLinks(schema, AuthorizationSchema(actor)), actor), v, linked)
           <=> IsValid(EvaluateTemplates(schema, actor), v, Readable(actor, linked))
<1> DEFINE auth == AuthorizationSchema(actor)
           a == AuthorizeLinks(schema, auth)
           b == EvaluateTemplates(a, actor)
           e == EvaluateTemplates(schema, actor)
           read == Readable(actor, linked)
<1>1. /\ schema \in ActorSchemas /\ schema \in Schemas /\ read \in Linkings
      /\ Conditional(schema) \subseteq PlainSchemas
      /\ Has(schema, "links") => DOMAIN schema.links \subseteq LinkNames
      /\ auth \in Schemas /\ a \in Schemas /\ b \in Schemas /\ e \in Schemas
  BY ReachedAssumption, QueryParts, ContractsAssumption
<1>2. /\ DOMAIN a = DOMAIN schema
      /\ Has(schema, "links") =>
           /\ DOMAIN a.links = DOMAIN schema.links
           /\ \A t \in DOMAIN schema.links :
                a.links[t] = Merge(<<auth, AuthorizeLinks(schema.links[t], auth)>>)
      /\ \A k \in SchemasKeywords \cap DOMAIN schema :
           /\ DOMAIN a[k] = DOMAIN schema[k]
           /\ \A i \in DOMAIN schema[k] : a[k][i] = AuthorizeLinks(schema[k][i], auth)
      /\ \A k \in SchemaKeywords \cap DOMAIN schema : a[k] = AuthorizeLinks(schema[k], auth)
      /\ \A k \in DOMAIN schema \ (SchemaKeywords \cup SchemasKeywords \cup {"links"}) :
           a[k] = schema[k]
  BY <1>1, AuthorizedKeywords
<1>3. ~Has(a, "eval")
  BY <1>2 DEF Has
<1>4. /\ DOMAIN b = DOMAIN a
      /\ \A k \in (SchemasKeywords \cup {"links"}) \cap DOMAIN a :
           /\ DOMAIN b[k] = DOMAIN a[k]
           /\ \A i \in DOMAIN a[k] : b[k][i] = EvaluateTemplates(a[k][i], actor)
      /\ \A k \in (SchemaKeywords \cup ConditionalKeywords) \cap DOMAIN a :
           b[k] = EvaluateTemplates(a[k], actor)
      /\ \A k \in DOMAIN a \ (SchemaKeywords \cup SchemasKeywords \cup ConditionalKeywords \cup {"links"}) :
           b[k] = a[k]
  <2> HIDE DEF a
  <2> QED
    BY <1>1, <1>3, EvaluatedKeywords
<1>5. /\ DOMAIN e = DOMAIN schema
      /\ \A k \in (SchemasKeywords \cup {"links"}) \cap DOMAIN schema :
           /\ DOMAIN e[k] = DOMAIN schema[k]
           /\ \A i \in DOMAIN schema[k] : e[k][i] = EvaluateTemplates(schema[k][i], actor)
      /\ \A k \in (SchemaKeywords \cup ConditionalKeywords) \cap DOMAIN schema :
           e[k] = EvaluateTemplates(schema[k], actor)
      /\ \A k \in DOMAIN schema \ (SchemaKeywords \cup SchemasKeywords \cup ConditionalKeywords \cup {"links"}) :
           e[k] = schema[k]
  BY <1>1, EvaluatedKeywords
<1>6. \A s \in Unconditional(schema), x \in Values :
        IsValid(EvaluateTemplates(AuthorizeLinks(s, auth), actor), x, linked)
          <=> IsValid(EvaluateTemplates(s, actor), x, read)
  OBVIOUS
<1>7. EvaluateTemplates(auth, actor) = auth
  BY ActorsAssumption
<1>8. \A c \in Contracts : IsValid(auth, c, linked) <=> MayRead(actor, c)
  BY <1>1, AuthorizedMayRead
<1>9. Has(schema, "links") => \A t \in DOMAIN schema.links :
        linked[t] \subseteq Contracts /\ read[t] = {c \in linked[t] : MayRead(actor, c)}
  BY <1>1, ContractsAssumption DEF Readable
<1> HIDE DEF auth, a, b, e, read
<1>10. DOMAIN b = DOMAIN e
  BY <1>2, <1>4, <1>5
<1>11. \A key \in DOMAIN b \ (SchemaKeywords \cup SchemasKeywords \cup {"if", "then", "else", "links"}) :
         b[key] = e[key]
  BY <1>2, <1>4, <1>5 DEF ConditionalKeywords
<1>12. ASSUME NEW key \in (SchemaKeywords \cup {"if", "then", "else"}) \cap DOMAIN b, NEW x \in Values
       PROVE  IsValid(b[key], x, linked) <=> IsValid(e[key], x, read)
  <2>1. CASE key \in SchemaKeywords
    <3>1. schema[key] \in Unconditional(schema)
      BY <1>2, <1>4, <2>1 DEF Unconditional
    <3>2. b[key] = EvaluateTemplates(AuthorizeLinks(schema[key], auth), actor)
          /\ e[key] = EvaluateTemplates(schema[key], actor)
      BY <1>2, <1>4, <1>5, <2>1
    <3>3. QED
      BY <1>6, <3>1, <3>2
  <2>2. CASE key \in {"if", "then", "else"}
    <3>1. schema[key] \in PlainSchemas
      BY <1>1, <1>2, <1>4, <2>2 DEF Conditional, ConditionalKeywords
    <3>2. a[key] = schema[key]
      BY <1>2, <1>4, <2>2 DEF SchemaKeywords, SchemasKeywords
    <3>3. b[key] = EvaluateTemplates(schema[key], actor) /\ e[key] = EvaluateTemplates(schema[key], actor)
      BY <1>2, <1>4, <1>5, <2>2, <3>2 DEF ConditionalKeywords
    <3>4. EvaluateTemplates(schema[key], actor) \in PlainSchemas
      BY <3>1, PlainAssumption
    <3>5. QED
      BY <1>1, <3>3, <3>4, PlainIgnoresLinks
  <2>3. QED
    BY <2>1, <2>2
<1>13. ASSUME NEW key \in SchemasKeywords \cap DOMAIN b
       PROVE  /\ DOMAIN b[key] = DOMAIN e[key]
              /\ \A i \in DOMAIN b[key], x \in Values :
                   IsValid(b[key][i], x, linked) <=> IsValid(e[key][i], x, read)
  <2>1. /\ DOMAIN b[key] = DOMAIN schema[key] /\ DOMAIN e[key] = DOMAIN schema[key]
        /\ \A i \in DOMAIN schema[key] :
             /\ b[key][i] = EvaluateTemplates(AuthorizeLinks(schema[key][i], auth), actor)
             /\ e[key][i] = EvaluateTemplates(schema[key][i], actor)
    BY <1>2, <1>4, <1>5
  <2>2. \A i \in DOMAIN schema[key] : schema[key][i] \in Unconditional(schema)
    BY <1>2, <1>4 DEF Unconditional
  <2>3. QED
    BY <1>6, <2>1, <2>2
<1>14. ASSUME Has(schema, "links"), NEW t \in DOMAIN schema.links
       PROVE  (\E c \in linked[t] : IsValid(b.links[t], c, linked))
                <=> (\E c \in read[t] : IsValid(e.links[t], c, read))
  <2> DEFINE u == schema.links[t]
             al == AuthorizeLinks(u, auth)
             m == Merge(<<auth, al>>)
  <2>1. u \in Unconditional(schema)
    BY <1>14 DEF Unconditional, Has
  <2>2. a.links[t] = m /\ DOMAIN a.links = DOMAIN schema.links /\ "links" \in DOMAIN a
    BY <1>2, <1>14 DEF Has
  <2>3. m \in Schemas
    <3>1. Has(a, "links") /\ t \in DOMAIN a.links
      BY <2>2, <1>14 DEF Has
    <3>2. a.links[t] \in Schemas
      BY <1>1, <3>1, SchemasWithinSchemas
    <3>3. QED
      BY <2>2, <3>2
  <2> HIDE DEF m
  <2>4. b.links[t] = EvaluateTemplates(m, actor) /\ t \in DOMAIN b.links /\ Has(b, "links")
    BY <1>4, <1>14, <2>2 DEF Has
  <2>5. EvaluateTemplates(m, actor) \in Schemas
    <3>1. b.links[t] \in Schemas
      BY <1>1, <2>4, SchemasWithinSchemas
    <3>2. QED
      BY <2>4, <3>1
  <2>6. e.links[t] = EvaluateTemplates(u, actor)
    BY <1>5, <1>14 DEF Has
  <2>7. ASSUME NEW c \in linked[t]
        PROVE  IsValid(b.links[t], c, linked) <=> MayRead(actor, c) /\ IsValid(e.links[t], c, read)
    <3>1. c \in Contracts /\ c \in Values
      BY <1>9, <1>14, ContractsAssumption
    <3>2. IsValid(EvaluateTemplates(m, actor), c, linked) <=>
            /\ IsValid(EvaluateTemplates(auth, actor), c, linked)
            /\ IsValid(EvaluateTemplates(al, actor), c, linked)
      <4> HIDE DEF al
      <4>1. Merge(<<auth, al>>) \in Schemas /\ EvaluateTemplates(Merge(<<auth, al>>), actor) \in Schemas
        BY <2>3, <2>5 DEF m
      <4>2. QED
        BY <3>1, <4>1, EvaluatedMerge DEF m
    <3>3. IsValid(EvaluateTemplates(al, actor), c, linked) <=> IsValid(EvaluateTemplates(u, actor), c, read)
      BY <1>6, <2>1, <3>1
    <3>4. QED
      BY <1>7, <1>8, <2>4, <2>6, <3>1, <3>2, <3>3
  <2>8. QED
    BY <1>9, <1>14, <2>7
<1>15. Has(b, "links") =>
         ((\A t \in DOMAIN b.links : \E c \in linked[t] : IsValid(b.links[t], c, linked)) <=>
          (\A t \in DOMAIN e.links : \E c \in read[t] : IsValid(e.links[t], c, read)))
  <2>1. SUFFICES ASSUME Has(b, "links") PROVE
          (\A t \in DOMAIN b.links : \E c \in linked[t] : IsValid(b.links[t], c, linked)) <=>
          (\A t \in DOMAIN e.links : \E c \in read[t] : IsValid(e.links[t], c, read))
    OBVIOUS
  <2>2. "links" \in DOMAIN schema /\ "links" \in DOMAIN a /\ Has(schema, "links")
    BY <2>1, <1>2, <1>4 DEF Has
  <2>3. DOMAIN b.links = DOMAIN schema.links /\ DOMAIN e.links = DOMAIN schema.links
    BY <2>2, <1>2, <1>4, <1>5
  <2>4. QED
    BY <1>14, <2>2, <2>3
<1>16. IsValid(b, v, linked) <=> IsValid(e, v, read)
  BY <1>1, <1>10, <1>11, <1>12, <1>13, <1>15, SameKeywords
<1>17. QED
  BY <1>16 DEF b, a, auth, e, read

LEMMA AuthorizedLinks ==
  ASSUME NEW actor \in Actors, NEW schema \in ReachedSchemas, NEW linked \in Linkings, NEW v \in Values
  PROVE  IsValid(EvaluateTemplates(AuthorizeLinks(schema, AuthorizationSchema(actor)), actor), v, linked)
           <=> IsValid(EvaluateTemplates(schema, actor), v, Readable(actor, linked))
<1> DEFINE Right(s) ==
             \A x \in Values :
               IsValid(EvaluateTemplates(AuthorizeLinks(s, AuthorizationSchema(actor)), actor), x, linked)
                 <=> IsValid(EvaluateTemplates(s, actor), x, Readable(actor, linked))
           Wrong == {s \in ReachedSchemas : ~Right(s)}
<1>1. SUFFICES ASSUME Wrong # {} PROVE FALSE
  OBVIOUS
<1>2. \A s \in ReachedSchemas : /\ Nesting(s) \in Nat
                                /\ \A t \in Unconditional(s) : t \in ReachedSchemas /\ Nesting(t) < Nesting(s)
  BY ReachedAssumption, ActorSchemasAssumption, NestingAssumption DEF SchemasWithin
<1>3. PICK s \in Wrong : \A t \in Wrong : Nesting(s) <= Nesting(t)
  <2> DEFINE N == {Nesting(s) : s \in Wrong}
  <2>1. N \in SUBSET Nat /\ N # {}
    BY <1>1, <1>2
  <2>2. PICK m \in N : \A n \in N : m <= n
    BY <2>1, LeastNumber
  <2>3. QED
    BY <2>2
<1>4. ASSUME NEW t \in Unconditional(s) PROVE Right(t)
  <2>1. t \in ReachedSchemas /\ Nesting(t) < Nesting(s) /\ Nesting(t) \in Nat /\ Nesting(s) \in Nat
    BY <1>2
  <2>2. t \notin Wrong
    BY <1>3, <2>1
  <2>3. QED
    BY <2>1, <2>2
<1>5. CASE Has(s, "eval")
  BY <1>5, AuthorizedTemplate
<1>6. CASE ~Has(s, "eval")
  <2>1. Right(s)
    BY <1>4, <1>6, AuthorizedStep
  <2>2. QED
    BY <2>1
<1>7. QED
  BY <1>5, <1>6

\* A contract that is valid for what an actor's query becomes is one that the actor may
\* read, whatever the query asks: the whole is merged with the authorization schema
\* (authorizeQuery, authorization/index.ts:77-85).
THEOREM OnlyReadable ==
  ASSUME NEW actor \in Actors, NEW schema \in ActorSchemas,
         NEW c \in Contracts, NEW linked \in Linkings,
         IsValid(AuthorizeQuery(schema, actor), c, linked)
  PROVE  MayRead(actor, c)
<1> DEFINE auth == AuthorizationSchema(actor)
           b == EvaluateTemplates(AuthorizeLinks(schema, auth), actor)
<1>1. c \in Values
  BY ContractsAssumption
<1>2. AuthorizeQuery(schema, actor) = Merge(<<auth, b>>) /\ Merge(<<auth, b>>) \in Schemas /\ auth \in Schemas
  BY QueryParts
<1>3. IsValid(Merge(<<auth, b>>), c, linked) <=> IsValid(auth, c, linked) /\ IsValid(b, c, linked)
  BY <1>1, <1>2, MergeIsConjunction
<1>4. IsValid(auth, c, linked) <=> MayRead(actor, c)
  BY <1>2, AuthorizedMayRead
<1>5. QED
  BY <1>2, <1>3, <1>4

\* Of a query all whose links the authorization reaches: what it becomes is valid for a
\* contract exactly if the actor may read the contract, and the query, its templates
\* evaluated, is valid for it with those linked contracts alone that the actor may read.
\* That is whatever the links are nested in, other than if, then, else and templates:
\* allOf, anyOf, not, properties, items and contains, and links (authorizeQuery,
\* authorization/index.ts:63-88).
THEOREM AuthorizedQuery ==
  ASSUME NEW actor \in Actors, NEW schema \in ReachedSchemas,
         NEW c \in Contracts, NEW linked \in Linkings
  PROVE  IsValid(AuthorizeQuery(schema, actor), c, linked) <=>
           /\ MayRead(actor, c)
           /\ IsValid(EvaluateTemplates(schema, actor), c, Readable(actor, linked))
<1> DEFINE auth == AuthorizationSchema(actor)
           b == EvaluateTemplates(AuthorizeLinks(schema, auth), actor)
<1>1. c \in Values /\ schema \in ActorSchemas
  BY ContractsAssumption, ReachedAssumption
<1>2. AuthorizeQuery(schema, actor) = Merge(<<auth, b>>) /\ Merge(<<auth, b>>) \in Schemas /\ auth \in Schemas
  BY <1>1, QueryParts
<1>3. IsValid(Merge(<<auth, b>>), c, linked) <=> IsValid(auth, c, linked) /\ IsValid(b, c, linked)
  BY <1>1, <1>2, MergeIsConjunction
<1>4. IsValid(auth, c, linked) <=> MayRead(actor, c)
  BY <1>2, AuthorizedMayRead
<1>5. IsValid(b, c, linked) <=> IsValid(EvaluateTemplates(schema, actor), c, Readable(actor, linked))
  BY <1>1, AuthorizedLinks
<1>6. QED
  BY <1>2, <1>3, <1>4, <1>5

\* Two tables that differ only in the links to contracts that an actor may not read are
\* the same to such a query, by the meaning of what it becomes
\* (applyAuthorizationSchemaToLinks: "ensuring that authorization can't be escaped by
\* using a relational query", utils.ts:6-7).
THEOREM UnreadableIsNotTold ==
  ASSUME NEW actor \in Actors, NEW schema \in ReachedSchemas, NEW c \in Contracts,
         NEW k \in Linkings, NEW l \in Linkings, Readable(actor, k) = Readable(actor, l)
  PROVE  IsValid(AuthorizeQuery(schema, actor), c, k) <=> IsValid(AuthorizeQuery(schema, actor), c, l)
BY AuthorizedQuery

-----------------------------------------------------------------------------
(* The queries, one after the other.                                       *)

QuestionInv ==
  /\ question.kind = "select as" =>
       /\ question.actor \in Actors /\ question.schema \in ActorSchemas
       /\ question.contract \in Contracts /\ question.linked \in Linkings
  /\ question.kind = "latest" =>
       question.versions \in SUBSET Versions /\ IsFiniteSet(question.versions) /\ question.versions # {}

AnswerInv ==
  /\ question = Nothing => answer = Nothing
  /\ answer # Nothing /\ question.kind = "latest" => answer.version = Latest(question.versions)

QueryInv == QuestionInv /\ AnswerInv

\* What is asked is what the constants allow, and slug@latest is answered by Latest.
THEOREM QueryInvariance == Spec => []QueryInv
<1>1. Init => QueryInv
  BY DEF Init, QueryInv, QuestionInv, AnswerInv, Nothing
<1>2. QueryInv /\ [Next]_vars => QueryInv'
  <2> SUFFICES ASSUME QueryInv, [Next]_vars PROVE QueryInv'
    OBVIOUS
  <2>1. CASE Ask
    <3>1. question'.kind = "select"
      BY <2>1 DEF Ask
    <3>2. answer' = Nothing
      BY <2>1 DEF Ask, QueryInv, AnswerInv
    <3>3. QED
      BY <3>1, <3>2 DEF QueryInv, QuestionInv, AnswerInv
  <2>2. CASE AskAs
    <3>1. PICK a \in Actors, q \in AskedByActors : \E s \in q.schemas, c \in q.rows, l \in q.linked :
            question' = [kind |-> "select as", schema |-> s, contract |-> c, linked |-> l, actor |-> a]
      BY <2>2 DEF AskAs
    <3>2. PICK s \in q.schemas, c \in q.rows, l \in q.linked :
            question' = [kind |-> "select as", schema |-> s, contract |-> c, linked |-> l, actor |-> a]
      BY <3>1
    <3>3. s \in ActorSchemas /\ c \in Contracts /\ l \in Linkings
      BY AskedAssumption
    <3>4. /\ question'.kind = "select as" /\ question'.actor = a /\ question'.schema = s
          /\ question'.contract = c /\ question'.linked = l
      BY <3>2
    <3>5. answer' = Nothing
      BY <2>2 DEF AskAs, QueryInv, AnswerInv
    <3>6. QED
      BY <3>3, <3>4, <3>5 DEF QueryInv, QuestionInv, AnswerInv
  <2>3. CASE AskLatest
    <3>1. PICK vs \in SUBSET Versions :
            vs # {} /\ IsFiniteSet(vs) /\ question' = [kind |-> "latest", versions |-> vs]
      BY <2>3 DEF AskLatest
    <3>2. answer' = Nothing
      BY <2>3 DEF AskLatest, QueryInv, AnswerInv
    <3>3. question'.kind = "latest" /\ question'.versions = vs
      BY <3>1
    <3>4. QED
      BY <3>1, <3>2, <3>3 DEF QueryInv, QuestionInv, AnswerInv
  <2>4. CASE Answer
    BY <2>4 DEF Answer, QueryInv, QuestionInv, AnswerInv
  <2>5. CASE Forget
    BY <2>5 DEF Forget, QueryInv, QuestionInv, AnswerInv, Nothing
  <2>6. CASE UNCHANGED vars
    BY <2>6 DEF vars, QueryInv, QuestionInv, AnswerInv
  <2>7. QED
    BY <2>1, <2>2, <2>3, <2>4, <2>5, <2>6 DEF Next
<1>3. QED
  BY <1>1, <1>2, PTL DEF Spec

-----------------------------------------------------------------------------
\* Wherever the SQL selects as SelectsTheValid has it, an actor is told of nothing but what
\* the actor may read, and, by a query all whose links the authorization reaches, of
\* exactly what the query asks for in a table of what the actor may read, unless a link
\* that is excluded holds for some of what is linked only.  What is left to the
\* translation of schemas is SelectsTheValid (Kernel.query, kernel.ts:1262-1271).
THEOREM AuthorizedAnswers == Spec => [](SelectsTheValid => AnswersAreAuthorized)
<1>1. QueryInv => (SelectsTheValid => AnswersAreAuthorized)
  <2> DEFINE may == MayRead(question.actor, question.contract)
             valid == IsValid(EvaluateTemplates(question.schema, question.actor), question.contract,
                              Readable(question.actor, question.linked))
             auth == AuthorizationSchema(question.actor)
             b == EvaluateTemplates(AuthorizeLinks(question.schema, auth), question.actor)
             q == AuthorizeQuery(question.schema, question.actor)
  <2>1. SUFFICES ASSUME QueryInv, SelectsTheValid, Answered("select as") PROVE
          /\ answer.selected => may
          /\ question.schema \in ReachedSchemas =>
               /\ may /\ valid => answer.selected
               /\ answer.selected /\ ~Split(q, question.linked) => valid
    BY DEF AnswersAreAuthorized, SchemaOf, Answered
  <2>2. question.kind = "select as"
    BY <2>1 DEF Answered
  <2>3. /\ question.actor \in Actors /\ question.schema \in ActorSchemas
        /\ question.contract \in Contracts /\ question.linked \in Linkings
    BY <2>1, <2>2 DEF QueryInv, QuestionInv
  <2>4. /\ IsValid(q, question.contract, question.linked) => answer.selected
        /\ answer.selected =>
             \A s \in Conjunction(q) :
               ~Split(s, question.linked) => IsValid(s, question.contract, question.linked)
    BY <2>1, <2>2 DEF SelectsTheValid, SchemaOf
  <2>5. auth \in Conjunction(q) /\ q \in Conjunction(q)
    <3>1. q = Merge(<<auth, b>>)
      BY <2>3, QueryParts
    <3> HIDE DEF q, auth, b
    <3>2. Has(q, "allOf") /\ 1 \in DOMAIN q.allOf /\ q.allOf[1] = auth
      BY <3>1 DEF Merge, Has
    <3>3. QED
      BY <3>2 DEF Conjunction
  <2>6. ~Split(auth, question.linked)
    BY <2>3, NegatedLinksAssumption DEF Split
  <2>7. auth \in Schemas
    BY <2>3, QueryParts
  <2>8. IsValid(auth, question.contract, question.linked) <=> may
    BY <2>3, <2>7, AuthorizedMayRead
  <2>9. answer.selected => may
    BY <2>4, <2>5, <2>6, <2>8
  <2>10. question.schema \in ReachedSchemas =>
           (IsValid(q, question.contract, question.linked) <=> may /\ valid)
    BY <2>3, AuthorizedQuery
  <2>11. QED
    BY <2>4, <2>5, <2>9, <2>10
<1>2. QED
  BY <1>1, QueryInvariance, PTL

\* slug@latest is the newest release if there is one, of any versions that a table has,
\* whatever the order of texts (Kernel.getContractBySlug, kernel.ts:690-748).
THEOREM LatestAlwaysNewest == Spec => []LatestIsNewest
<1>1. QueryInv => LatestIsNewest
  <2>1. SUFFICES ASSUME QueryInv, Answered("latest") PROVE IsNewest(answer.version, question.versions)
    BY DEF LatestIsNewest
  <2>2. /\ question.versions \in SUBSET Versions /\ IsFiniteSet(question.versions)
        /\ question.versions # {} /\ answer.version = Latest(question.versions)
    BY <2>1 DEF QueryInv, QuestionInv, AnswerInv, Answered
  <2>3. QED
    BY <2>2, LatestIsNewestRelease
<1>2. QED
  BY <1>1, QueryInvariance, PTL

-----------------------------------------------------------------------------
(* Filters: AND, OR and NOT of SQL, with constants folded.                 *)

\* SQL's AND and OR of some truth values, as a case distinction.
LEMMA TruthTables ==
  ASSUME NEW ts \in SUBSET TruthValues
  PROVE  /\ And3(ts) = IF "false" \in ts THEN "false" ELSE IF "unknown" \in ts THEN "unknown" ELSE "true"
         /\ Or3(ts) = IF "true" \in ts THEN "true" ELSE IF "unknown" \in ts THEN "unknown" ELSE "false"
<1>1. \A t \in TruthValues : /\ Not3(t) = "false" <=> t = "true"
                             /\ Not3(t) = "unknown" <=> t = "unknown"
                             /\ Not3(t) = "true" <=> t = "false"
  BY DEF Not3, TruthValues
<1>2. Not3("true") = "false" /\ Not3("false") = "true" /\ Not3("unknown") = "unknown"
  BY DEF Not3
<1>3. /\ "false" \in {Not3(t) : t \in ts} <=> "true" \in ts
      /\ "unknown" \in {Not3(t) : t \in ts} <=> "unknown" \in ts
  BY <1>1, <1>2
<1> QED
  BY <1>2, <1>3 DEF And3, Or3

\* AND and OR of one value are the value, and those of a union are those of the parts.
LEMMA Joins ==
  ASSUME NEW op \in {"and", "or"}, NEW ts \in SUBSET TruthValues, NEW us \in SUBSET TruthValues
  PROVE  /\ Join3(op, ts) \in TruthValues
         /\ \A t \in TruthValues : Join3(op, {t}) = t
         /\ Join3(op, ts \cup us) = Join3(op, {Join3(op, ts), Join3(op, us)})
<1>1. \A t \in TruthValues : Join3(op, {t}) = t
  <2> SUFFICES ASSUME NEW t \in TruthValues PROVE Join3(op, {t}) = t
    OBVIOUS
  <2>1. {t} \in SUBSET TruthValues
    OBVIOUS
  <2> QED
    BY <2>1, TruthTables DEF Join3, TruthValues
<1>2. CASE op = "and"
  <2>1. And3(ts) \in TruthValues /\ And3(us) \in TruthValues
    BY TruthTables DEF TruthValues
  <2>2. And3(ts \cup us) = And3({And3(ts), And3(us)})
    BY DEF And3
  <2> QED
    BY <1>1, <1>2, <2>1, <2>2 DEF Join3
<1>3. CASE op = "or"
  <2>1. Or3(ts) \in TruthValues /\ Or3(us) \in TruthValues
    BY TruthTables DEF TruthValues
  <2>2. {Or3(ts), Or3(us)} \in SUBSET TruthValues /\ ts \cup us \in SUBSET TruthValues
    BY <2>1
  <2>3. Or3(ts \cup us) = Or3({Or3(ts), Or3(us)})
    BY <2>2, TruthTables
  <2> QED
    BY <1>1, <1>3, <2>1, <2>3 DEF Join3
<1> QED
  BY <1>1, <1>2, <1>3

\* What an expression evaluates to, and what a constant does.
LEMMA ExpressionTruth ==
  ASSUME NEW f \in QueryFilters, NEW row \in QueryRows, f.kind = "expression"
  PROVE  /\ f.operator \in {"and", "or"} /\ f.expr \in Seq(QueryFilters) /\ f.expr # <<>>
         /\ {TruthOf(f.expr[i], row) : i \in DOMAIN f.expr} \in SUBSET TruthValues
         /\ TruthOf(f, row) = Join3(f.operator, {TruthOf(f.expr[i], row) : i \in DOMAIN f.expr})
         /\ TruthOf(f, row) \in TruthValues
         /\ Len(f.expr) = 1 => TruthOf(f, row) = TruthOf(f.expr[1], row)
<1>1. f.operator \in {"and", "or"} /\ f.expr \in Seq(QueryFilters) /\ f.expr # <<>>
  BY FiltersAssumption
<1>2. \A i \in DOMAIN f.expr : f.expr[i] \in QueryFilters
  BY <1>1, ElementOfSeq, LenProperties
<1>3. {TruthOf(f.expr[i], row) : i \in DOMAIN f.expr} \in SUBSET TruthValues
  BY <1>2, TruthAssumption
<1>4. FilterHolds(f, row, TruthOf) = ExpressionHolds(f, {TruthOf(f.expr[i], row) : i \in DOMAIN f.expr})
  BY DEF FilterHolds
<1>5. TruthOf(f, row) = Join3(f.operator, {TruthOf(f.expr[i], row) : i \in DOMAIN f.expr})
  BY <1>4, TruthAssumption DEF ExpressionHolds
<1>6. ASSUME Len(f.expr) = 1 PROVE TruthOf(f, row) = TruthOf(f.expr[1], row)
  <2>1. DOMAIN f.expr = {1}
    BY <1>1, <1>6, LenProperties
  <2>2. {TruthOf(f.expr[i], row) : i \in DOMAIN f.expr} = {TruthOf(f.expr[1], row)}
    BY <2>1
  <2>3. TruthOf(f.expr[1], row) \in TruthValues
    BY <1>3, <2>2
  <2> QED
    BY <1>1, <1>5, <2>2, <2>3, Joins
<1> QED
  BY <1>1, <1>3, <1>5, <1>6, TruthAssumption

\* The expression that a filter is made into evaluates to the same.
LEMMA IntoExpressionTruth ==
  ASSUME NEW g \in QueryFilters, NEW h \in QueryFilters, NEW row \in QueryRows,
         h.kind = "expression", h.operator = IntoExpression(g).operator,
         h.expr = IntoExpression(g).expr
  PROVE  TruthOf(h, row) = TruthOf(g, row)
<1>1. CASE g.kind = "expression"
  <2>1. h.operator = g.operator /\ h.expr = g.expr
    BY <1>1 DEF IntoExpression
  <2>2. TruthOf(g, row) = Join3(g.operator, {TruthOf(g.expr[i], row) : i \in DOMAIN g.expr})
    BY <1>1, ExpressionTruth
  <2>3. TruthOf(h, row) = Join3(h.operator, {TruthOf(h.expr[i], row) : i \in DOMAIN h.expr})
    BY ExpressionTruth
  <2> QED
    BY <2>1, <2>2, <2>3
<1>2. CASE g.kind # "expression"
  <2>1. h.expr = <<g>>
    BY <1>2 DEF IntoExpression, Expression
  <2>2. Len(h.expr) = 1 /\ h.expr[1] = g
    BY <2>1
  <2>3. TruthOf(h, row) = TruthOf(h.expr[1], row)
    BY <2>2, ExpressionTruth
  <2> QED
    BY <2>2, <2>3
<1> QED
  BY <1>1, <1>2

LEMMA ConstantTruth ==
  ASSUME NEW c \in QueryFilters, NEW row \in QueryRows, IsConstant(c)
  PROVE  /\ c.expr[1].value \in BOOLEAN
         /\ Len(c.expr) = 1
         /\ TruthOf(c, row) = Truth(c.expr[1].value)
<1>1. c.kind = "expression" /\ Len(c.expr) = 1 /\ c.expr[1].kind = "constant"
  BY DEF IsConstant
<1>2. c.expr[1] \in QueryFilters
  <2>1. c.expr \in Seq(QueryFilters)
    BY <1>1, FiltersAssumption
  <2> QED
    BY <1>1, <2>1, ElementOfSeq
<1>3. c.expr[1].value \in BOOLEAN
  BY <1>1, <1>2, FiltersAssumption
<1>4. FilterHolds(c.expr[1], row, TruthOf) = Truth(c.expr[1].value)
  BY <1>1 DEF FilterHolds
<1>5. TruthOf(c.expr[1], row) = Truth(c.expr[1].value)
  BY <1>2, <1>4, TruthAssumption
<1> QED
  BY <1>1, <1>3, <1>5, ExpressionTruth

\* Folding a constant: it is neutral, or decides what the whole is.
LEMMA FoldTruth ==
  ASSUME NEW op \in {"and", "or"}, NEW c \in QueryFilters, NEW g \in QueryFilters, NEW row \in QueryRows,
         IsConstant(c), Fold(op, c, g) \in QueryFilters
  PROVE  TruthOf(Fold(op, c, g), row) = Join3(op, {TruthOf(c, row), TruthOf(g, row)})
<1> DEFINE h == Fold(op, c, g)
<1>1. /\ c.kind = "expression"
      /\ c = [kind |-> "expression", operator |-> c.operator, expr |-> c.expr, optionalLinks |-> c.optionalLinks]
  BY FiltersAssumption DEF IsConstant
<1>2. TruthOf(g, row) \in TruthValues
  BY TruthAssumption
<1>3. CASE IsNeutral(op, c)
  <2>1. h.kind = "expression" /\ h.operator = IntoExpression(g).operator /\ h.expr = IntoExpression(g).expr
    <3>1. CASE g.kind = "expression"
      <4>1. g = [kind |-> "expression", operator |-> g.operator, expr |-> g.expr, optionalLinks |-> g.optionalLinks]
        BY <3>1, FiltersAssumption
      <4> QED
        BY <1>3, <3>1, <4>1 DEF Fold, IntoExpression
    <3>2. CASE g.kind # "expression"
      BY <1>3, <3>2 DEF Fold, IntoExpression, Expression
    <3> QED
      BY <3>1, <3>2
  <2>2. TruthOf(h, row) = TruthOf(g, row)
    BY <2>1, IntoExpressionTruth
  <2>3. TruthOf(c, row) = Truth(op = "and")
    BY <1>3, ConstantTruth DEF IsNeutral
  <2>4. {TruthOf(c, row), TruthOf(g, row)} \in SUBSET TruthValues
    BY <1>2, <2>3 DEF Truth, TruthValues
  <2>5. Join3(op, {TruthOf(c, row), TruthOf(g, row)}) = TruthOf(g, row)
    BY <1>2, <2>3, <2>4, TruthTables DEF Join3, Truth, TruthValues
  <2> QED
    BY <2>2, <2>5
<1>4. CASE ~IsNeutral(op, c)
  <2>1. h.kind = "expression" /\ h.operator = c.operator /\ h.expr = c.expr
    BY <1>1, <1>4 DEF Fold
  <2>2. /\ TruthOf(h, row) = Join3(h.operator, {TruthOf(h.expr[i], row) : i \in DOMAIN h.expr})
        /\ TruthOf(c, row) = Join3(c.operator, {TruthOf(c.expr[i], row) : i \in DOMAIN c.expr})
    BY <1>1, <2>1, ExpressionTruth
  <2>3. TruthOf(c, row) = Truth(op # "and")
    BY <1>4, ConstantTruth DEF IsNeutral
  <2>4. {TruthOf(c, row), TruthOf(g, row)} \in SUBSET TruthValues
    BY <1>2, <2>3 DEF Truth, TruthValues
  <2>5. Join3(op, {TruthOf(c, row), TruthOf(g, row)}) = TruthOf(c, row)
    BY <1>2, <2>3, <2>4, TruthTables DEF Join3, Truth, TruthValues
  <2> QED
    BY <2>1, <2>2, <2>5
<1> QED
  BY <1>3, <1>4

\* An operand counts the same whether it is inlined or nested.
LEMMA InlineTruth ==
  ASSUME NEW op \in {"and", "or"}, NEW g \in QueryFilters, NEW h, NEW row \in QueryRows,
         h = g \/ (h.kind = "expression" /\ g.kind = "expression" /\ h.operator = g.operator /\ h.expr = g.expr),
         \A i \in DOMAIN Inline(op, h) : Inline(op, h)[i] \in QueryFilters
  PROVE  /\ {TruthOf(Inline(op, h)[i], row) : i \in DOMAIN Inline(op, h)} \in SUBSET TruthValues
         /\ Join3(op, {TruthOf(Inline(op, h)[i], row) : i \in DOMAIN Inline(op, h)}) = TruthOf(g, row)
<1> DEFINE ts == {TruthOf(Inline(op, h)[i], row) : i \in DOMAIN Inline(op, h)}
<1>1. ts \in SUBSET TruthValues
  BY TruthAssumption
<1>2. CASE h.kind = "expression" /\ (h.operator = op \/ Len(h.expr) = 1)
  <2>1. Inline(op, h) = g.expr
    BY <1>2 DEF Inline
  <2>2. ts = {TruthOf(g.expr[i], row) : i \in DOMAIN g.expr}
    BY <2>1
  <2>3. CASE g.operator = op
    BY <1>1, <1>2, <2>2, <2>3, ExpressionTruth
  <2>4. CASE Len(g.expr) = 1
    <3>1. g.expr \in Seq(QueryFilters)
      BY <1>2, FiltersAssumption
    <3>2. DOMAIN g.expr = {1}
      BY <2>4, <3>1, LenProperties
    <3>3. ts = {TruthOf(g.expr[1], row)}
      BY <2>2, <3>2
    <3>4. TruthOf(g, row) = TruthOf(g.expr[1], row) /\ TruthOf(g, row) \in TruthValues
      BY <1>2, <2>4, ExpressionTruth
    <3>5. Join3(op, {TruthOf(g, row)}) = TruthOf(g, row)
      BY <3>4, Joins
    <3> QED
      BY <1>1, <3>3, <3>4, <3>5
  <2> QED
    BY <1>2, <2>3, <2>4
<1>3. CASE ~(h.kind = "expression" /\ (h.operator = op \/ Len(h.expr) = 1))
  <2>1. Inline(op, h) = <<h>>
    BY <1>3 DEF Inline
  <2>2. DOMAIN Inline(op, h) = {1} /\ Inline(op, h)[1] = h
    BY <2>1
  <2>3. h \in QueryFilters /\ ts = {TruthOf(h, row)}
    BY <2>2
  <2>4. TruthOf(h, row) \in TruthValues
    BY <2>3, TruthAssumption
  <2>5. Join3(op, {TruthOf(h, row)}) = TruthOf(h, row)
    BY <2>4, Joins
  <2>6. TruthOf(h, row) = TruthOf(g, row)
    <3>1. CASE g.kind = "expression"
      <4>1. IntoExpression(g) = g
        BY <3>1 DEF IntoExpression
      <4> QED
        BY <2>3, <3>1, <4>1, IntoExpressionTruth
    <3>2. CASE h = g
      BY <3>2
    <3> QED
      BY <3>1, <3>2
  <2> QED
    BY <1>1, <2>3, <2>5, <2>6
<1> QED
  BY <1>2, <1>3

Bare(f) == [f EXCEPT !.optionalLinks = {}]
Operands(s) == {s[i] : i \in DOMAIN s}

\* A filter with its links left out.
LEMMA BareExpression ==
  ASSUME NEW f \in QueryFilters, f.kind = "expression"
  PROVE  /\ Bare(f).kind = "expression" /\ Bare(f).operator = f.operator
         /\ Bare(f).expr = f.expr /\ Bare(f).optionalLinks = {}
<1>1. f = [kind |-> "expression", operator |-> f.operator, expr |-> f.expr, optionalLinks |-> f.optionalLinks]
  BY FiltersAssumption
<1> QED
  BY <1>1 DEF Bare

\* The operands of an expression of two filters neither of which is constant.
LEMMA CombinedOperands ==
  ASSUME NEW op \in {"and", "or"}, NEW f \in QueryFilters, NEW g \in QueryFilters,
         f.kind = "expression", Combine(op, f, g) \in QueryFilters, ~IsConstant(f), ~IsConstant(g)
  PROVE  /\ Combine(op, f, g).kind = "expression"
         /\ Combine(op, f, g).operator = op
         /\ Combine(op, f, g).optionalLinks = f.optionalLinks \cup OptionalLinks(g)
         /\ Operands(Inline(op, Bare(f))) \in SUBSET QueryFilters
         /\ Operands(Inline(op, g)) \in SUBSET QueryFilters
         /\ Operands(Combine(op, f, g).expr) = Operands(Inline(op, Bare(f))) \cup Operands(Inline(op, g))
<1> DEFINE h == Combine(op, f, g)
           left == Inline(op, Bare(f))
           right == Inline(op, g)
<1>1. /\ h.kind = "expression" /\ h.operator = op /\ h.expr = left \o right
      /\ h.optionalLinks = f.optionalLinks \cup OptionalLinks(g)
  BY DEF Combine, Bare
<1>2. left = f.expr \/ left = <<Bare(f)>>
  BY BareExpression DEF Inline
<1>3. f.expr \in Seq(QueryFilters) /\ (g.kind = "expression" => g.expr \in Seq(QueryFilters))
  BY FiltersAssumption
<1>4. right \in Seq(QueryFilters)
  BY <1>3 DEF Inline
<1>5. left \in Seq(QueryFilters \cup {Bare(f)})
  <2>1. CASE left = f.expr
    <3>1. PICK n \in Nat : f.expr \in [1 .. n -> QueryFilters]
      BY <1>3, SeqDef
    <3>2. f.expr \in [1 .. n -> QueryFilters \cup {Bare(f)}]
      BY <3>1
    <3> QED
      BY <2>1, <3>2, SeqDef
  <2>2. CASE left = <<Bare(f)>>
    BY <2>2
  <2> QED
    BY <1>2, <2>1, <2>2
<1>6. right \in Seq(QueryFilters \cup {Bare(f)})
  BY <1>4
<1>7. h.expr \in Seq(QueryFilters)
  BY <1>1, FiltersAssumption
<1> HIDE DEF left, right, h
<1>8. /\ DOMAIN left = 1 .. Len(left) /\ DOMAIN right = 1 .. Len(right)
      /\ Len(left) \in Nat /\ Len(right) \in Nat
      /\ DOMAIN h.expr = 1 .. Len(left) + Len(right)
      /\ \A i \in DOMAIN left : h.expr[i] = left[i]
      /\ \A i \in DOMAIN right : h.expr[Len(left) + i] = right[i]
  BY <1>1, <1>5, <1>6, LenProperties, ConcatProperties
<1>9. Operands(left) \in SUBSET QueryFilters
  <2> SUFFICES ASSUME NEW i \in DOMAIN left PROVE left[i] \in QueryFilters
    BY DEF Operands
  <2>1. i \in DOMAIN h.expr /\ h.expr[i] = left[i]
    BY <1>8
  <2> QED
    BY <1>7, <2>1, ElementOfSeq, LenProperties
<1>10. Operands(right) \in SUBSET QueryFilters
  BY <1>4, ElementOfSeq, LenProperties DEF Operands
<1>11. Operands(left) \cup Operands(right) \subseteq Operands(h.expr)
  <2>1. \A i \in DOMAIN left : i \in DOMAIN h.expr /\ h.expr[i] = left[i]
    BY <1>8
  <2>2. \A i \in DOMAIN right : Len(left) + i \in DOMAIN h.expr /\ h.expr[Len(left) + i] = right[i]
    BY <1>8
  <2> QED
    BY <2>1, <2>2 DEF Operands
<1>12. Operands(h.expr) \subseteq Operands(left) \cup Operands(right)
  <2> SUFFICES ASSUME NEW i \in DOMAIN h.expr PROVE h.expr[i] \in Operands(left) \cup Operands(right)
    BY DEF Operands
  <2>1. CASE i \in DOMAIN left
    BY <1>8, <2>1 DEF Operands
  <2>2. CASE i \notin DOMAIN left
    <3>1. i \in Int /\ i > Len(left) /\ i <= Len(left) + Len(right)
      BY <1>8, <2>2
    <3>2. i - Len(left) \in DOMAIN right /\ i = Len(left) + (i - Len(left))
      BY <1>8, <3>1
    <3>3. h.expr[i] = right[i - Len(left)]
      BY <1>8, <3>2
    <3> QED
      BY <3>2, <3>3 DEF Operands
  <2> QED
    BY <2>1, <2>2
<1> QED
  BY <1>1, <1>9, <1>10, <1>11, <1>12 DEF left, right, h

-----------------------------------------------------------------------------
\* applyBinaryOperator folds constants and inlines operands, and what it makes of two
\* filters is true, false or unknown of a row where AND or OR of the two is: no
\* contract is found or lost by it.
THEOREM CombiningKeepsTruth ==
  ASSUME NEW op \in {"and", "or"}, NEW f \in QueryFilters, NEW g \in QueryFilters, NEW row \in QueryRows,
         f.kind = "expression", Combine(op, f, g) \in QueryFilters
  PROVE  TruthOf(Combine(op, f, g), row) = Join3(op, {TruthOf(f, row), TruthOf(g, row)})
<1>1. CASE IsConstant(f)
  <2>1. Combine(op, f, g) = Fold(op, f, g)
    BY <1>1 DEF Combine
  <2> QED
    BY <1>1, <2>1, FoldTruth
<1>2. CASE ~IsConstant(f) /\ IsConstant(g)
  <2>1. Combine(op, f, g) = Fold(op, g, f)
    BY <1>2 DEF Combine
  <2>2. TruthOf(Fold(op, g, f), row) = Join3(op, {TruthOf(g, row), TruthOf(f, row)})
    BY <1>2, <2>1, FoldTruth
  <2>3. {TruthOf(g, row), TruthOf(f, row)} = {TruthOf(f, row), TruthOf(g, row)}
    OBVIOUS
  <2> QED
    BY <2>1, <2>2, <2>3
<1>3. CASE ~IsConstant(f) /\ ~IsConstant(g)
  <2> DEFINE h == Combine(op, f, g)
             left == Inline(op, Bare(f))
             right == Inline(op, g)
             Truths(s) == {TruthOf(s[i], row) : i \in DOMAIN s}
  <2>1. /\ h.kind = "expression" /\ h.operator = op
        /\ Operands(left) \in SUBSET QueryFilters /\ Operands(right) \in SUBSET QueryFilters
        /\ Operands(h.expr) = Operands(left) \cup Operands(right)
    BY <1>3, CombinedOperands
  <2>2. Truths(left) \in SUBSET TruthValues /\ Join3(op, Truths(left)) = TruthOf(f, row)
    <3>1. ASSUME NEW b, b = f \/ (b.kind = "expression" /\ f.kind = "expression" /\ b.operator = f.operator /\ b.expr = f.expr),
                 \A i \in DOMAIN Inline(op, b) : Inline(op, b)[i] \in QueryFilters
          PROVE  /\ Truths(Inline(op, b)) \in SUBSET TruthValues
                 /\ Join3(op, Truths(Inline(op, b))) = TruthOf(f, row)
      BY <3>1, InlineTruth
    <3>2. Bare(f).kind = "expression" /\ Bare(f).operator = f.operator /\ Bare(f).expr = f.expr
      BY BareExpression
    <3>3. \A i \in DOMAIN left : left[i] \in QueryFilters
      BY <2>1 DEF Operands
    <3> QED
      BY <3>1, <3>2, <3>3
  <2>3. Truths(right) \in SUBSET TruthValues /\ Join3(op, Truths(right)) = TruthOf(g, row)
    <3>1. \A i \in DOMAIN right : right[i] \in QueryFilters
      BY <2>1 DEF Operands
    <3> QED
      BY <3>1, InlineTruth
  <2> HIDE DEF left, right, h
  <2>4. Truths(h.expr) = Truths(left) \cup Truths(right)
    <3>1. \A s : Truths(s) = {TruthOf(x, row) : x \in Operands(s)}
      BY DEF Operands
    <3> HIDE DEF Truths
    <3> QED
      BY <2>1, <3>1
  <2>5. TruthOf(h, row) = Join3(op, Truths(h.expr))
    BY <2>1, ExpressionTruth DEF h
  <2> HIDE DEF Truths
  <2>6. Join3(op, Truths(left) \cup Truths(right)) = Join3(op, {Join3(op, Truths(left)), Join3(op, Truths(right))})
    BY <2>2, <2>3, Joins
  <2> QED
    BY <2>2, <2>3, <2>4, <2>5, <2>6 DEF h
<1> QED
  BY <1>1, <1>2, <1>3

-----------------------------------------------------------------------------
\* The links in an expression: its own, and those of its operands.
LEMMA ExpressionLinks ==
  ASSUME NEW f \in QueryFilters, f.kind = "expression"
  PROVE  LinksOf(f) = f.optionalLinks \cup UNION {LinksOf(x) : x \in Operands(f.expr)}
<1>1. LinksOf(f) = f.optionalLinks \cup UNION {LinksOf(f.expr[i]) : i \in DOMAIN f.expr}
  BY FilterLinksAssumption DEF FilterLinks
<1>2. {LinksOf(f.expr[i]) : i \in DOMAIN f.expr} = {LinksOf(x) : x \in Operands(f.expr)}
  BY DEF Operands
<1> QED
  BY <1>1, <1>2

LEMMA ConstantLinks ==
  ASSUME NEW c \in QueryFilters, IsConstant(c)
  PROVE  LinksOf(c) = c.optionalLinks /\ UNION {LinksOf(x) : x \in Operands(c.expr)} = {}
<1>1. c.kind = "expression" /\ Len(c.expr) = 1 /\ c.expr[1].kind = "constant"
  BY DEF IsConstant
<1>2. c.expr \in Seq(QueryFilters)
  BY <1>1, FiltersAssumption
<1>3. Operands(c.expr) = {c.expr[1]} /\ c.expr[1] \in QueryFilters
  BY <1>1, <1>2, LenProperties, ElementOfSeq DEF Operands
<1>4. LinksOf(c.expr[1]) = {}
  <2>1. FilterLinks(c.expr[1], LinksOf) = {}
    BY <1>1 DEF FilterLinks
  <2> QED
    BY <1>3, <2>1, FilterLinksAssumption
<1>5. UNION {LinksOf(x) : x \in Operands(c.expr)} = {}
  BY <1>3, <1>4
<1> QED
  BY <1>1, <1>5, ExpressionLinks

\* What is folded away leaves its links.
LEMMA FoldLinks ==
  ASSUME NEW op \in {"and", "or"}, NEW c \in QueryFilters, NEW g \in QueryFilters,
         IsConstant(c), Fold(op, c, g) \in QueryFilters
  PROVE  LinksOf(Fold(op, c, g)) = LinksOf(c) \cup LinksOf(g)
<1> DEFINE h == Fold(op, c, g)
<1>1. /\ c.kind = "expression"
      /\ c = [kind |-> "expression", operator |-> c.operator, expr |-> c.expr, optionalLinks |-> c.optionalLinks]
  BY FiltersAssumption DEF IsConstant
<1>2. CASE IsNeutral(op, c) /\ g.kind = "expression"
  <2>1. g = [kind |-> "expression", operator |-> g.operator, expr |-> g.expr, optionalLinks |-> g.optionalLinks]
    BY <1>2, FiltersAssumption
  <2>2. h.kind = "expression" /\ h.expr = g.expr /\ h.optionalLinks = g.optionalLinks \cup LinksOf(c)
    BY <1>2, <2>1 DEF Fold, IntoExpression
  <2>3. LinksOf(h) = h.optionalLinks \cup UNION {LinksOf(x) : x \in Operands(h.expr)}
    BY <2>2, ExpressionLinks
  <2>4. LinksOf(g) = g.optionalLinks \cup UNION {LinksOf(x) : x \in Operands(g.expr)}
    BY <1>2, ExpressionLinks
  <2> QED
    BY <2>2, <2>3, <2>4
<1>3. CASE IsNeutral(op, c) /\ g.kind # "expression"
  <2>1. h.kind = "expression" /\ h.expr = <<g>> /\ h.optionalLinks = {} \cup LinksOf(c)
    BY <1>3 DEF Fold, IntoExpression, Expression
  <2>2. Operands(<<g>>) = {g}
    BY DEF Operands
  <2>3. LinksOf(h) = h.optionalLinks \cup UNION {LinksOf(x) : x \in Operands(h.expr)}
    BY <2>1, ExpressionLinks
  <2> QED
    BY <2>1, <2>2, <2>3
<1>4. CASE ~IsNeutral(op, c)
  <2>1. h.kind = "expression" /\ h.expr = c.expr /\ h.optionalLinks = LinksOf(c) \cup LinksOf(g)
    BY <1>1, <1>4 DEF Fold
  <2>2. LinksOf(h) = h.optionalLinks \cup UNION {LinksOf(x) : x \in Operands(h.expr)}
    BY <2>1, ExpressionLinks
  <2> QED
    BY <2>1, <2>2, ConstantLinks
<1> QED
  BY <1>2, <1>3, <1>4

\* The operands of an operand, inlined or nested, have its links, its own apart.
LEMMA InlineLinks ==
  ASSUME NEW op \in {"and", "or"}, NEW f \in QueryFilters, f.kind = "expression",
         Operands(Inline(op, Bare(f))) \in SUBSET QueryFilters
  PROVE  f.optionalLinks \cup UNION {LinksOf(x) : x \in Operands(Inline(op, Bare(f)))} = LinksOf(f)
<1>1. Inline(op, Bare(f)) = f.expr \/ Inline(op, Bare(f)) = <<Bare(f)>>
  BY BareExpression DEF Inline
<1>2. CASE Inline(op, Bare(f)) = f.expr
  BY <1>2, ExpressionLinks
<1>3. CASE Inline(op, Bare(f)) = <<Bare(f)>>
  <2>1. Operands(<<Bare(f)>>) = {Bare(f)}
    BY DEF Operands
  <2>2. Bare(f) \in QueryFilters
    BY <1>3, <2>1
  <2>3. LinksOf(Bare(f)) = UNION {LinksOf(x) : x \in Operands(f.expr)}
    BY <2>2, BareExpression, ExpressionLinks
  <2> QED
    BY <1>3, <2>1, <2>3, ExpressionLinks
<1> QED
  BY <1>1, <1>2, <1>3

\* No link of a query gets lost in a fold: what applyBinaryOperator makes of two
\* filters has the links of both, though a condition on them may be folded away.
THEOREM CombiningKeepsLinks ==
  ASSUME NEW op \in {"and", "or"}, NEW f \in QueryFilters, NEW g \in QueryFilters,
         f.kind = "expression", Combine(op, f, g) \in QueryFilters
  PROVE  LinksOf(Combine(op, f, g)) = LinksOf(f) \cup LinksOf(g)
<1>1. CASE IsConstant(f)
  <2>1. Combine(op, f, g) = Fold(op, f, g)
    BY <1>1 DEF Combine
  <2> QED
    BY <1>1, <2>1, FoldLinks
<1>2. CASE ~IsConstant(f) /\ IsConstant(g)
  <2>1. Combine(op, f, g) = Fold(op, g, f)
    BY <1>2 DEF Combine
  <2>2. LinksOf(Fold(op, g, f)) = LinksOf(g) \cup LinksOf(f)
    BY <1>2, <2>1, FoldLinks
  <2> QED
    BY <2>1, <2>2
<1>3. CASE ~IsConstant(f) /\ ~IsConstant(g)
  <2> DEFINE h == Combine(op, f, g)
             left == Inline(op, Bare(f))
             right == Inline(op, g)
             Of(s) == UNION {LinksOf(x) : x \in Operands(s)}
  <2>1. /\ h.kind = "expression" /\ h.optionalLinks = f.optionalLinks \cup OptionalLinks(g)
        /\ Operands(left) \in SUBSET QueryFilters
        /\ Operands(h.expr) = Operands(left) \cup Operands(right)
    BY <1>3, CombinedOperands
  <2>2. f.optionalLinks \cup Of(left) = LinksOf(f)
    BY <2>1, InlineLinks
  <2>3. OptionalLinks(g) \cup Of(right) = LinksOf(g)
    <3>1. CASE g.kind = "expression"
      <4>1. right = g.expr \/ right = <<g>>
        BY DEF Inline
      <4>2. Operands(<<g>>) = {g}
        BY DEF Operands
      <4>3. LinksOf(g) = g.optionalLinks \cup UNION {LinksOf(x) : x \in Operands(g.expr)}
        BY <3>1, ExpressionLinks
      <4> QED
        BY <3>1, <4>1, <4>2, <4>3 DEF OptionalLinks
    <3>2. CASE g.kind # "expression"
      <4>1. right = <<g>> /\ Operands(<<g>>) = {g} /\ OptionalLinks(g) = {}
        BY <3>2 DEF Inline, Operands, OptionalLinks
      <4> QED
        BY <4>1
    <3> QED
      BY <3>1, <3>2
  <2> HIDE DEF left, right, h
  <2>4. LinksOf(h) = h.optionalLinks \cup Of(h.expr)
    BY <2>1, ExpressionLinks DEF h
  <2>5. Of(h.expr) = Of(left) \cup Of(right)
    BY <2>1
  <2> HIDE DEF Of
  <2> QED
    BY <2>1, <2>2, <2>3, <2>4, <2>5 DEF h
<1> QED
  BY <1>1, <1>2, <1>3

-----------------------------------------------------------------------------
\* negate: a row for which the filter is unknown is found by neither, and the links of
\* the filter stay.
THEOREM NegatingKeepsUnknown ==
  ASSUME NEW f \in QueryFilters, NEW row \in QueryRows, f.kind = "expression", Negate(f) \in QueryFilters
  PROVE  TruthOf(Negate(f), row) = Not3(TruthOf(f, row)) /\ LinksOf(Negate(f)) = LinksOf(f)
<1> DEFINE n == Negate(f)
<1>1. f = [kind |-> "expression", operator |-> f.operator, expr |-> f.expr, optionalLinks |-> f.optionalLinks]
  BY FiltersAssumption
<1>2. /\ n.kind = "expression" /\ n.operator = "and"
      /\ n.expr = <<Not(Bare(f))>> /\ n.optionalLinks = f.optionalLinks
  BY <1>1 DEF Negate, Bare
<1> HIDE DEF n
<1>3. n.expr \in Seq(QueryFilters) /\ Len(n.expr) = 1 /\ n.expr[1] = Not(Bare(f))
  BY <1>2, FiltersAssumption DEF n
<1>4. Not(Bare(f)) \in QueryFilters
  BY <1>3, ElementOfSeq
<1>5. Not(Bare(f)).kind = "not" /\ Not(Bare(f)).filter = Bare(f)
  BY DEF Not
<1>6. Bare(f) \in QueryFilters
  BY <1>4, <1>5, FiltersAssumption
<1>7. TruthOf(n, row) = Not3(TruthOf(f, row))
  <2>1. TruthOf(n, row) = TruthOf(Not(Bare(f)), row)
    BY <1>2, <1>3, ExpressionTruth DEF n
  <2>2. FilterHolds(Not(Bare(f)), row, TruthOf) = Not3(TruthOf(Bare(f), row))
    BY <1>5 DEF FilterHolds
  <2>3. TruthOf(Bare(f), row) = TruthOf(f, row)
    <3>1. IntoExpression(f) = f
      BY DEF IntoExpression
    <3> QED
      BY <1>6, <3>1, BareExpression, IntoExpressionTruth
  <2> QED
    BY <1>4, <2>1, <2>2, <2>3, TruthAssumption
<1>8. LinksOf(n) = LinksOf(f)
  <2>1. Operands(n.expr) = {Not(Bare(f))}
    BY <1>2 DEF Operands
  <2>2. FilterLinks(Not(Bare(f)), LinksOf) = LinksOf(Bare(f))
    BY <1>5 DEF FilterLinks
  <2>3. LinksOf(Not(Bare(f))) = LinksOf(Bare(f))
    BY <1>4, <2>2, FilterLinksAssumption
  <2>4. LinksOf(Bare(f)) = UNION {LinksOf(x) : x \in Operands(f.expr)}
    BY <1>6, BareExpression, ExpressionLinks
  <2>5. LinksOf(n) = n.optionalLinks \cup UNION {LinksOf(x) : x \in Operands(n.expr)}
    BY <1>2, ExpressionLinks DEF n
  <2> QED
    BY <1>2, <2>1, <2>3, <2>4, <2>5, ExpressionLinks
<1> QED
  BY <1>7, <1>8 DEF n

\* implies: true of a row where the condition is false, or the consequence true, as
\* the exceptions for other types and for missing fields rely on (ifTypeThen).
THEOREM ImplicationTruth ==
  ASSUME NEW f \in QueryFilters, NEW g \in QueryFilters, NEW row \in QueryRows,
         f.kind = "expression", Negate(f) \in QueryFilters, Implies(f, g) \in QueryFilters
  PROVE  /\ TruthOf(Implies(f, g), row) = Or3({Not3(TruthOf(f, row)), TruthOf(g, row)})
         /\ TruthOf(Implies(f, g), row) = "true" <=> TruthOf(f, row) = "false" \/ TruthOf(g, row) = "true"
<1>1. Negate(f).kind = "expression"
  <2>1. f = [kind |-> "expression", operator |-> f.operator, expr |-> f.expr, optionalLinks |-> f.optionalLinks]
    BY FiltersAssumption
  <2> QED
    BY <2>1 DEF Negate
<1>2. TruthOf(Implies(f, g), row) = Join3("or", {TruthOf(Negate(f), row), TruthOf(g, row)})
  BY <1>1, CombiningKeepsTruth DEF Implies, Or
<1>3. TruthOf(Negate(f), row) = Not3(TruthOf(f, row))
  BY NegatingKeepsUnknown
<1>4. {TruthOf(Negate(f), row), TruthOf(g, row)} \in SUBSET TruthValues
  BY TruthAssumption
<1>5. TruthOf(f, row) \in TruthValues
  BY TruthAssumption
<1>6. TruthOf(Implies(f, g), row) = "true" <=> TruthOf(Negate(f), row) = "true" \/ TruthOf(g, row) = "true"
  BY <1>2, <1>4, TruthTables DEF Join3
<1>7. Not3(TruthOf(f, row)) = "true" <=> TruthOf(f, row) = "false"
  BY <1>5 DEF Not3, TruthValues
<1>8. Join3("or", {TruthOf(Negate(f), row), TruthOf(g, row)}) = Or3({TruthOf(Negate(f), row), TruthOf(g, row)})
  BY DEF Join3
<1> QED
  BY <1>2, <1>3, <1>6, <1>7, <1>8

-----------------------------------------------------------------------------
(* Keywords: their conditions on types and on fields that may be missing.  *)

\* implies: SQL's NOT f OR g, for the filters that condition others.
LEMMA ConditionalTruth ==
  ASSUME NEW f \in QueryFilters, NEW g \in QueryFilters, NEW row \in QueryRows,
         f.kind = "expression", Negate(f) \in QueryFilters, Implies(f, g) \in QueryFilters
  PROVE  /\ TruthOf(f, row) = "true" => TruthOf(Implies(f, g), row) = TruthOf(g, row)
         /\ TruthOf(f, row) = "false" => TruthOf(Implies(f, g), row) = "true"
<1>1. TruthOf(Implies(f, g), row) = Or3({Not3(TruthOf(f, row)), TruthOf(g, row)})
  BY ImplicationTruth
<1>2. TruthOf(g, row) \in TruthValues
  BY TruthAssumption
<1>3. ASSUME TruthOf(f, row) = "true" PROVE TruthOf(Implies(f, g), row) = TruthOf(g, row)
  <2>1. Not3(TruthOf(f, row)) = "false"
    BY <1>3 DEF Not3
  <2>2. {"false", TruthOf(g, row)} \in SUBSET TruthValues
    BY <1>2 DEF TruthValues
  <2>3. Or3({"false", TruthOf(g, row)}) = TruthOf(g, row)
    BY <1>2, <2>2, TruthTables DEF TruthValues
  <2> QED
    BY <1>1, <2>1, <2>3
<1>4. ASSUME TruthOf(f, row) = "false" PROVE TruthOf(Implies(f, g), row) = "true"
  <2>1. Not3(TruthOf(f, row)) = "true"
    BY <1>4 DEF Not3
  <2>2. {"true", TruthOf(g, row)} \in SUBSET TruthValues
    BY <1>2 DEF TruthValues
  <2>3. Or3({"true", TruthOf(g, row)}) = "true"
    BY <2>2, TruthTables
  <2> QED
    BY <1>1, <2>1, <2>3
<1> QED
  BY <1>3, <1>4

\* A filter that is not an expression, made one.
LEMMA WrappedTruth ==
  ASSUME NEW f \in QueryFilters, NEW row \in QueryRows, Expression(f) \in QueryFilters
  PROVE  TruthOf(Expression(f), row) = TruthOf(f, row)
<1>1. Expression(f).kind = "expression" /\ Expression(f).expr = <<f>>
  BY DEF Expression
<1>2. Len(<<f>>) = 1 /\ <<f>>[1] = f
  OBVIOUS
<1> QED
  BY <1>1, <1>2, ExpressionTruth

LEMMA PresenceTruth ==
  ASSUME NEW path, NEW row \in QueryRows, IsNull(path, FALSE) \in QueryFilters
  PROVE  TruthOf(IsNull(path, FALSE), row) = Truth(Field(row, path) # Missing)
<1> DEFINE f == IsNull(path, FALSE)
<1>1. f.kind = "isNull" /\ f.path = path /\ f.isNull = FALSE
  BY DEF IsNull
<1> HIDE DEF f
<1>2. FilterHolds(f, row, TruthOf) = IsNullHolds(f, Field(row, path))
  BY <1>1 DEF FilterHolds
<1>3. IsNullHolds(f, Field(row, path)) = Truth(Field(row, path) # Missing)
  BY <1>1 DEF IsNullHolds, Truth
<1>4. TruthOf(f, row) = FilterHolds(f, row, TruthOf)
  BY TruthAssumption DEF f
<1> QED
  BY <1>2, <1>3, <1>4 DEF f

\* What never is true is never true.
LEMMA UnsatisfiableTruth ==
  ASSUME NEW f \in QueryFilters, NEW row \in QueryRows, IsUnsatisfiable(f)
  PROVE  TruthOf(f, row) = "false"
BY ConstantTruth DEF IsUnsatisfiable, Truth

\* The existence of a field that may be NULL.
LEMMA ExistenceFilter ==
  ASSUME NEW path, ExistsFilters(path) # {}
  PROVE  (CHOOSE f \in ExistsFilters(path) : TRUE) = IsNull(path, FALSE)
<1>1. ExistsFilters(path) = {IsNull(path, FALSE)}
  BY DEF ExistsFilters
<1> QED
  BY <1>1

\* The filters that the filter of a property is made of.
PropertyParts(query, path, isRequired) ==
  {query.filter, IsNull(path, FALSE), Expression(IsNull(path, FALSE)),
   Negate(Expression(IsNull(path, FALSE))), PropertyFilter(query, path, isRequired)}

\* propertiesVisitor: a property that is not required is missing or what its schema
\* says.  No row is unknown for want of the property, so that none is lost or gained
\* if the filter is negated.
THEOREM OptionalProperty ==
  ASSUME NEW query, NEW path, NEW row \in QueryRows,
         query.filter.kind = "expression", ExistsFilters(path) # {},
         PropertyParts(query, path, FALSE) \subseteq QueryFilters
  PROVE  TruthOf(PropertyFilter(query, path, FALSE), row) =
           IF Field(row, path) = Missing THEN "true" ELSE TruthOf(query.filter, row)
<1> DEFINE exists == IsNull(path, FALSE)
<1>1. /\ query.filter \in QueryFilters /\ exists \in QueryFilters /\ Expression(exists) \in QueryFilters
      /\ Negate(Expression(exists)) \in QueryFilters /\ PropertyFilter(query, path, FALSE) \in QueryFilters
  BY DEF PropertyParts
<1>2. TruthOf(Expression(exists), row) = Truth(Field(row, path) # Missing)
  BY <1>1, WrappedTruth, PresenceTruth
<1>3. Expression(exists).kind = "expression"
  BY DEF Expression
<1>4. (CHOOSE f \in ExistsFilters(path) : TRUE) = exists
  BY ExistenceFilter
<1>5. CASE IsUnsatisfiable(query.filter)
  <2>1. PropertyFilter(query, path, FALSE) = Negate(Expression(exists))
    BY <1>4, <1>5 DEF PropertyFilter
  <2>2. TruthOf(Negate(Expression(exists)), row) = Not3(TruthOf(Expression(exists), row))
    BY <1>1, <1>3, NegatingKeepsUnknown
  <2>3. TruthOf(query.filter, row) = "false"
    BY <1>1, <1>5, UnsatisfiableTruth
  <2> QED
    BY <1>2, <2>1, <2>2, <2>3 DEF Not3, Truth
<1>6. CASE ~IsUnsatisfiable(query.filter)
  <2>1. PropertyFilter(query, path, FALSE) = Implies(Expression(exists), query.filter)
    BY <1>4, <1>6 DEF PropertyFilter
  <2>2. /\ TruthOf(Expression(exists), row) = "true" =>
             TruthOf(Implies(Expression(exists), query.filter), row) = TruthOf(query.filter, row)
        /\ TruthOf(Expression(exists), row) = "false" =>
             TruthOf(Implies(Expression(exists), query.filter), row) = "true"
    BY <1>1, <1>3, <2>1, ConditionalTruth
  <2> QED
    BY <1>2, <2>1, <2>2 DEF Truth
<1> QED
  BY <1>5, <1>6

\* propertiesVisitor: a property that is required is there and what its schema says.
\* Where its existence is not asked for, this needs that its filter implies it, as the
\* comment on filterImpliesExists has it (sql-query.ts:458-460), and that the filter is
\* not the constant false: of the former there are exceptions (RequiredExist).
THEOREM RequiredProperty ==
  ASSUME NEW query, NEW path, NEW row \in QueryRows,
         query.filter.kind = "expression", ExistsFilters(path) # {}, query.impliesExists \in BOOLEAN,
         PropertyParts(query, path, TRUE) \subseteq QueryFilters,
         query.impliesExists =>
           /\ ~IsUnsatisfiable(query.filter)
           /\ TruthOf(query.filter, row) = "true" => Field(row, path) # Missing
  PROVE  /\ TruthOf(PropertyFilter(query, path, TRUE), row) = "true" <=>
              Field(row, path) # Missing /\ TruthOf(query.filter, row) = "true"
         /\ ~query.impliesExists =>
              TruthOf(PropertyFilter(query, path, TRUE), row) =
                IF Field(row, path) = Missing THEN "false" ELSE TruthOf(query.filter, row)
<1> DEFINE exists == IsNull(path, FALSE)
<1>1. /\ query.filter \in QueryFilters /\ exists \in QueryFilters
      /\ PropertyFilter(query, path, TRUE) \in QueryFilters
  BY DEF PropertyParts
<1>2. TruthOf(exists, row) = Truth(Field(row, path) # Missing)
  BY <1>1, PresenceTruth
<1>3. (CHOOSE f \in ExistsFilters(path) : TRUE) = exists
  BY ExistenceFilter
<1>4. CASE query.impliesExists
  <2>1. PropertyFilter(query, path, TRUE) = query.filter
    BY <1>4 DEF PropertyFilter
  <2> QED
    BY <1>4, <2>1
<1>5. CASE ~query.impliesExists /\ IsUnsatisfiable(query.filter)
  <2>1. PropertyFilter(query, path, TRUE) = query.filter
    BY <1>5 DEF PropertyFilter
  <2>2. TruthOf(query.filter, row) = "false"
    BY <1>1, <1>5, UnsatisfiableTruth
  <2> QED
    BY <2>1, <2>2
<1>6. CASE ~query.impliesExists /\ ~IsUnsatisfiable(query.filter)
  <2>1. PropertyFilter(query, path, TRUE) = Combine("and", query.filter, exists)
    BY <1>3, <1>6 DEF PropertyFilter, And
  <2>2. TruthOf(Combine("and", query.filter, exists), row) =
          Join3("and", {TruthOf(query.filter, row), TruthOf(exists, row)})
    <3>1. Combine("and", query.filter, exists) \in QueryFilters
      BY <1>1, <2>1
    <3> HIDE DEF exists
    <3> QED
      BY <1>1, <3>1, CombiningKeepsTruth
  <2>3. TruthOf(query.filter, row) \in TruthValues
    BY <1>1, TruthAssumption
  <2>4. Join3("and", {TruthOf(query.filter, row), TruthOf(exists, row)}) =
          IF Field(row, path) = Missing THEN "false" ELSE TruthOf(query.filter, row)
    BY <1>2, <2>3 DEF Join3, And3, Truth, TruthValues
  <2> QED
    BY <2>1, <2>2, <2>4
<1> QED
  BY <1>4, <1>5, <1>6

-----------------------------------------------------------------------------
LEMMA CombinedKind ==
  ASSUME NEW op, NEW f \in QueryFilters, NEW g \in QueryFilters, f.kind = "expression"
  PROVE  Combine(op, f, g).kind = "expression"
<1>1. ASSUME NEW h \in QueryFilters, NEW e, h.kind = "expression"
      PROVE  [h EXCEPT !.optionalLinks = e].kind = "expression"
  <2>1. h = [kind |-> "expression", operator |-> h.operator, expr |-> h.expr, optionalLinks |-> h.optionalLinks]
    BY <1>1, FiltersAssumption
  <2> QED
    BY <2>1
<1>2. ASSUME NEW h \in QueryFilters, NEW e PROVE [IntoExpression(h) EXCEPT !.optionalLinks = e].kind = "expression"
  <2>1. CASE h.kind = "expression"
    BY <1>1, <2>1 DEF IntoExpression
  <2>2. CASE h.kind # "expression"
    BY <2>2 DEF IntoExpression, Expression
  <2> QED
    BY <2>1, <2>2
<1>3. ASSUME NEW c \in QueryFilters, NEW h \in QueryFilters, c.kind = "expression"
      PROVE  Fold(op, c, h).kind = "expression"
  <2>1. CASE IsNeutral(op, c)
    BY <1>2, <2>1 DEF Fold
  <2>2. CASE ~IsNeutral(op, c)
    BY <1>1, <1>3, <2>2 DEF Fold
  <2> QED
    BY <2>1, <2>2
<1>4. IsConstant(g) => g.kind = "expression"
  BY DEF IsConstant
<1> QED
  BY <1>3, <1>4 DEF Combine

\* The filters that a condition on types is made of.
TypeParts(path, types) ==
  LET number == And(Expression(Constant(TRUE)), IsOfTypes(path, {"number"}))
      rest == types \ {"integer"}
  IN {IsTypesFilter(path, types)}
     \cup (IF rest = {} THEN {} ELSE {IsOfTypes(path, rest)})
     \cup IF "integer" \notin types THEN {}
          ELSE {Expression(Constant(TRUE)), IsOfTypes(path, {"number"}), number,
                Limit(path, "multipleOf", 1), And(number, Limit(path, "multipleOf", 1))}

LEMMA OfTypesTruth ==
  ASSUME NEW path, NEW types, NEW row \in QueryRows, IsOfTypes(path, types) \in QueryFilters
  PROVE  TruthOf(IsOfTypes(path, types), row) = IfPresent(Field(row, path), Field(row, path).type \in types)
<1> DEFINE f == IsOfTypes(path, types)
<1>1. f.kind = "isOfTypes" /\ f.path = path /\ f.types = types
  BY DEF IsOfTypes
<1> HIDE DEF f
<1>2. FilterHolds(f, row, TruthOf) = IsOfTypesHolds(f, Field(row, path))
  BY <1>1 DEF FilterHolds
<1>3. TruthOf(f, row) = FilterHolds(f, row, TruthOf)
  BY TruthAssumption DEF f
<1> QED
  BY <1>1, <1>2, <1>3 DEF f, IsOfTypesHolds

\* Whether a number is an integer, in halves.
LEMMA WholeTruth ==
  ASSUME NEW path, NEW row \in QueryRows, Limit(path, "multipleOf", 1) \in QueryFilters
  PROVE  TruthOf(Limit(path, "multipleOf", 1), row) =
           IF Field(row, path).type = "number" THEN Truth(IsInteger(Field(row, path))) ELSE "unknown"
<1> DEFINE f == Limit(path, "multipleOf", 1)
           v == Field(row, path)
<1>1. f.kind = "limit" /\ f.path = path /\ f.keyword = "multipleOf" /\ f.limit = 1
  BY DEF Limit
<1> HIDE DEF f, v
<1>2. FilterHolds(f, row, TruthOf) = LimitHolds(f, v)
  BY <1>1 DEF FilterHolds, v
<1>3. LimitedType(f.keyword) = "number"
  BY <1>1 DEF LimitedType
<1>4. LimitHolds(f, v) = IF v.type = "number" THEN Truth(IsMultipleOf(v, 1)) ELSE "unknown"
  <2>1. CASE v.type # "number"
    BY <1>3, <2>1 DEF LimitHolds
  <2>2. CASE v.type = "number"
    <3>1. LimitHolds(f, v) = Truth(IsMultipleOf(v, f.limit))
      BY <1>1, <1>3, <2>2 DEF LimitHolds
    <3> QED
      BY <1>1, <2>2, <3>1
  <2> QED
    BY <2>1, <2>2
<1>5. v.type = "number" => IsMultipleOf(v, 1) = IsInteger(v)
  BY DEF IsMultipleOf, IsInteger
<1>6. TruthOf(f, row) = FilterHolds(f, row, TruthOf)
  BY TruthAssumption DEF f
<1> QED
  BY <1>2, <1>4, <1>5, <1>6 DEF f, v

\* getIsTypesFilter: a condition on the types of a field of the data is unknown if there is no
\* field, and says of a field whether it is of one of the types, the integers among
\* the numbers included.
THEOREM TypesAreChecked ==
  ASSUME NEW path, NEW types \in SUBSET AllTypes, NEW row \in QueryRows,
         IsJson(path), types # {}, TypeParts(path, types) \subseteq QueryFilters
  PROVE  TruthOf(IsTypesFilter(path, types), row) =
           IfPresent(Field(row, path), \E t \in types : IsOfType(Field(row, path), t))
<1> DEFINE v == Field(row, path)
           rest == types \ {"integer"}
           true == Expression(Constant(TRUE))
           number == And(true, IsOfTypes(path, {"number"}))
           whole == Limit(path, "multipleOf", 1)
           integer == And(number, whole)
<1>1. CASE "integer" \notin types
  <2>1. rest = types /\ IsTypesFilter(path, types) = Expression(IsOfTypes(path, types))
    BY <1>1 DEF IsTypesFilter
  <2>2. IsOfTypes(path, types) \in QueryFilters /\ Expression(IsOfTypes(path, types)) \in QueryFilters
    BY <2>1 DEF TypeParts
  <2>3. v.type \in types <=> \E t \in types : IsOfType(v, t)
    BY <1>1 DEF IsOfType
  <2>4. TruthOf(IsTypesFilter(path, types), row) = IfPresent(v, v.type \in types)
    BY <2>1, <2>2, WrappedTruth, OfTypesTruth
  <2> QED
    BY <2>3, <2>4 DEF IfPresent, Truth
<1>2. CASE "integer" \in types
  <2>1. /\ true \in QueryFilters /\ IsOfTypes(path, {"number"}) \in QueryFilters /\ number \in QueryFilters
        /\ whole \in QueryFilters /\ integer \in QueryFilters
        /\ IsTypesFilter(path, types) \in QueryFilters
        /\ rest # {} => IsOfTypes(path, rest) \in QueryFilters
    BY <1>2 DEF TypeParts
  <2>2. IsTypesFilter(path, types) = IF rest = {} THEN integer ELSE Or(integer, IsOfTypes(path, rest))
    BY <1>2 DEF IsTypesFilter
  <2>3. TruthOf(number, row) = IfPresent(v, v.type = "number")
    <3>1. true.kind = "expression" /\ IsConstant(true) /\ true.expr[1].value = TRUE
      BY DEF Expression, Constant, IsConstant
    <3>2. TruthOf(true, row) = "true"
      BY <2>1, <3>1, ConstantTruth DEF Truth
    <3>3. TruthOf(IsOfTypes(path, {"number"}), row) = IfPresent(v, v.type = "number")
      BY <2>1, OfTypesTruth
    <3>4. number = Combine("and", true, IsOfTypes(path, {"number"}))
      BY DEF And
    <3>5. TruthOf(number, row) = Join3("and", {"true", IfPresent(v, v.type = "number")})
      <4> HIDE DEF true, number
      <4> QED
        BY <2>1, <3>1, <3>2, <3>3, <3>4, CombiningKeepsTruth
    <3> QED
      BY <3>5 DEF Join3, And3, IfPresent, Truth
  <2>4. number.kind = "expression"
    BY DEF And, Combine, Expression, Constant, IsConstant, Fold, IsNeutral, IntoExpression, IsOfTypes
  <2>5. TruthOf(integer, row) = IfPresent(v, IsInteger(v))
    <3>1. integer = Combine("and", number, whole)
      BY DEF And
    <3>2. TruthOf(integer, row) = Join3("and", {TruthOf(number, row), TruthOf(whole, row)})
      <4> HIDE DEF number, whole
      <4> QED
        BY <2>1, <2>4, <3>1, CombiningKeepsTruth
    <3>3. TruthOf(whole, row) = IF v.type = "number" THEN Truth(IsInteger(v)) ELSE "unknown"
      BY <2>1, WholeTruth
    <3>4. Missing.type # "number"
      BY DEF Missing
    <3> HIDE DEF v, integer, number, whole
    <3> QED
      BY <2>3, <3>2, <3>3, <3>4 DEF Join3, And3, IfPresent, Truth, IsInteger
  <2>6. CASE rest = {}
    <3>1. types = {"integer"}
      BY <1>2, <2>6
    <3>2. (\E t \in types : IsOfType(v, t)) <=> IsInteger(v)
      BY <3>1 DEF IsOfType
    <3>3. TruthOf(IsTypesFilter(path, types), row) = IfPresent(v, IsInteger(v))
      BY <2>2, <2>5, <2>6
    <3> HIDE DEF v
    <3> QED
      <4>1. CASE IsInteger(v)
        BY <3>2, <3>3, <4>1 DEF v, IfPresent, Truth
      <4>2. CASE ~IsInteger(v)
        BY <3>2, <3>3, <4>2 DEF v, IfPresent, Truth
      <4> QED
        BY <4>1, <4>2
  <2>7. CASE rest # {}
    <3>1. TruthOf(IsOfTypes(path, rest), row) = IfPresent(v, v.type \in rest)
      BY <2>1, <2>7, OfTypesTruth
    <3>2. integer.kind = "expression"
      <4> HIDE DEF number, whole
      <4> QED
        BY <2>1, <2>4, CombinedKind DEF And
    <3>3. IsTypesFilter(path, types) = Combine("or", integer, IsOfTypes(path, rest))
      BY <2>2, <2>7 DEF Or
    <3>4. TruthOf(IsTypesFilter(path, types), row) = Join3("or", {TruthOf(integer, row), TruthOf(IsOfTypes(path, rest), row)})
      <4> HIDE DEF integer, rest
      <4> QED
        BY <2>1, <2>7, <3>2, <3>3, CombiningKeepsTruth
    <3>5. (\E t \in types : IsOfType(v, t)) <=> IsInteger(v) \/ v.type \in rest
      BY <1>2 DEF IsOfType
    <3>6. {IfPresent(v, IsInteger(v)), IfPresent(v, v.type \in rest)} \in SUBSET TruthValues
      BY DEF IfPresent, Truth, TruthValues
    <3>7. Or3({IfPresent(v, IsInteger(v)), IfPresent(v, v.type \in rest)}) =
            IfPresent(v, IsInteger(v) \/ v.type \in rest)
      BY <3>6, TruthTables DEF IfPresent, Truth
    <3> QED
      BY <2>5, <3>1, <3>4, <3>5, <3>7 DEF Join3
  <2> QED
    BY <2>6, <2>7
<1> QED
  BY <1>1, <1>2

\* ifTypeThen: a keyword for one type says nothing of a field of another type, and what it
\* says of one of its type is not changed, under a negation either.  Types are compared
\* by name, so that "number" has to be among them if "integer" is.
THEOREM OtherTypesPass ==
  ASSUME NEW path, NEW types \in SUBSET AllTypes, NEW type \in {"string", "number", "array", "object"},
         NEW f \in QueryFilters, NEW row \in QueryRows,
         IsJson(path), Field(row, path) # Missing, \E t \in types : IsOfType(Field(row, path), t),
         type = "number" /\ "integer" \in types => "number" \in types,
         TypeParts(path, {type}) \cup {Expression(Constant(TRUE)), Constant(TRUE), IfTypeThen(path, types, type, f),
           Negate(IsTypesFilter(path, {type}))} \subseteq QueryFilters
  PROVE  TruthOf(IfTypeThen(path, types, type, f), row) =
           IF Field(row, path).type = type THEN TruthOf(f, row) ELSE "true"
<1> DEFINE v == Field(row, path)
           condition == IsTypesFilter(path, {type})
<1>1. CASE types = {type}
  <2>1. IfTypeThen(path, types, type, f) = f
    BY <1>1 DEF IfTypeThen
  <2>2. v.type = type
    BY <1>1 DEF IsOfType
  <2> QED
    BY <2>1, <2>2
<1>2. CASE types # {type} /\ type \notin types
  <2>1. IfTypeThen(path, types, type, f) = Expression(Constant(TRUE))
    BY <1>2 DEF IfTypeThen
  <2>2. v.type # type
    BY <1>2 DEF IsOfType, IsInteger
  <2>3. TruthOf(Expression(Constant(TRUE)), row) = "true"
    <3>1. IsConstant(Expression(Constant(TRUE))) /\ Expression(Constant(TRUE)).expr[1].value = TRUE
      BY DEF Expression, Constant, IsConstant
    <3>2. Expression(Constant(TRUE)) \in QueryFilters
      OBVIOUS
    <3> QED
      BY <3>1, <3>2, ConstantTruth DEF Truth
  <2> QED
    BY <2>1, <2>2, <2>3
<1>3. CASE types # {type} /\ type \in types
  <2>1. IfTypeThen(path, types, type, f) = Implies(condition, f)
    BY <1>3 DEF IfTypeThen
  <2>2. condition \in QueryFilters /\ Negate(condition) \in QueryFilters /\ Implies(condition, f) \in QueryFilters
    BY <2>1 DEF TypeParts
  <2>3. condition.kind = "expression"
    BY DEF IsTypesFilter, Expression
  <2>4. TruthOf(condition, row) = Truth(v.type = type)
    <3>1. {type} \in SUBSET AllTypes /\ {type} # {}
      BY DEF AllTypes
    <3>2. TypeParts(path, {type}) \subseteq QueryFilters
      OBVIOUS
    <3>3. ASSUME NEW ts \in SUBSET AllTypes, ts # {}, TypeParts(path, ts) \subseteq QueryFilters
          PROVE  TruthOf(IsTypesFilter(path, ts), row) = IfPresent(v, \E t \in ts : IsOfType(v, t))
      BY <3>3, TypesAreChecked
    <3>4. TruthOf(condition, row) = IfPresent(v, \E t \in {type} : IsOfType(v, t))
      BY <3>1, <3>2, <3>3
    <3>5. (\E t \in {type} : IsOfType(v, t)) <=> v.type = type
      BY DEF IsOfType
    <3> HIDE DEF v
    <3> QED
      BY <3>4, <3>5 DEF v, IfPresent, Truth
  <2> HIDE DEF condition
  <2> QED
    BY <2>1, <2>2, <2>3, <2>4, ConditionalTruth DEF Truth
<1> QED
  BY <1>1, <1>2, <1>3

\* What a limit makes of a field of its type.
LEMMA LimitTruth ==
  ASSUME NEW path, NEW k \in Limits, NEW limit, NEW row \in QueryRows,
         Limit(path, k, limit) \in QueryFilters, Field(row, path).type = LimitedType(k)
  PROVE  TruthOf(Limit(path, k, limit), row) = Truth(Within(k, Size(Field(row, path)), limit))
<1> DEFINE f == Limit(path, k, limit)
           v == Field(row, path)
<1>1. f.kind = "limit" /\ f.path = path /\ f.keyword = k /\ f.limit = limit
  BY DEF Limit
<1>2. v.type = LimitedType(k)
  OBVIOUS
<1> HIDE DEF f, v
<1>3. FilterHolds(f, row, TruthOf) = LimitHolds(f, v)
  BY <1>1 DEF FilterHolds, v
<1>4. LimitHolds(f, v) = Truth(Within(k, Size(v), limit))
  <2>1. CASE k = "multipleOf"
    <3>1. v.type = "number" /\ Size(v) = v.halves
      BY <1>2, <2>1 DEF LimitedType, Size
    <3>2. Within(k, Size(v), limit) <=> IsMultipleOf(v, limit)
      BY <2>1, <3>1 DEF Within, IsMultipleOf
    <3>3. LimitHolds(f, v) = Truth(IsMultipleOf(v, limit))
      BY <1>1, <1>2, <2>1 DEF LimitHolds
    <3> QED
      BY <3>2, <3>3 DEF Truth
  <2>2. CASE k \in {"minLength", "maxLength"}
    <3>1. v.type = "string" /\ Size(v) = StringLength(v)
      BY <1>2, <2>2 DEF LimitedType, Size, StringLength
    <3> QED
      BY <1>1, <1>2, <2>2, <3>1 DEF LimitHolds
  <2>3. CASE k \in {"minItems", "maxItems"}
    <3>1. v.type = "array" /\ Size(v) = ArrayLength(v)
      BY <1>2, <2>3 DEF LimitedType, Size, ArrayLength
    <3> QED
      BY <1>1, <1>2, <2>3, <3>1 DEF LimitHolds
  <2>4. CASE k \in {"minProperties", "maxProperties"}
    <3>1. v.type = "object" /\ Size(v) = PropertyCount(v)
      BY <1>2, <2>4 DEF LimitedType, Size, PropertyCount
    <3> QED
      BY <1>1, <1>2, <2>4, <3>1 DEF LimitHolds
  <2>5. CASE k \in {"minimum", "maximum", "exclusiveMinimum", "exclusiveMaximum"}
    <3>1. v.type = "number" /\ Size(v) = ValueOf(v)
      BY <1>2, <2>5 DEF LimitedType, Size, ValueOf
    <3> QED
      BY <1>1, <1>2, <2>5, <3>1 DEF LimitHolds
  <2> QED
    BY <2>1, <2>2, <2>3, <2>4, <2>5, LimitsAre
<1>5. TruthOf(f, row) = FilterHolds(f, row, TruthOf)
  BY TruthAssumption DEF f
<1> QED
  BY <1>3, <1>4, <1>5 DEF f, v

\* The visitors of minimum to maxProperties: on a field that is there and of a type
\* that the schema allows, a limit selects what validates, and its negation the rest.
\* An integer has to be allowed as a number, or else its limits are dropped.
THEOREM LimitsSelectTheValid ==
  ASSUME NEW schema, NEW path, NEW k \in Limits, NEW row \in QueryRows, IsJson(path),
         Field(row, path) # Missing, \E t \in Types(schema, path) : IsOfType(Field(row, path), t),
         LimitedType(k) = "number" /\ "integer" \in Types(schema, path) => "number" \in Types(schema, path),
         TypeParts(path, {LimitedType(k)})
           \cup {Limit(path, k, schema[k]), LimitFilter(schema, path, k), Expression(Constant(TRUE)),
                 Constant(TRUE), Negate(IsTypesFilter(path, {LimitedType(k)}))} \subseteq QueryFilters
  PROVE  TruthOf(LimitFilter(schema, path, k), row) =
           Truth(Field(row, path).type = LimitedType(k) => Within(k, Size(Field(row, path)), schema[k]))
<1> DEFINE v == Field(row, path)
           f == Limit(path, k, schema[k])
           types == Types(schema, path)
           type == LimitedType(k)
<1>1. types \in SUBSET AllTypes
  BY DEF Types, TypesAt, AllTypes
<1>2. type \in {"string", "number", "array", "object"}
  BY DEF LimitedType
<1>3. LimitFilter(schema, path, k) = IfTypeThen(path, types, type, f)
  BY DEF LimitFilter
<1>4. f \in QueryFilters
  OBVIOUS
<1>5. /\ v # Missing /\ \E t \in types : IsOfType(v, t)
      /\ type = "number" /\ "integer" \in types => "number" \in types
      /\ TypeParts(path, {type}) \cup {Expression(Constant(TRUE)), Constant(TRUE), IfTypeThen(path, types, type, f),
           Negate(IsTypesFilter(path, {type}))} \subseteq QueryFilters
  BY <1>3
<1>6. TruthOf(IfTypeThen(path, types, type, f), row) = IF v.type = type THEN TruthOf(f, row) ELSE "true"
  <2> HIDE DEF f, types, type
  <2> QED
    BY <1>1, <1>2, <1>4, <1>5, OtherTypesPass
<1>7. v.type = type => TruthOf(f, row) = Truth(Within(k, Size(v), schema[k]))
  BY <1>4, LimitTruth
<1> HIDE DEF v, f, types, type
<1>8. CASE v.type = type
  BY <1>3, <1>6, <1>7, <1>8 DEF v, type, Truth
<1>9. CASE v.type # type
  BY <1>3, <1>6, <1>9 DEF v, type, Truth
<1> QED
  BY <1>8, <1>9
=============================================================================
