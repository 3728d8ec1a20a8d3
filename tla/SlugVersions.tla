----------------------------- MODULE SlugVersions -----------------------------
(***************************************************************************)
(* The versions of a slug, and the order by which slug@latest finds one.   *)
(***************************************************************************)
EXTENDS Naturals

CONSTANTS
  Versions,  \* the versions of a slug
  TextRank   \* how Postgres orders the texts of prereleases and builds

\* What parseVersion returns, but for 'latest'; a release has the prerelease ''.
Texts == DOMAIN TextRank
Version == [major: Nat, minor: Nat, patch: Nat, prerelease: Texts, build: Texts]

\* The order of texts is total, and '' comes first in it.
ASSUME VersionsAssumption ==
  /\ Versions \subseteq Version
  /\ TextRank \in [Texts -> Nat]
  /\ \A s, t \in Texts : TextRank[s] = TextRank[t] => s = t
  /\ "" \in Texts /\ TextRank[""] = 0

Column(v, column) == IF column \in {"prerelease", "build"} THEN TextRank[v[column]] ELSE v[column]

Columns == <<"prerelease", "major", "minor", "patch", "build">>

\* Variant: every column is in the direction asked for.
DescendingOrder == [i \in 1..5 |-> [column |-> Columns[i], desc |-> TRUE]]

\* createOrderByDefinitions, of 'version' descending: the columns in their order, and
\* the direction of each.
VersionOrder == [i \in 1..5 |-> [column |-> Columns[i], desc |-> Columns[i] # "prerelease"]]

\* The first column in which they differ decides.
Precedes(v, w) ==
  \E i \in 1..5 :
    LET a == Column(v, VersionOrder[i].column)
        b == Column(w, VersionOrder[i].column)
    IN /\ IF VersionOrder[i].desc THEN a > b ELSE a < b
       /\ \A j \in 1..(i - 1) : Column(v, VersionOrder[j].column) = Column(w, VersionOrder[j].column)

IsFirst(v, versions) == \A w \in versions \ {v} : Precedes(v, w)

\* getContractBySlug, of slug@latest: ORDER BY version LIMIT 1.
Latest(versions) == CHOOSE v \in versions : IsFirst(v, versions)

-----------------------------------------------------------------------------
NewerRelease(v, w) ==
  \/ v.major > w.major
  \/ v.major = w.major /\ v.minor > w.minor
  \/ v.major = w.major /\ v.minor = w.minor /\ v.patch > w.patch

Releases(versions) == {v \in versions : v.prerelease = ""}

\* It is the newest release if there is a release.
IsNewest(v, versions) ==
  Releases(versions) # {} => /\ v \in Releases(versions)
                             /\ \A w \in Releases(versions) : ~NewerRelease(w, v)
=============================================================================
