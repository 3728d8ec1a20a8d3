\* One contract of two types, two patches of it, two calls at a time.
CONSTANTS
  None = None
  Absent = Absent
  Missing = Missing
  Clients = {c1, c2}
  Slugs = {s1}
  Ids = {i1}
  Types = {t1, t2}
  Data = {d1}
  Edits = {e1, e2}
  SlugEdits = {}
SPECIFICATION StaleSpec
INVARIANTS StaleOnlyAfterOverlap PatchOfCurrentRow
PROPERTIES ImplementsContractTable EventuallyCoherent LocksReleased
