\* Two contracts, one of which can be patched into the slug of the other.
CONSTANTS
  None = None
  Absent = Absent
  Missing = Missing
  Clients = {c1, c2}
  Slugs = {s1, s2}
  Ids = {i1, i2}
  Types = {t1}
  Data = {d1}
  Edits = {e1}
  SlugEdits = {s2}
SYMMETRY Symmetry
SPECIFICATION Spec
INVARIANTS TypeOK CacheIdentity
