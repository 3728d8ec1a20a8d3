\* One relationship that is active or not, three pushes at once, three notices.
CONSTANTS
  None = None
  in = in
  out = out
  Roots = {r1}
  Leaves = {}
  Values = {in, out}
  Schemas <- OneSchema
  TraversesLinks = FALSE
  Pushes = {p1, p2, p3}
  MaxNotices = 3
SPECIFICATION KernelSpec
INVARIANTS KernelTypeOK RelationshipsAreRight
PROPERTIES KernelSettles InsertIsNew
