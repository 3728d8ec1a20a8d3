\* A root with two leaves, one of which stops matching.
CONSTANTS
  None = None
  in = in
  out = out
  Roots = {r1}
  Leaves = {l1, l2}
  Values = {in, out}
  Schemas <- OneSchema
  TraversesLinks = TRUE
  Pushes = {p1}
  MaxNotices = 1
  Handlers = {h1, h2}
SPECIFICATION FamilySpec
PROPERTY UnmatchMeansNoMatch
