\* Two roots with a leaf in common, one of them with another leaf.
CONSTANTS
  None = None
  in = in
  out = out
  Roots = {r1, r2}
  Leaves = {l1, l2}
  Values = {in, out}
  Schemas <- OneSchema
  TraversesLinks = TRUE
  Pushes = {p1}
  MaxNotices = 1
SYMMETRY Symmetry
SPECIFICATION FreshSpec
PROPERTY UnmatchesEachRoot
