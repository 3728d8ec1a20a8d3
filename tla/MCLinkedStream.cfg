\* Two roots, one of which may be linked to itself and from the other one, one push at a
\* time, a schema that may be changed to one that accepts nothing.
CONSTANTS
  None = None
  in = in
  out = out
  Roots = {r1, r2}
  Leaves = {r2}
  Values = {in, out}
  Schemas <- OneOrNothing
  TraversesLinks = TRUE
  Pushes = {p1}
  MaxNotices = 1
SPECIFICATION FreshSpec
INVARIANTS TypeOK SeenIsHeld RightAtRest
PROPERTIES TreeIsTracked
