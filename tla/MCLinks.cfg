\* A user with one dependent, and another link of the user under the same name.
CONSTANTS
  None = None
  Absent = Absent
  Gone = Gone
  user = user
  settings = settings
  link = link
  other = other
  otherLink = otherLink
  Calls = {k1, k2}
  Ends = {user, settings, other}
  Requested = {user, otherLink}
  Existing = {other}
  MaxCalls = 3
  LinkData <- UserLinks
  Dependents <- UserDependents
SYMMETRY Symmetry
SPECIFICATION Spec
INVARIANTS TypeOK RowsFollowLinks LinksAreMaterialized DependentsFollowUser
PROPERTY FirstLinkIsKept
CHECK_DEADLOCK FALSE
