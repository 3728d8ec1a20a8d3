\* Three scopes on two connections: nested in each other, or waiting for connections.
CONSTANTS
  None = None
  Scopes = {s1, s2, s3}
  Connections = {c1, c2}
  MaxWrites = 1
SPECIFICATION Spec
INVARIANTS TypeOK AllOrNothing PoolIsClean UsableIsInnermost
PROPERTY CallsEnd
CHECK_DEADLOCK FALSE
