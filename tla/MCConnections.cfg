\* An old and a new release that start, fail and restart on one database.
CONSTANTS
  None = None
  old = old
  new = new
  Instances = {old, new}
  Streams = {s1}
  Release <- OldAndNew
SPECIFICATION FairSpec
INVARIANTS StreamsAreFed ConnectedIsMigrated
PROPERTIES NeverDowngraded AttemptsEnd
