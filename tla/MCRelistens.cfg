\* One instance, whose listening connection is lost.
CONSTANTS
  None = None
  old = old
  new = new
  Instances = {old}
  Streams = {s1}
  Release <- OldOnly
SPECIFICATION FairSpec
PROPERTY Relistens
