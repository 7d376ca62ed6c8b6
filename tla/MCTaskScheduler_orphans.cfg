\* A batch that is cancelled while submit_batch creates its child.
SPECIFICATION FairSpec
CONSTANTS
  N = 2
  Sessions = {s1}
  MaxKids = 1
  MaxCancels = 1
  Kinds = {"manual"}
  Workers = 1
  QueueLimit = 1
  KeepTerminal = 1
CHECK_DEADLOCK FALSE
PROPERTY CancelReachesChildren
