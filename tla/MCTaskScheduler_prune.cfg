\* A batch of two children and a task whose submission prunes the history.
SPECIFICATION Spec
CONSTANTS
  N = 4
  Sessions = {s1}
  MaxKids = 2
  MaxCancels = 0
  Kinds = {"task", "manual"}
  Workers = 1
  QueueLimit = 1
  KeepTerminal = 1
CHECK_DEADLOCK FALSE
PROPERTY RetainedWithBatch
