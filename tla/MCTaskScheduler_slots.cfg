\* Up to four tasks, batches and children, and one cancel.
SPECIFICATION FairSpec
CONSTANTS
  N = 4
  Sessions = {s1}
  MaxKids = 2
  MaxCancels = 1
  Kinds = {"task", "manual", "auto"}
  Workers = 1
  QueueLimit = 1
  KeepTerminal = 1
CHECK_DEADLOCK FALSE
INVARIANTS SchedulerInv SlotExclusion NoDeadSlot SubmittedOnce DurableVerdict
PROPERTIES FinalIsFinal EverythingEnds
