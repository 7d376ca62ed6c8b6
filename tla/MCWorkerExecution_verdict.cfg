\* One task, two host incarnations: the trace that breaks CommittedVerdictKept.
SPECIFICATION Spec
CONSTANTS
  Tasks = {t1}
  NoTask = NoTask
  MaxStarts = 2
  MaxSubmits = 1
  Requests = {"cancel", "shutdown"}
  AutoResume = FALSE
  PromptStart = TRUE
CHECK_DEADLOCK FALSE
PROPERTY CommittedVerdictKept
