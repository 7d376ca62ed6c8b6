\* A crashed host resumes its interrupted task under a new id.
SPECIFICATION Spec
CONSTANTS
  Tasks = {t1, t2}
  NoTask = NoTask
  MaxStarts = 2
  MaxSubmits = 1
  Requests = {"cancel"}
  AutoResume = TRUE
  PromptStart = TRUE
\* The host may stay down once its incarnations are used up.
CHECK_DEADLOCK FALSE
SYMMETRY Copies
INVARIANT OneWatchedWorker
