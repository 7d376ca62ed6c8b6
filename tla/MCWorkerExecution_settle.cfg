\* One task through up to three host incarnations, cancel and shutdown.
SPECIFICATION FairSpec
CONSTANTS
  Tasks = {t1}
  NoTask = NoTask
  MaxStarts = 3
  MaxSubmits = 1
  Requests = {"cancel", "shutdown"}
  AutoResume = FALSE
  PromptStart = TRUE
\* The host may stay down once its incarnations are used up.
CHECK_DEADLOCK FALSE
INVARIANTS TypeOK SettledVerdict CancelWins WriteFence
PROPERTIES DeadWorkerSettles CancelStopsWorker ShutdownCompletes
