SPECIFICATION FairSpec
CONSTANTS
  Requests = {q1, q2}
  Stacks = {"airflow", "dagster"}
  Argv <- TargetFirst
  Bootstrap = TRUE
  Retries = 2
  WarnDays = 3
  DeadlineDays = 4
  SinceDays = 1
  MaxCrashes = 1
INVARIANTS
  QuietRun
  
  LateIsReported
  BackIsReported
PROPERTIES
  EventuallyCompleted
