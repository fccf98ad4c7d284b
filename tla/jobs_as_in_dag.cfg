SPECIFICATION FairSpec
CONSTANTS
  Requests = {q1}
  Stacks = {"airflow"}
  Argv <- AsInDag
  Bootstrap = TRUE
  Retries = 2
  WarnDays = 3
  DeadlineDays = 4
  SinceDays = 1
  MaxCrashes = 0
PROPERTIES
  AlwaysGetsThere
