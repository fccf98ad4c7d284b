SPECIFICATION Spec
CONSTANTS
  Sources = {"trades", "transactions"}
  LastDay = 3
  Deployments = {"airflow", "schedule", "sensor"}
  MaxRefreshes = 1
  Swept <- MCSwept
  Tested <- MCTested
  Builders = {dag, operator}
  Governed = {operator}
  Configs <- MCConfigs
  Regions = {"UK", "APAC"}
  MaxApplies = 1
  Subject = {s1, s2}
  Others = {o1}
  Local <- Summer
  MaxCommits = 5
  Clients = {c1, c2}
  Values = {v1, bad}
  Bad = bad
  Gone = Gone
  Absent = Absent
  Specs <- MCSpecs
  Batches = {r1, r2}
  Writers = {w1, w2}
  BatchSize = 2
  MaxChanges = 1
  Subjects = {ann, bob}
  Keys = {k1, k2, k3}
  Callers = {p1, p2}
  NoSubject = NoSubject
  NoKey = NoKey
INVARIANTS
  NeverSilentlyOpen
CHECK_DEADLOCK FALSE
