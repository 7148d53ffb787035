\* Two projects, a daemon that reaches both and one that reaches the second;
\* roles vanish, tasks are requeued and deleted, messages are lost.
CONSTANTS
  p1 = p1
  p2 = p2
  c2 = c2
  k2 = k2
  q1 = q1
  q2 = q2
  tA = tA
  ta = ta
  None = None
  Tasks = {1, 2}
  Projects = {p1, p2}
  Titles = {ta}
  Requirements = {q1, q2}
  Candidates = {k1, k2}
  Items = {}
  Roles = {r1}
  TaskEdits = {"delete"}
  Connectors = {c1, c2}
  Reach <- TwoUsers
  Posts = {h1}
  StaleDrainCap = 2
  Losses = TRUE
  Keys = {tA, ta}
  GoKey <- GoFolds
  SqlKey <- SqlFolds
  ReqOf <- TwoRequirements
  ProjectOf <- ProjectEach
  Edits = {}
  Applies = {a1}
  Patches = {}
  Faults = FALSE
  ItemEdits = {}
  Deploys = TRUE
  RequirementEdits = {}
SPECIFICATION Spec
INVARIANTS
  TypeOK
  SingleExecutor
  ResultOnlyWhenSettled
PROPERTIES
  SettledTaskIsFinal
  TaskQueueDrains
\* Users may stop asking: the system may stop.
CHECK_DEADLOCK FALSE
