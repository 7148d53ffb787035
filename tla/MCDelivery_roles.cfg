\* What the documentation promises and the code does not keep.
CONSTANTS
  p1 = p1
  p2 = p2
  c2 = c2
  k2 = k2
  q1 = q1
  q2 = q2
  tA = tA
  ta = ta
  None = None
  Tasks = {1, 2, 3}
  Projects = {p1}
  Titles = {ta}
  Requirements = {q1}
  Candidates = {k1}
  Items = {}
  Roles = {r1}
  TaskEdits = {}
  Connectors = {}
  Reach <- AllReached
  Posts = {}
  StaleDrainCap = 1
  Losses = FALSE
  Keys = {tA, ta}
  GoKey <- GoFolds
  SqlKey <- SqlFolds
  ReqOf <- OneRequirement
  ProjectOf <- ProjectEach
  Edits = {e1, e2}
  Applies = {a1}
  Patches = {"status", "role"}
  Faults = FALSE
  ItemEdits = {}
  Deploys = FALSE
  RequirementEdits = {}
SPECIFICATION Safety
PROPERTIES
  RoleChangeIsAudited
\* Users may stop asking: the system may stop.
CHECK_DEADLOCK FALSE
