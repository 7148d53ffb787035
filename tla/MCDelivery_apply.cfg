\* Two candidates of one requirement that may share a title, in two spellings;
\* titles and statuses are edited while two applies run.
CONSTANTS
  p1 = p1
  p2 = p2
  c2 = c2
  k2 = k2
  q1 = q1
  q2 = q2
  tA = tA
  ta = ta
  None = None
  Tasks = {1, 2}
  Projects = {p1}
  Titles = {tA, ta}
  Requirements = {q1}
  Candidates = {k1, k2}
  Items = {}
  Roles = {}
  TaskEdits = {}
  Connectors = {}
  Reach <- AllReached
  Posts = {}
  StaleDrainCap = 1
  Losses = FALSE
  Keys = {tA, ta}
  GoKey <- GoFolds
  SqlKey <- SqlFolds
  ReqOf <- OneRequirement
  ProjectOf <- ProjectEach
  Edits = {e1}
  Applies = {a1, a2}
  Patches = {"title", "status"}
  Faults = FALSE
  ItemEdits = {}
  Deploys = FALSE
  RequirementEdits = {}
SPECIFICATION Spec
INVARIANTS
  AppliedOnce
  OneOpenTaskPerTitle
PROPERTIES
  ApplyIsAnswered
\* Users may stop asking: the system may stop.
CHECK_DEADLOCK FALSE
