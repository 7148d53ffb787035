\* An item that may name the candidate, committed while its status is patched,
\* with an apply, edits of the tasks and a requirement deletion.
CONSTANTS
  p1 = p1
  p2 = p2
  c2 = c2
  k2 = k2
  q1 = q1
  q2 = q2
  tA = tA
  ta = ta
  None = None
  Tasks = {1, 2}
  Projects = {p1}
  Titles = {ta}
  Requirements = {q1}
  Candidates = {k1}
  Items = {i1}
  Roles = {r1}
  TaskEdits = {"close", "create", "rename", "reopen", "delete"}
  Connectors = {}
  Reach <- AllReached
  Posts = {}
  StaleDrainCap = 1
  Losses = FALSE
  Keys = {tA, ta}
  GoKey <- GoFolds
  SqlKey <- SqlFolds
  ReqOf <- OneRequirement
  ProjectOf <- ProjectEach
  Edits = {e1}
  Applies = {a1}
  Patches = {"role"}
  Faults = TRUE
  ItemEdits = {e1}
  Deploys = FALSE
  RequirementEdits = {"delete", "status"}
SPECIFICATION Safety
INVARIANTS
  CommittedOnce
\* Users may stop asking: the system may stop.
CHECK_DEADLOCK FALSE
