\* The documented suggestions of a successful run.
CONSTANTS
  ann = ann  bob = bob  c1 = c1  c2 = c2  c3 = c3
  None = None
  Runs = {1}
  Requirements = {q1}
  Connectors = {c1, c2}
  Users = {ann}
  Owner <- OneOwner
  Protocol <- NewProtocol
  Modes = {"local"}
  Handlers = {h1, h2}
  DbFaults = FALSE
  Outcomes = {"failure", "invalid", "drafts"}
  Losses = FALSE
  Crashes = FALSE
SPECIFICATION Safety
INVARIANTS
  CompletedRunHasDrafts
\* Every run may be settled and every daemon revoked: the system may stop.
CHECK_DEADLOCK FALSE
