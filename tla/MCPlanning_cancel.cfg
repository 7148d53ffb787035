\* The documented finality of a cancelled run, for server runs.
CONSTANTS
  ann = ann  bob = bob  c1 = c1  c2 = c2  c3 = c3
  None = None
  Runs = {1}
  Requirements = {q1}
  Connectors = {c1}
  Users = {ann}
  Owner <- OneOwner
  Protocol <- NewProtocol
  Modes = {"server"}
  Handlers = {h1}
  DbFaults = FALSE
  Outcomes = {"failure", "invalid", "drafts"}
  Losses = FALSE
  Crashes = FALSE
SPECIFICATION Safety
PROPERTIES
  CancelledIsTerminal
\* Every run may be settled and every daemon revoked: the system may stop.
CHECK_DEADLOCK FALSE
