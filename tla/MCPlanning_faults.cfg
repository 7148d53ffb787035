\* Both kinds of runs on one requirement, one daemon, with every database
\* call failing at will and the server dying between any two statements: of the
\* results a daemon may post, the one that takes the most of them.
CONSTANTS
  ann = ann  bob = bob  c1 = c1  c2 = c2  c3 = c3
  None = None
  Runs = {1, 2}
  Requirements = {q1}
  Connectors = {c1}
  Users = {ann}
  Owner <- OneOwner
  Protocol <- NewProtocol
  Modes = {"local", "server"}
  Handlers = {h1}
  DbFaults = TRUE
  Outcomes = {"drafts"}
  Losses = TRUE
  Crashes = TRUE
SPECIFICATION Safety
INVARIANTS
  TypeOK
  LeaseCoherence
  OneActivePerRequirement
\* Every run may be settled and every daemon revoked: the system may stop.
CHECK_DEADLOCK FALSE
