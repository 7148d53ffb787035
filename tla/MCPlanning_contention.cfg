\* One local run, pinned, bound or free, fought over by two daemons of one account,
\* the second on the older protocol, and one of another account, with two submit
\* requests: leases lapse, results are lost, a daemon is revoked, users cancel.
CONSTANTS
  ann = ann  bob = bob  c1 = c1  c2 = c2  c3 = c3
  None = None
  Runs = {1}
  Requirements = {q1}
  Connectors = {c1, c2, c3}
  Users = {ann, bob}
  Owner <- TwoOwners
  Protocol <- MixedProtocol
  Modes = {"local"}
  Handlers = {h1, h2}
  DbFaults = FALSE
  Outcomes = {"failure", "invalid", "drafts"}
  Losses = TRUE
  Crashes = FALSE
SPECIFICATION Contention
SYMMETRY HandlerSymmetry
INVARIANTS
  NoOrphanDrafts
  AuditNeverOverclaims
  DispatchEligibility
PROPERTIES
  SettledIsFinal
  ImplementsQueue
\* Every run may be settled and every daemon revoked: the system may stop.
CHECK_DEADLOCK FALSE
