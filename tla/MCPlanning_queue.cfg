\* Two runs, with and without a binding or a pin, and one daemon from before
\* account bindings: it answers or loses what it gets.
CONSTANTS
  ann = ann  bob = bob  c1 = c1  c2 = c2  c3 = c3
  None = None
  Runs = {1, 2}
  Requirements = {q1, q2}
  Connectors = {c2}
  Users = {ann}
  Owner <- OneOwner
  Protocol <- MixedProtocol
  Modes = {"local"}
  Handlers = {h1}
  DbFaults = FALSE
  Outcomes = {"failure"}
  Losses = TRUE
  Crashes = FALSE
SPECIFICATION Spec
PROPERTIES
  QueueDrains
  ImplementsQueue
  LapsedLeaseIsReclaimed
\* Every run may be settled and every daemon revoked: the system may stop.
CHECK_DEADLOCK FALSE
