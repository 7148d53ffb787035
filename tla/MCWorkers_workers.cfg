\* One request at a time, one connector, two probes of one binding; up to three
\* pieces of output and caps of two; one requirement and two lines of failed runs;
\* one administrator, one model.
CONSTANTS
  None = None
  Txs = {t1}
  Live = {c1}
  Faults = TRUE
  Connectors = {c1}
  Sessions = {s1}
  Bindings = {b1}
  Probes = {1, 2}
  MaxPendingProbes = 1
  ConfigIds = {i1}
  Labels = {la}
  MaxCliConfigs = 1
  Size = 3
  MaxOutput = 2
  AdapterMaxOutput = 2
  HasTimeout = TRUE
  Pending = Pending
  RankingProviders = {"deterministic", "openai-compatible"}
  RankedRequirements <- OneRequirement
  MaxDuplicates = 1
  FailureSample = 2
  ActivitySample = 1
  NoChoice = NoChoice
  Models = {"m1"}
  Admins = {e1}
  ModelLists <- NoneOrOneModel
SPECIFICATION WorkersSpec
INVARIANTS
  OneProbePerBinding
  SuccessIsWhole
  CallIsAsRecorded
PROPERTIES
  AnswersAreFinal
  DuplicatesNeverHelp
  TroubleRaisesValidation
  ProbesAreAnswered
  InvocationEnds
CHECK_DEADLOCK FALSE
