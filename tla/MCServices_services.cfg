\* Two requests at a time on two connectors, one with a daemon; two edits of two
\* bindings; two scans of a repository; two reports and two streams; two
\* subscribers; contexts of one or two items of each source.
CONSTANTS
  None = None
  t1 = t1
  t2 = t2
  n1 = n1
  n2 = n2
  Txs = {t1, t2}
  Live = {c1}
  Faults = TRUE
  Connectors = {c1, c2}
  Sessions = {s1}
  Bindings = {b1}
  Probes = {1}
  MaxPendingProbes = 1
  ConfigIds = {i1}
  Labels = {la}
  MaxCliConfigs = 1
  BindingIds = {n1, n2}
  Providers = {claude, codex}
  Namespace <- CliNamespace
  BindingLabels = {la}
  Edits = {t1, t2}
  ActiveFlags = {"yes", "no", "unset"}
  PrimaryFlags = {"yes", "unset"}
  LocalMode = TRUE
  Commits = {1}
  Docs = {"d"}
  Scans = {t1, t2}
  NoScan = NoScan
  FileOf <- OneFile
  Noisy = {}
  DocsFor <- OneDocument
  FirstWindow = 1
  StaleDays = 1
  ZoneOffset = 0
  MaxClock = 3
  PostedTriggers = {"code_change"}
  MaxPosted = 1
  SyncFaults = TRUE
  Phases = {"idle", "busy"}
  Idle = "idle"
  MaxReports = 2
  Posts = {t1, t2}
  Streams = {n1, n2}
  MaxStreams = 1
  Buffer = 1
  NoActivity = NoActivity
  Subscribers = {n1, n2}
  Publications = {t1, t2}
  ChannelSize = 1
  Empty = Empty
  NoBuild = NoBuild
  SourceLimit <- TwoTasksAndDocuments
  SampleLimit = 1
  MaxRows <- TwoRows
  MaxScans = 2
  Sizes <- OneMeasure
  Scaffolding = 1
  SyncKeyBytes = 1
  MaxSourcesBytes = 25
SPECIFICATION ServicesSpec
SYMMETRY ServicesSymmetry
INVARIANTS
  CodeUsedOnce
  NoConflictAlone
  ChangesAreFlagged
  OneSignalPerScan
  NewestIsOnItsWay
  StreamIsCurrent
  ListIsExact
  CutIsFair
  SignalsBehindScan
PROPERTIES
  RevokedIsFinal
  ImplementsRegistry
  QuietEditsKeepSelection
\* Users may stop asking: the system may stop.
CHECK_DEADLOCK FALSE
