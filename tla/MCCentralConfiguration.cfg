\* Three disposing threads, two concurrent deliveries of any of the documents;
\* nothing is assumed of StartAsync.
SPECIFICATION ListenerFairSpec
CONSTANTS
  Disposers = {d1, d2, d3}
  Deliverers = {h1, h2}
  Configs <- MCConfigs
  NoConfig = NoConfig
  Words = {"debug", "info"}
  Documents <- MCDocuments
  Blanks = {0, 2}
INVARIANTS
  TypeOK
  NoCleanupDuringStart
  SingleTeardown
  RetainedClientStarted
  FailedStartCleanedUp
  CompletedWaitHasConfig
  ServerLevelReceived
PROPERTIES
  BootstrapContinues
  DisposeCompletes
  WorkerEnds
\* The threads run to their end and then the system stops.
CHECK_DEADLOCK FALSE
