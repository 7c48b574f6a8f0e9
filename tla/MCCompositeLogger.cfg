\* Two logging threads with an entry each, two bootstrap threads, the timer, Dispose.
SPECIFICATION FairSpec
CONSTANTS
  Loggers = {l1, l2}
  Activators = {a1, a2}
  MaxEntries = 1
INVARIANTS
  TypeOK
  EntriesConserved
  NoEntryLost
  NoStrandedEntries
  SingleActivation
PROPERTIES
  DeferralEnds
  ImplementsAbstractLogger
\* The threads run to their end and then the system stops.
CHECK_DEADLOCK FALSE
