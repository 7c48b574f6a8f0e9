\* Three logging threads with a line each, two disposing threads; nothing is
\* assumed of the writing task.
SPECIFICATION FairSpec
CONSTANTS
  Loggers = {l1, l2, l3}
  Disposers = {d1, d2}
  MaxLines = 1
INVARIANTS
  TypeOK
  LinesConserved
  NoLostWakeup
  WriterSurvivesDispose
  DisposeOnce
PROPERTIES
  LinesWritten
  DisposeEnds
\* The threads run to their end and then the system stops.
CHECK_DEADLOCK FALSE
