\* Lines queued when Dispose starts (violated).
SPECIFICATION Spec
CONSTANTS
  Loggers = {l1}
  Disposers = {d1, d2}
  MaxLines = 1
INVARIANT RemainingLinesFlushed
\* The threads run to their end and then the system stops.
CHECK_DEADLOCK FALSE
