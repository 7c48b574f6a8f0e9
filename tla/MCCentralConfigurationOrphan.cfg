\* The orphaned client of a late success (violated); the server sends nothing.
SPECIFICATION ListenerSpec
CONSTANTS
  Disposers = {d1, d2}
  Deliverers = {h1}
  Configs = {c1}
  NoConfig = NoConfig
  Words = {}
  Documents = {}
  Blanks = {0}
INVARIANT OrphanCleanedUp
\* The threads run to their end and then the system stops.
CHECK_DEADLOCK FALSE
