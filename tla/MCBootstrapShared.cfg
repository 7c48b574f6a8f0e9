\* Two calls, one after the other, with the same options (violated).
SPECIFICATION Spec
CONSTANTS
  t1 = t1  t2 = t2
  b1 = b1  b2 = b2  b3 = b3
  s1 = s1
  Threads = {t1}
  Builders = {b1, b3}
  NoBuilder = NoBuilder
  Services = {s1}
  NoServices = NoServices
  ServicesOf <- MCServicesOf
  Keys = {"plain", "opamp", "off"}
  DefaultKey = "plain"
  OpAmp = {"opamp"}
  Named = {}
  Attributed = {"opamp"}
  NoSignals = {"off"}
  NoThread = NoThread
  MaxCalls = 2
INVARIANT SharedComponentsFound
\* The threads run to their end and then the system stops.
CHECK_DEADLOCK FALSE
