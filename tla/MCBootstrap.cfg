\* Two concurrent calls on builders with and without services, four configurations.
SPECIFICATION Spec
CONSTANTS
  t1 = t1  t2 = t2
  b1 = b1  b2 = b2  b3 = b3
  s1 = s1
  Threads = {t1, t2}
  Builders = {b1, b2, b3}
  NoBuilder = NoBuilder
  Services = {s1}
  NoServices = NoServices
  ServicesOf <- MCServicesOf
  Keys = {"plain", "opamp", "nameless", "off"}
  DefaultKey = "plain"
  OpAmp = {"opamp", "nameless"}
  Named = {}
  Attributed = {"opamp"}
  NoSignals = {"off"}
  NoThread = NoThread
  MaxCalls = 2
SYMMETRY Symmetry
INVARIANTS
  TypeOK
  ConfiguredOnce
  OneComponentsPerServices
  LoggersNotShared
  SharedComponentsUsable
  RegistrationsProceed
\* The threads run to their end and then the system stops.
CHECK_DEADLOCK FALSE
