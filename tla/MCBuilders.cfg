\* Three calls, nested or one after the other, with four settings.
SPECIFICATION Spec
CONSTANTS
  SignalOrder <- MCSignalOrder
  Settings    <- MCSettings
  Default     <- MCAll
  Null        = Null
  MaxCalls    = 3
  MaxAdditions = 2
INVARIANTS
  ExportedOnce
  CustomisedInBetween
\* The application makes its calls and then the system stops.
CHECK_DEADLOCK FALSE
