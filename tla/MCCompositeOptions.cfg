\* All sources, valid and invalid values, any number of bootstraps.
SPECIFICATION Spec
CONSTANTS
  Null = Null
  Inputs <- MCInputs
  Instrumentations <- MCInstrumentations
  CentralLevels = {"Debug", "None", "bad"}
INVARIANTS
  TypeOK
  Precedence
  ServiceIdentity
  SignalsFollowSwitches
  LoggingAskedFor
PROPERTY OpAmpIdentityKept
