\* The switch of the metrics (violated).
SPECIFICATION Spec
CONSTANTS
  Null = Null
  Inputs <- SwitchInputs
  Instrumentations <- MCInstrumentations
  CentralLevels = {"Debug", "None", "bad"}
INVARIANT MetricsSwitchRespected
