SPECIFICATION FairSpec
CONSTANTS
  d1 = d1
  v1 = v1
  v2 = v2
  g1 = g1
  Warnings <- MCWarnings
  SensorWarnings <- MCSensorFlags
  SensorFailure <- SF
  UnbuiltFlags = {"VoltageSensorFailure", "GpsInvalidConfig"}
  GpsSensors = {g1}
  Dht11Sensors = {d1}
  VoltageSensors = {v1, v2}
  Raised <- MCWarnings
  Cleared <- MCButSummary
INVARIANT SummaryKept
PROPERTY WarningsRecover
PROPERTY FailureReported
