--------------------------- MODULE MCSensorWarnings ---------------------------
(* One GPS, one DHT11 and two voltage sensors; W4 clears every flag but    *)
(* the summary.                                                            *)
EXTENDS SensorWarnings
CONSTANTS d1, v1, v2, g1

SF == "SensorFailure"
MCSensorFlags == {TemperatureSensorFailure, LowVoltage, GpsFailure, SF,
                  "VoltageSensorFailure"}
MCWarnings == MCSensorFlags \cup {"GpsInvalidConfig"}
MCButSummary == MCWarnings \ {SF}
=============================================================================
