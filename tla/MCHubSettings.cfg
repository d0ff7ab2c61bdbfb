SPECIFICATION MCSpec
CONSTANTS
    Relay = {"r1"}
    Pin = {0, 4}
    Hard = {}
    InputOnly = {}
    Advisory = {0}
    Mode = {"AllowAdvisory"}
    MaxSensors = 2
    Slot = {1}
    SensorType = {"water", "presence"}
    WaterSensor = "water"
    GpioSlots <- MCGpioSlots
    OutputSlots <- MCOutputSlots
    RelayCount = 8
    RelayOrder <- MCRelayOrder
    Asked <- MCAsked
    HandWritten <- MCHandWritten
INVARIANTS
    DevicesApart
    ReadBackUnchanged
PROPERTIES
    NoPinTakenFromSensor
