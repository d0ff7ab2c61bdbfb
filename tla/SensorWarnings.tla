---------------------------- MODULE SensorWarnings ----------------------------
(***************************************************************************)
(* The sensors that keep the warnings: what SensorFactory raises for those *)
(* it cannot build, and what each poll of a DHT11, a voltage or a GPS      *)
(* sensor raises and clears.  Sensors of one kind share a flag.  "good"    *)
(* is the world: whether a reading of the sensor would be in order.        *)
(***************************************************************************)
EXTENDS WarningManager

CONSTANTS
    Dht11Sensors, VoltageSensors, GpsSensors,
    UnbuiltFlags                     \* the flags of sensors that are not built

TemperatureSensorFailure == "TemperatureSensorFailure"
LowVoltage               == "LowVoltage"
GpsFailure               == "GpsFailure"

Sensors == Dht11Sensors \cup VoltageSensors \cup GpsSensors

ASSUME SensorAssumption ==
    /\ {TemperatureSensorFailure, LowVoltage, GpsFailure} \subseteq SensorWarnings
    /\ UnbuiltFlags \subseteq Warnings
    /\ SensorFailure \notin {TemperatureSensorFailure, LowVoltage, GpsFailure}

VARIABLES
    good,           \* the world: is the reading of each sensor in order?
    warningActive   \* _warningActive of each voltage sensor

sensorVars == <<localWarnings, good, warningActive>>

-----------------------------------------------------------------------------
FailureSeen(s, flag)  == ~good[s] /\ ~isWarningActive(flag) /\ raiseWarning(flag)
RecoverySeen(s, flag) == good[s] /\ isWarningActive(flag) /\ clearWarning(flag)

FailuresOnly(s, flag) == FailureSeen(s, flag)  \* fault: the flag is latched
RecoveryOnly(s, flag) == RecoverySeen(s, flag)  \* fault: raised at the start only

\* A poll raises the flag of the kind if it is not up, and clears it if it is
\* up, whichever sensor raised it.
Watch(s, flag) == FailureSeen(s, flag) \/ RecoverySeen(s, flag)

Dht11Update(s) ==
    /\ s \in Dht11Sensors /\ Watch(s, TemperatureSensorFailure)
    /\ UNCHANGED <<good, warningActive>>

\* The reading is bad once there was no fix for 30 s.
GpsUpdate(s) ==
    /\ s \in GpsSensors /\ Watch(s, GpsFailure)
    /\ UNCHANGED <<good, warningActive>>

VoltageDrops(s) ==
    /\ ~warningActive[s] /\ ~good[s]
    /\ raiseWarning(LowVoltage) /\ warningActive' = [warningActive EXCEPT ![s] = TRUE]

VoltageRecovers(s) ==
    /\ warningActive[s] /\ good[s]
    /\ clearWarning(LowVoltage) /\ warningActive' = [warningActive EXCEPT ![s] = FALSE]

\* The voltage sensor acts on changes only, as its own memory tells them.
VoltageUpdate(s) ==
    /\ s \in VoltageSensors /\ (VoltageDrops(s) \/ VoltageRecovers(s))
    /\ UNCHANGED good

\* The world: a sensor, the battery or the sky gets worse or better.
Turn(s) ==
    /\ good' = [good EXCEPT ![s] = ~@]
    /\ UNCHANGED <<localWarnings, warningActive>>

WarningCommand == Command /\ UNCHANGED <<good, warningActive>>

\* createAll(): a sensor that is not built leaves its flag and the summary.
FactoryWarnings(unbuilt) == IF unbuilt = {} THEN {} ELSE unbuilt \cup {SensorFailure}

Init ==
    /\ localWarnings \in {FactoryWarnings(u) : u \in SUBSET UnbuiltFlags}
    /\ good \in [Sensors -> BOOLEAN]
    /\ warningActive = [s \in VoltageSensors |-> FALSE]

Poll(s) == Dht11Update(s) \/ GpsUpdate(s) \/ VoltageUpdate(s)

Next ==
    \/ \E s \in Sensors : Poll(s) \/ Turn(s)
    \/ WarningCommand

Spec == Init /\ [][Next]_sensorVars

\* The sensor manager polls every sensor again and again.
FairSpec == Spec /\ \A s \in Sensors : WF_sensorVars(Poll(s))

-----------------------------------------------------------------------------
TypeOK ==
    /\ localWarnings \subseteq Warnings
    /\ good \in [Sensors -> BOOLEAN]
    /\ warningActive \in [VoltageSensors -> BOOLEAN]

(* README.md, "Sensor failure aggregation": SensorFailure "clears only     *)
(* when all sensor warnings are cleared", however many sensors come and    *)
(* go; only W4 with its own name takes it away before.                     *)
SummaryKept ==
    SensorFailure \notin Cleared /\ localWarnings \cap SensorWarnings # {}
        => isWarningActive(SensorFailure)

NoMoreCommands == <>[][~WarningCommand]_sensorVars

(* When every sensor is in order for good and nobody commands warnings,    *)
(* the flags that sensors raise go away by themselves; one raised by name  *)
(* that no sensor remembers is not among them.                             *)
WarningsRecover ==
    (NoMoreCommands /\ <>[](\A s \in Sensors : good[s]))
        => <>[](/\ Dht11Sensors # {} => ~isWarningActive(TemperatureSensorFailure)
                /\ GpsSensors # {} => ~isWarningActive(GpsFailure)
                /\ \A s \in VoltageSensors : ~warningActive[s])

(* A failure that stays is reported for ever: a command that clears the    *)
(* flag is undone by the next poll, as long as no healthy sensor of the    *)
(* kind shares the flag.                                                   *)
FailureReported ==
    /\ \A s \in Dht11Sensors :
          (Dht11Sensors = {s} /\ NoMoreCommands /\ <>[](~good[s]))
              => <>[]isWarningActive(TemperatureSensorFailure)
    /\ \A s \in GpsSensors :
          (GpsSensors = {s} /\ NoMoreCommands /\ <>[](~good[s]))
              => <>[]isWarningActive(GpsFailure)
=============================================================================
