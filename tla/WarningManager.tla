---------------------------- MODULE WarningManager ----------------------------
(***************************************************************************)
(* The warnings of the device (WarningManager.cpp): a set of flags, with   *)
(* SensorFailure kept as the summary of the sensor flags (bits 20 to 31),  *)
(* and the serial commands that raise and clear them by name.              *)
(***************************************************************************)
EXTENDS Naturals

CONSTANTS
    Warnings,          \* the flags
    SensorWarnings,    \* those of SENSOR_WARNING_MASK, SensorFailure included
    SensorFailure,
    Raised, Cleared    \* the flags that W4 raises and clears

ASSUME WarningAssumption ==
    /\ SensorFailure \in SensorWarnings
    /\ SensorWarnings \subseteq Warnings
    /\ Raised \subseteq Warnings /\ Cleared \subseteq Warnings

VARIABLE localWarnings             \* _localWarnings

hasWarnings == localWarnings # {}
isWarningActive(w) == w \in localWarnings

SummaryNotRaised(flags, w) == flags \cup {w}  \* fault: no summary
WithWarning(flags, w) ==
    flags \cup {w} \cup (IF w \in SensorWarnings THEN {SensorFailure} ELSE {})

raiseWarning(w) == localWarnings' = WithWarning(localWarnings, w)

NoOtherSensor(flags) == {}  \* fault: the other sensors are not looked at
OtherSensorWarnings(flags) == (flags \cap SensorWarnings) \ {SensorFailure}

\* The flag goes, and the summary goes with the last sensor flag.  Clearing
\* the summary by its name clears it whatever other sensor flags are up.
clearWarning(w) ==
    LET left == localWarnings \ {w}
    IN  localWarnings' = IF w \in SensorWarnings /\ OtherSensorWarnings(left) = {}
                         THEN left \ {SensorFailure}
                         ELSE left

clearAllWarnings == localWarnings' = {}

\* The commands W3 and W4 of WarningCommandHandler.
Command ==
    \/ clearAllWarnings
    \/ \E w \in Raised : raiseWarning(w)
    \/ \E w \in Cleared : clearWarning(w)
=============================================================================
