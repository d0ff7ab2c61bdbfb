------------------------------ MODULE OtaManager ------------------------------
(***************************************************************************)
(* The update of the firmware from the published releases (OtaManager.cpp).*)
(* update() downloads while the loop waits, so that only Idle and          *)
(* UpdateAvailable are seen between two calls.  A version is a number; the *)
(* poll interval of ten seconds is left out, the daily one is timeToCheck. *)
(***************************************************************************)
EXTENDS Naturals

CONSTANT MaxVersion  \* bound: the last version that is published

ASSUME OtaAssumption == MaxVersion \in Nat

VARIABLES
    firmware,          \* the version that runs
    latest,            \* the version GitHub calls the latest
    otaState,          \* _state
    availableVersion,  \* _availableVersion
    triggerCheck,      \* _triggerCheck
    triggerApply,      \* _triggerApply
    timeToCheck,       \* OtaCheckIntervalMs have passed since _lastCheckMs
    connected          \* isWifiClientMode()

requestVars == <<otaState, availableVersion, triggerCheck, triggerApply, timeToCheck>>
otaVars == <<firmware, latest, requestVars, connected>>

Versions == 0 .. MaxVersion

AnyOther(tag) == tag # firmware  \* fault: the releases are taken to be in order
isNewerVersion(tag) == tag > firmware

-----------------------------------------------------------------------------
(* update()                                                                *)
CheckDue == connected /\ otaState = "Idle" /\ (triggerCheck \/ timeToCheck)

\* A check that has started is no longer due.
CheckAnswered ==
    /\ triggerCheck' = (triggerCheck /\ otaState # "Idle")
    /\ timeToCheck' = (timeToCheck /\ otaState # "Idle")

\* The tag is not fetched, or it is not newer: a request to apply stays.
NothingFound ==
    /\ CheckDue /\ CheckAnswered
    /\ UNCHANGED <<firmware, latest, otaState, availableVersion, triggerApply, connected>>

OnRequest(autoApply) == triggerApply  \* fault: the flag in the header is not read
ApplyAtOnce(autoApply) == triggerApply \/ autoApply

Notify(autoApply) ==
    /\ CheckDue /\ CheckAnswered
    /\ isNewerVersion(latest) /\ ~ApplyAtOnce(autoApply)
    /\ availableVersion' = latest /\ otaState' = "UpdateAvailable"
    /\ UNCHANGED <<firmware, latest, triggerApply, connected>>

\* This call of update() downloads the version.
Downloads(autoApply, version) ==
    \/ CheckDue /\ isNewerVersion(latest) /\ ApplyAtOnce(autoApply) /\ version = latest
    \/ /\ connected /\ otaState = "UpdateAvailable" /\ triggerApply
       /\ version = availableVersion

\* No checksum, no download, or they do not agree.
DownloadFails(autoApply) ==
    /\ \E version \in Versions :
          Downloads(autoApply, version) /\ availableVersion' = version
    /\ otaState' = "Idle" /\ triggerApply' = FALSE /\ CheckAnswered
    /\ UNCHANGED <<firmware, latest, connected>>

\* The constructor and begin().
OtaRestarted ==
    /\ otaState' = "Idle" /\ availableVersion' = 0
    /\ triggerCheck' = FALSE /\ triggerApply' = FALSE /\ timeToCheck' = FALSE
    /\ connected' = FALSE

\* Update.end() has switched to the new firmware, and the board restarts.
Installs(autoApply) ==
    /\ \E version \in Versions : Downloads(autoApply, version) /\ firmware' = version
    /\ OtaRestarted /\ UNCHANGED latest

-----------------------------------------------------------------------------
\* triggerCheck(), which is F12.
TriggerCheck(applyIfAvailable) ==
    /\ triggerCheck' = TRUE /\ triggerApply' = applyIfAvailable
    /\ UNCHANGED <<firmware, latest, otaState, availableVersion, timeToCheck, connected>>

DayPasses ==
    /\ timeToCheck' = TRUE
    /\ UNCHANGED <<firmware, latest, otaState, availableVersion, triggerCheck, triggerApply,
                   connected>>

ConnectionChanges ==
    /\ connected' = ~connected
    /\ UNCHANGED <<firmware, latest, requestVars>>

\* A release is published, or taken back.
Publish(version) ==
    /\ latest' = version
    /\ UNCHANGED <<firmware, requestVars, connected>>

OtaInit ==
    /\ firmware \in Versions /\ latest \in Versions
    /\ otaState = "Idle" /\ availableVersion = 0
    /\ triggerCheck = FALSE /\ triggerApply = FALSE /\ timeToCheck = FALSE
    /\ connected = FALSE

OtaTyped ==
    /\ {firmware, latest, availableVersion} \subseteq Versions
    /\ otaState \in {"Idle", "UpdateAvailable"}
    /\ triggerCheck \in BOOLEAN /\ triggerApply \in BOOLEAN
    /\ timeToCheck \in BOOLEAN /\ connected \in BOOLEAN
==============================================================================
