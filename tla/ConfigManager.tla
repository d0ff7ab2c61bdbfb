---------------------------- MODULE ConfigManager ----------------------------
(***************************************************************************)
(* The configuration and the system header in EEPROM, and setup() up to    *)
(* the point where it trusts them (ConfigManager.cpp,                      *)
(* PowerControlHubApp.cpp).  Power may fail between any two steps, and     *)
(* during a write, which then leaves a wrong checksum.                     *)
(***************************************************************************)
EXTENDS Naturals

CONSTANTS
    ConfigVersion,          \* 1 is the oldest version that can be migrated
    CrashCounterThreshold,
    CounterLimit,           \* the largest value of crashCounter
    Contents,               \* what a configuration may say
    Defaults,
    Crashing,               \* those that hang the hardware setup
    PinGuardFlags, NoFlags

ASSUME ConfigAssumption ==
    /\ ConfigVersion \in Nat \ {0}
    /\ CrashCounterThreshold \in Nat \ {0} /\ CounterLimit \in Nat
    /\ CrashCounterThreshold <= CounterLimit
    /\ Defaults \in Contents \ Crashing
    /\ NoFlags \in PinGuardFlags

VARIABLES
    stored,         \* the configuration in EEPROM
    header,         \* the SystemHeader, in EEPROM and, from LoadHeader on, in memory
    cfg,            \* _cfg, the configuration in memory
    pinGuardMode,   \* PinGuard::_mode
    phase,          \* what setup() does next, or Running
    pendingReboot,  \* _pendingRebootTime is set
    unfinished      \* history: boots begun since one that finished, up to CounterLimit

configVars == <<stored, header, cfg, pinGuardMode, phase, pendingReboot, unfinished>>

SetupPhases ==
    {"LoadHeader", "Load", "CountCrash", "CrashGuard", "Hardware", "ResetCounter"}

\* What save() leaves in EEPROM, and what is there when power fails during it.
Saved(content) == [version |-> ConfigVersion, content |-> content, checksum |-> "Right"]
Torn(version, content) == [version |-> version, content |-> content, checksum |-> "Wrong"]

\* What saveHeader() leaves in EEPROM.
HeaderOf(crashes, flags, ota) ==
    [crashCounter |-> crashes, pinGuardFlags |-> flags, otaFlags |-> ota, checksum |-> "Right"]
TornHeader ==
    [crashCounter |-> 0, pinGuardFlags |-> NoFlags, otaFlags |-> "None", checksum |-> "Wrong"]

-----------------------------------------------------------------------------
(* setup()                                                                 *)
Smaller(a, b) == IF a < b THEN a ELSE b

\* loadHeader(): a header that cannot be read is started afresh, and saved.
LoadHeader ==
    /\ phase = "LoadHeader" /\ phase' = "Load"
    /\ header' = IF header.checksum = "Right" THEN header ELSE HeaderOf(0, NoFlags, "None")
    /\ unfinished' = Smaller(unfinished + 1, CounterLimit)
    /\ UNCHANGED <<stored, cfg, pinGuardMode, pendingReboot>>

Readable == stored.version = ConfigVersion /\ stored.checksum = "Right"
Migratable == stored.version \in 1 .. ConfigVersion - 1

\* load(): the checksum of an older version is not looked at.
Load ==
    /\ phase = "Load" /\ phase' = "CountCrash"
    /\ \/ Readable /\ cfg' = stored.content /\ UNCHANGED stored
       \/ Migratable /\ cfg' = stored.content /\ stored' = Saved(stored.content)
       \/ ~Readable /\ ~Migratable /\ cfg' = Defaults /\ stored' = Saved(Defaults)
    /\ UNCHANGED <<header, pinGuardMode, pendingReboot, unfinished>>

CountLost == header.crashCounter  \* fault: the count is not saved
CrashCounted == Smaller(header.crashCounter + 1, CounterLimit)

CountCrash ==
    /\ phase = "CountCrash" /\ phase' = "CrashGuard"
    /\ header' = HeaderOf(CrashCounted, header.pinGuardFlags, header.otaFlags)
    /\ pinGuardMode' = header.pinGuardFlags
    /\ UNCHANGED <<stored, cfg, pendingReboot, unfinished>>

CrashLoop == header.crashCounter >= CrashCounterThreshold

DefaultsNotSaved == cfg' = Defaults /\ UNCHANGED stored  \* fault: save() is left out
ResetAndSave == cfg' = Defaults /\ stored' = Saved(Defaults)

CrashGuard ==
    /\ phase = "CrashGuard" /\ phase' = "Hardware"
    /\ \/ CrashLoop /\ ResetAndSave /\ pinGuardMode' = NoFlags
       \/ ~CrashLoop /\ UNCHANGED <<cfg, stored, pinGuardMode>>
    /\ UNCHANGED <<header, pendingReboot, unfinished>>

InitHardware ==
    /\ phase = "Hardware" /\ phase' = "ResetCounter"
    /\ cfg \notin Crashing
    /\ UNCHANGED <<stored, header, cfg, pinGuardMode, pendingReboot, unfinished>>

CountKept == header.crashCounter  \* fault: bootCount is counted, crashCounter is not cleared
CountCleared == 0

ResetCounter ==
    /\ phase = "ResetCounter" /\ phase' = "Running"
    /\ header' = HeaderOf(CountCleared, header.pinGuardFlags, header.otaFlags)
    /\ unfinished' = 0
    /\ UNCHANGED <<stored, cfg, pinGuardMode, pendingReboot>>

\* The board starts again; memory holds nothing that is read before it is written.
Restarted ==
    /\ phase' = "LoadHeader" /\ pendingReboot' = FALSE
    /\ cfg' = Defaults /\ pinGuardMode' = NoFlags

WatchdogReset ==
    /\ phase = "Hardware" /\ cfg \in Crashing
    /\ Restarted /\ UNCHANGED <<stored, header, unfinished>>

SetupStep ==
    LoadHeader \/ Load \/ CountCrash \/ CrashGuard \/ InitHardware \/ ResetCounter
        \/ WatchdogReset

-----------------------------------------------------------------------------
(* The running hub.                                                        *)

\* Any of the commands that change the configuration in memory.
Edit(content) ==
    /\ phase = "Running" /\ cfg' = content
    /\ UNCHANGED <<stored, header, pinGuardMode, phase, pendingReboot, unfinished>>

\* C2, which saves nothing.
reset == Edit(Defaults)

\* C0, with reboot=1 or without.
save(reboot) ==
    /\ phase = "Running" /\ stored' = Saved(cfg)
    /\ pendingReboot' = (pendingReboot \/ reboot)
    /\ UNCHANGED <<header, cfg, pinGuardMode, phase, unfinished>>

Reboot ==
    /\ phase = "Running" /\ pendingReboot
    /\ Restarted /\ UNCHANGED <<stored, header, unfinished>>

\* F14
setPinGuardFlags(flags) ==
    /\ phase = "Running"
    /\ header' = HeaderOf(header.crashCounter, flags, header.otaFlags)
    /\ pinGuardMode' = flags
    /\ UNCHANGED <<stored, cfg, phase, pendingReboot, unfinished>>

\* The next step writes to EEPROM, and may be cut short.
WritesConfig ==
    \/ phase = "Load" /\ ~Readable
    \/ phase = "CrashGuard" /\ CrashLoop
    \/ phase = "Running"
WritesHeader == phase \in {"CountCrash", "ResetCounter", "Running"}

PowerFails ==
    /\ phase # "LoadHeader"
    /\ \/ UNCHANGED <<stored, header>>
       \/ /\ WritesConfig
          /\ \E version \in {stored.version, ConfigVersion}, content \in Contents :
                stored' = Torn(version, content)
          /\ UNCHANGED header
       \/ WritesHeader /\ header' = TornHeader /\ UNCHANGED stored
    /\ Restarted /\ UNCHANGED unfinished

-----------------------------------------------------------------------------
Stored == [version : 0 .. ConfigVersion + 1, content : Contents, checksum : {"Right", "Wrong"}]
Headers == [crashCounter : 0 .. CounterLimit, pinGuardFlags : PinGuardFlags,
            otaFlags : {"None", "AutoApply"}, checksum : {"Right", "Wrong"}]

\* Whatever earlier firmware, or none, has left in EEPROM.
ConfigInit ==
    /\ stored \in Stored
    /\ header \in {TornHeader} \cup
                  {HeaderOf(0, flags, ota) : flags \in PinGuardFlags, ota \in {"None", "AutoApply"}}
    /\ phase = "LoadHeader" /\ pendingReboot = FALSE
    /\ cfg = Defaults /\ pinGuardMode = NoFlags
    /\ unfinished = 0

ConfigTyped ==
    /\ stored \in Stored /\ header \in Headers
    /\ cfg \in Contents /\ pinGuardMode \in PinGuardFlags
    /\ phase \in SetupPhases \cup {"Running"}
    /\ pendingReboot \in BOOLEAN
    /\ unfinished \in 0 .. CounterLimit

(* From load() to the end of setup() memory and EEPROM say the same, and   *)
(* the running hub always leaves a configuration the next boot can read:   *)
(* migration, repair and the crash guard each save what they make.         *)
LoadedIsStored ==
    /\ phase \in {"CountCrash", "CrashGuard", "Hardware", "ResetCounter"} => stored = Saved(cfg)
    /\ phase = "Running" => Readable

(* Docs/PinGuard.md, "Crash Loop Guard", and its table: the guard acts     *)
(* neither early nor late.  Defaults take the place of a configuration     *)
(* that could be read only when CrashCounterThreshold boots in a row did   *)
(* not finish, through restarts by command, by an update and by power      *)
(* failures in between; and a boot hangs only after it was counted, so     *)
(* that the watchdog cannot undo the count, and never when its number has  *)
(* come to the threshold.                                                  *)
GuardInTime ==
    [][/\ phase # "Running" /\ (Readable \/ Migratable) /\ stored'.checksum = "Right"
             /\ stored'.content # stored.content
          => unfinished >= CrashCounterThreshold
       /\ WatchdogReset => header.crashCounter \in 1 .. CrashCounterThreshold - 1
      ]_configVars
==============================================================================
