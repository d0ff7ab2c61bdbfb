-------------------------- MODULE HubLifecycle_proofs --------------------------
(***************************************************************************)
(* What HubLifecycle promises for every threshold, counter width, set of   *)
(* configurations and number of releases.                                  *)
(***************************************************************************)
EXTENDS HubLifecycle, TLAPS

LEMMA SmallerIsOne ==
  ASSUME NEW a \in Nat, NEW b \in Nat
  PROVE  /\ Smaller(a, b) \in Nat
         /\ Smaller(a, b) <= a /\ Smaller(a, b) <= b
         /\ Smaller(a, b) = a \/ Smaller(a, b) = b
  BY DEF Smaller

\* A header that setup() has read is a good one, and it never counts more
\* crashes than boots that did not finish.
CountsBoots ==
    /\ phase # "LoadHeader" => header.checksum = "Right"
    /\ header.checksum = "Right" =>
          /\ header.crashCounter <= unfinished
          /\ phase \in {"Load", "CountCrash"} =>
                Smaller(header.crashCounter + 1, CounterLimit) <= unfinished

\* A boot past the count has a number of 1 or more; past the guard, it runs the
\* defaults if that number has come to the threshold.
BootIsNumbered ==
    /\ phase \in {"CrashGuard", "Hardware", "ResetCounter"} => header.crashCounter >= 1
    /\ phase \in {"Hardware", "ResetCounter"} /\ header.crashCounter >= CrashCounterThreshold
          => cfg = Defaults

\* The version that is offered stays newer than the one that runs.
OfferIsNewer == otaState = "UpdateAvailable" => availableVersion > firmware

-----------------------------------------------------------------------------
\* What the operations write to EEPROM is of the right type.
LEMMA WrittenTyped ==
  /\ \A content \in Contents : Saved(content) \in Stored
  /\ \A version \in 0 .. ConfigVersion + 1, content \in Contents : Torn(version, content) \in Stored
  /\ \A crashes \in 0 .. CounterLimit, flags \in PinGuardFlags, ota \in {"None", "AutoApply"} :
        HeaderOf(crashes, flags, ota) \in Headers
  /\ TornHeader \in Headers
BY ConfigAssumption DEF Saved, Stored, Torn, HeaderOf, Headers, TornHeader

LEMMA ZeroIsVersion == 0 \in Versions
BY OtaAssumption DEF Versions

LEMMA InitTyped == Init => TypeOK
<1> SUFFICES ASSUME Init PROVE TypeOK
  OBVIOUS
<1>1. header \in Headers
  BY ConfigAssumption, WrittenTyped DEF Init, ConfigInit
<1>2. ConfigTyped
  <2>1. 0 \in 0 .. CounterLimit /\ Defaults \in Contents /\ NoFlags \in PinGuardFlags
    BY ConfigAssumption
  <2>2. pendingReboot \in BOOLEAN
    BY Zenon DEF Init, ConfigInit
  <2>3. phase \in SetupPhases \cup {"Running"}
    BY DEF Init, ConfigInit, SetupPhases
  <2>4. /\ stored \in Stored /\ cfg \in Contents /\ pinGuardMode \in PinGuardFlags
        /\ unfinished \in 0 .. CounterLimit
    BY <2>1 DEF Init, ConfigInit
  <2> QED
    BY <1>1, <2>2, <2>3, <2>4, Zenon DEF ConfigTyped
<1>3. OtaTyped
  BY ZeroIsVersion, Zenon DEF Init, OtaInit, OtaTyped
<1> QED
  BY <1>2, <1>3 DEF TypeOK

LEMMA RestartTyped ==
  ASSUME ConfigTyped, Restarted, stored' \in Stored, header' \in Headers, UNCHANGED unfinished
  PROVE  ConfigTyped'
BY ConfigAssumption DEF ConfigTyped, Restarted, SetupPhases

LEMMA SetupTyped == ConfigTyped /\ SetupStep => ConfigTyped'
<1> SUFFICES ASSUME ConfigTyped, SetupStep PROVE ConfigTyped'
  OBVIOUS
<1> USE ConfigAssumption
<1>0. /\ header.crashCounter \in 0 .. CounterLimit
      /\ header.pinGuardFlags \in PinGuardFlags
      /\ header.otaFlags \in {"None", "AutoApply"}
      /\ stored.content \in Contents
  BY DEF ConfigTyped, Headers, Stored
<1>1. CASE LoadHeader
  <2>1. Smaller(unfinished + 1, CounterLimit) \in 0 .. CounterLimit
    BY SmallerIsOne DEF ConfigTyped
  <2>2. HeaderOf(0, NoFlags, "None") \in Headers
    BY WrittenTyped
  <2> QED
    BY <1>1, <2>1, <2>2 DEF LoadHeader, ConfigTyped, SetupPhases
<1>2. CASE Load
  BY <1>0, <1>2, WrittenTyped DEF Load, ConfigTyped, SetupPhases
<1>3. CASE CountCrash
  <2>1. CrashCounted \in 0 .. CounterLimit
    <3>1. header.crashCounter + 1 \in Nat /\ CounterLimit \in Nat
      BY <1>0
    <3>2. CrashCounted \in Nat /\ CrashCounted <= CounterLimit
      BY <3>1, SmallerIsOne, Zenon DEF CrashCounted
    <3> QED
      BY <3>1, <3>2
  <2> QED
    BY <1>0, <1>3, <2>1, WrittenTyped DEF CountCrash, ConfigTyped, SetupPhases
<1>4. CASE CrashGuard
  BY <1>4, WrittenTyped DEF CrashGuard, ResetAndSave, ConfigTyped, SetupPhases
<1>5. CASE InitHardware
  BY <1>5 DEF InitHardware, ConfigTyped, SetupPhases
<1>6. CASE ResetCounter
  <2>1. HeaderOf(CountCleared, header.pinGuardFlags, header.otaFlags) \in Headers
    BY <1>0, WrittenTyped DEF CountCleared
  <2> QED
    BY <1>6, <2>1 DEF ResetCounter, ConfigTyped, SetupPhases
<1>7. CASE WatchdogReset
  BY <1>7, RestartTyped DEF WatchdogReset, ConfigTyped
<1> QED
  BY <1>1, <1>2, <1>3, <1>4, <1>5, <1>6, <1>7 DEF SetupStep

LEMMA CommandTyped == ConfigTyped /\ Command => ConfigTyped'
<1> SUFFICES ASSUME ConfigTyped, Command PROVE ConfigTyped'
  OBVIOUS
<1> USE ConfigAssumption
<1>1. ASSUME NEW content \in Contents, Edit(content) PROVE ConfigTyped'
  BY <1>1 DEF Edit, ConfigTyped
<1>2. CASE reset
  BY <1>2 DEF reset, Edit, ConfigTyped
<1>3. ASSUME NEW reboot \in BOOLEAN, save(reboot) PROVE ConfigTyped'
  <2>1. Saved(cfg) \in Stored
    BY WrittenTyped DEF ConfigTyped
  <2>2. pendingReboot' \in BOOLEAN
    BY <1>3 DEF save
  <2> QED
    BY <1>3, <2>1, <2>2 DEF save, ConfigTyped
<1>4. ASSUME NEW flags \in PinGuardFlags, setPinGuardFlags(flags) PROVE ConfigTyped'
  <2>1. HeaderOf(header.crashCounter, flags, header.otaFlags) \in Headers
    BY WrittenTyped DEF ConfigTyped, Headers
  <2> QED
    BY <1>4, <2>1 DEF setPinGuardFlags, ConfigTyped
<1> QED
  BY <1>1, <1>2, <1>3, <1>4 DEF Command

LEMMA PowerFailureTyped == ConfigTyped /\ PowerFails => ConfigTyped'
<1> SUFFICES ASSUME ConfigTyped, PowerFails PROVE ConfigTyped'
  OBVIOUS
<1>1. stored' \in Stored
  BY ConfigAssumption, WrittenTyped DEF PowerFails, ConfigTyped, Stored
<1>2. header' \in Headers
  BY WrittenTyped DEF PowerFails, ConfigTyped
<1> QED
  BY <1>1, <1>2, RestartTyped DEF PowerFails

LEMMA BegunTyped ==
  OtaRestarted /\ firmware' \in Versions /\ latest' \in Versions => OtaTyped'
BY ZeroIsVersion, Zenon DEF OtaRestarted, OtaTyped

LEMMA UpdateTyped ==
  ASSUME OtaTyped, NEW autoApply \in BOOLEAN,
         NothingFound \/ Notify(autoApply) \/ DownloadFails(autoApply)
  PROVE  OtaTyped'
<1>1. ASSUME CheckAnswered PROVE triggerCheck' \in BOOLEAN /\ timeToCheck' \in BOOLEAN
  BY <1>1, Zenon DEF CheckAnswered
<1>2. CASE NothingFound
  BY <1>1, <1>2 DEF NothingFound, OtaTyped
<1>3. CASE Notify(autoApply)
  BY <1>1, <1>3 DEF Notify, OtaTyped
<1>4. CASE DownloadFails(autoApply)
  <2>1. availableVersion' \in Versions
    BY <1>4 DEF DownloadFails
  <2> QED
    BY <1>1, <1>4, <2>1 DEF DownloadFails, OtaTyped
<1> QED
  BY <1>2, <1>3, <1>4

LEMMA EnvironmentTyped == OtaTyped /\ Environment => OtaTyped'
<1> SUFFICES ASSUME OtaTyped, Environment PROVE OtaTyped'
  OBVIOUS
<1>1. CASE DayPasses
  BY <1>1 DEF DayPasses, OtaTyped
<1>2. CASE ConnectionChanges
  BY <1>2 DEF ConnectionChanges, OtaTyped, requestVars
<1>3. ASSUME NEW version \in Versions, Publish(version) PROVE OtaTyped'
  BY <1>3 DEF Publish, OtaTyped, requestVars
<1> QED
  BY <1>1, <1>2, <1>3 DEF Environment

LEMMA NextTyped == TypeOK /\ [Next]_vars => TypeOK'
<1> SUFFICES ASSUME TypeOK, [Next]_vars PROVE TypeOK'
  OBVIOUS
<1> USE DEF TypeOK
<1>0. UNCHANGED configVars => ConfigTyped'
  BY DEF configVars, ConfigTyped
<1>a. UNCHANGED otaVars => OtaTyped'
  BY DEF otaVars, requestVars, OtaTyped
<1>1. CASE Setup
  BY <1>1, <1>a, SetupTyped DEF Setup
<1>2. CASE Command
  BY <1>2, <1>a, CommandTyped DEF Command
<1>3. CASE Restart
  <2>1. OtaTyped'
    BY <1>3, BegunTyped DEF Restart, OtaTyped
  <2>2. CASE Reboot
    BY <2>1, <2>2, RestartTyped DEF Reboot, ConfigTyped
  <2> QED
    BY <1>3, <2>1, <2>2, PowerFailureTyped DEF Restart
<1>4. CASE Check
  BY <1>0, <1>4, UpdateTyped DEF Check, AutoApply
<1>5. CASE Install
  <2>1. OtaTyped'
    BY <1>5, BegunTyped DEF Install, Installs, OtaTyped
  <2>2. ConfigTyped'
    BY <1>5, RestartTyped DEF Install, ConfigTyped
  <2> QED
    BY <2>1, <2>2
<1>6. CASE Request
  <2>1. PICK apply \in BOOLEAN : TriggerCheck(apply)
    BY <1>6 DEF Request
  <2>2. OtaTyped'
    BY <2>1 DEF TriggerCheck, OtaTyped
  <2> QED
    BY <1>0, <1>6, <2>2 DEF Request
<1>7. CASE Environment
  BY <1>0, <1>7, EnvironmentTyped DEF Environment
<1>8. CASE UNCHANGED vars
  BY <1>0, <1>a, <1>8 DEF vars
<1> QED
  BY <1>1, <1>2, <1>3, <1>4, <1>5, <1>6, <1>7, <1>8 DEF Next

(* In every run every variable keeps its type: the crash counter does not  *)
(* wrap, and nothing is run that is not one of the configurations.         *)
THEOREM TypeCorrect == Spec => []TypeOK
<1> QED
  BY InitTyped, NextTyped, PTL DEF Spec

-----------------------------------------------------------------------------
\* Nothing but a step of setup() or a command changes configVars in place; every
\* other step leaves them alone or restarts the board.
LEMMA OtherSteps ==
  ASSUME [Next]_vars
  PROVE  \/ SetupStep
         \/ phase = "Running" /\ phase' = "Running" /\ Command
         \/ Restarted /\ UNCHANGED <<stored, header, unfinished>> /\ phase = "Running"
         \/ PowerFails
         \/ UNCHANGED configVars
<1>1. CASE Setup
  BY <1>1 DEF Setup
<1>2. CASE Command
  BY <1>2 DEF Command, Edit, reset, save, setPinGuardFlags
<1>3. CASE Restart
  BY <1>3 DEF Restart, Reboot
<1>4. CASE Check \/ Request \/ Environment
  BY <1>4 DEF Check, Request, Environment
<1>5. CASE Install
  BY <1>5 DEF Install
<1>6. CASE UNCHANGED vars
  BY <1>6 DEF vars
<1> QED
  BY <1>1, <1>2, <1>3, <1>4, <1>5, <1>6 DEF Next

LEMMA NextStored == TypeOK /\ LoadedIsStored /\ [Next]_vars => LoadedIsStored'
<1> SUFFICES ASSUME TypeOK, LoadedIsStored, [Next]_vars PROVE LoadedIsStored'
  OBVIOUS
<1>1. CASE SetupStep
  <2>1. CASE LoadHeader
    BY <2>1 DEF LoadHeader, LoadedIsStored
  <2>2. CASE Load
    <3>1. stored' = Saved(cfg')
      <4>1. CASE Readable
        <5>1. stored.version = ConfigVersion /\ stored.checksum = "Right"
          BY <4>1 DEF Readable
        <5>2. stored = Saved(stored.content)
          BY <5>1 DEF TypeOK, ConfigTyped, Stored, Saved
        <5>3. cfg' = stored.content /\ stored' = stored
          BY <2>2, <5>1 DEF Load, Readable, Migratable
        <5> QED
          BY <5>2, <5>3
      <4>2. CASE ~Readable
        BY <2>2, <4>2 DEF Load
      <4> QED
        BY <4>1, <4>2
    <3> QED
      BY <2>2, <3>1 DEF Load, LoadedIsStored
  <2>3. CASE CountCrash \/ InitHardware
    BY <2>3 DEF CountCrash, InitHardware, LoadedIsStored
  <2>4. CASE CrashGuard
    BY <2>4 DEF CrashGuard, ResetAndSave, LoadedIsStored
  <2>5. CASE ResetCounter
    BY <2>5 DEF ResetCounter, LoadedIsStored, Readable, Saved
  <2>6. CASE WatchdogReset
    BY <2>6 DEF WatchdogReset, Restarted, LoadedIsStored
  <2> QED
    BY <1>1, <2>1, <2>2, <2>3, <2>4, <2>5, <2>6 DEF SetupStep
<1>2. CASE phase = "Running" /\ phase' = "Running" /\ Command
  <2>1. Readable'
    BY <1>2 DEF Command, Edit, reset, save, setPinGuardFlags, LoadedIsStored, Readable, Saved
  <2> QED
    BY <1>2, <2>1 DEF LoadedIsStored
<1>3. CASE Restarted
  BY <1>3 DEF Restarted, LoadedIsStored
<1>4. CASE UNCHANGED configVars
  BY <1>4 DEF configVars, LoadedIsStored, Readable
<1> QED
  BY <1>1, <1>2, <1>3, <1>4, OtherSteps DEF PowerFails

(* For any threshold, any configurations and any sequence of boots, power  *)
(* failures and updates, setup() runs what EEPROM holds, and the running   *)
(* hub leaves a configuration that the next boot can read.                 *)
THEOREM LoadedAlwaysStored == Spec => []LoadedIsStored
<1>1. Init => LoadedIsStored
  BY DEF Init, ConfigInit, LoadedIsStored
<1> QED
  BY <1>1, InitTyped, NextTyped, NextStored, PTL DEF Spec

-----------------------------------------------------------------------------
LEMMA NextCounts == TypeOK /\ CountsBoots /\ [Next]_vars => CountsBoots'
<1> SUFFICES ASSUME TypeOK, CountsBoots, [Next]_vars PROVE CountsBoots'
  OBVIOUS
<1> USE ConfigAssumption
<1>0. header.crashCounter \in 0 .. CounterLimit /\ unfinished \in 0 .. CounterLimit
  BY DEF TypeOK, ConfigTyped, Headers
<1>1. CASE SetupStep
  <2>1. CASE LoadHeader
    <3>1. header'.checksum = "Right" /\ phase' = "Load"
      BY <2>1 DEF LoadHeader, HeaderOf
    <3>2. header'.crashCounter \in Nat /\ header'.crashCounter <= unfinished
      BY <1>0, <2>1 DEF LoadHeader, HeaderOf, CountsBoots
    <3>3. unfinished' = Smaller(unfinished + 1, CounterLimit)
      BY <2>1 DEF LoadHeader
    <3>4. /\ header'.crashCounter <= unfinished'
          /\ Smaller(header'.crashCounter + 1, CounterLimit) <= unfinished'
      BY <1>0, <3>2, <3>3 DEF Smaller
    <3> QED
      BY <3>1, <3>4 DEF CountsBoots
  <2>2. CASE Load \/ CrashGuard \/ InitHardware
    BY <2>2 DEF Load, CrashGuard, InitHardware, CountsBoots
  <2>3. CASE CountCrash
    BY <2>3 DEF CountCrash, CountsBoots, HeaderOf, CrashCounted
  <2>4. CASE ResetCounter
    BY <2>4 DEF ResetCounter, CountsBoots, HeaderOf, CountCleared
  <2>5. CASE WatchdogReset
    BY <2>5 DEF WatchdogReset, Restarted, CountsBoots
  <2> QED
    BY <1>1, <2>1, <2>2, <2>3, <2>4, <2>5 DEF SetupStep
<1>2. CASE phase = "Running" /\ phase' = "Running" /\ Command
  BY <1>2 DEF Command, Edit, reset, save, setPinGuardFlags, CountsBoots, HeaderOf
<1>3. CASE Restarted /\ UNCHANGED <<stored, header, unfinished>>
  BY <1>3 DEF Restarted, CountsBoots
<1>4. CASE PowerFails
  <2>1. header' = header \/ header'.checksum = "Wrong"
    BY <1>4 DEF PowerFails, TornHeader
  <2>2. phase' = "LoadHeader" /\ unfinished' = unfinished
    BY <1>4 DEF PowerFails, Restarted
  <2> QED
    BY <2>1, <2>2 DEF CountsBoots
<1>5. CASE UNCHANGED configVars
  BY <1>5 DEF configVars, CountsBoots
<1> QED
  BY <1>1, <1>2, <1>3, <1>4, <1>5, OtherSteps

\* Among the steps only the crash guard may replace a configuration that was read.
LEMMA GuardedReset ==
  ASSUME TypeOK, CountsBoots, [Next]_vars
  PROVE  phase # "Running" /\ (Readable \/ Migratable) /\ stored'.checksum = "Right"
            /\ stored'.content # stored.content
         => unfinished >= CrashCounterThreshold
<1> SUFFICES ASSUME phase # "Running", Readable \/ Migratable, stored'.checksum = "Right",
                    stored'.content # stored.content
             PROVE  unfinished >= CrashCounterThreshold
  OBVIOUS
<1>1. CASE SetupStep
  <2>1. ~(LoadHeader \/ CountCrash \/ InitHardware \/ ResetCounter \/ WatchdogReset)
    BY DEF LoadHeader, CountCrash, InitHardware, ResetCounter, WatchdogReset
  <2>2. ~Load
    BY DEF Load, Saved
  <2>3. CrashGuard
    BY <1>1, <2>1, <2>2 DEF SetupStep
  <2>4. header.crashCounter >= CrashCounterThreshold
    BY <2>3 DEF CrashGuard, CrashLoop
  <2>5. header.crashCounter <= unfinished
    BY <2>3 DEF CrashGuard, CountsBoots
  <2> QED
    BY <2>4, <2>5, ConfigAssumption DEF TypeOK, ConfigTyped, Headers
<1>2. CASE PowerFails
  <2>1. stored' = stored \/ stored'.checksum = "Wrong"
    BY <1>2 DEF PowerFails, Torn
  <2> QED
    BY <2>1
<1>3. CASE UNCHANGED configVars
  BY <1>3 DEF configVars
<1> QED
  BY <1>1, <1>2, <1>3, OtherSteps

-----------------------------------------------------------------------------
LEMMA NextNumbered == TypeOK /\ BootIsNumbered /\ [Next]_vars => BootIsNumbered'
<1> SUFFICES ASSUME TypeOK, BootIsNumbered, [Next]_vars PROVE BootIsNumbered'
  OBVIOUS
<1>1. CASE SetupStep
  <2>1. CASE LoadHeader \/ Load \/ ResetCounter
    BY <2>1 DEF LoadHeader, Load, ResetCounter, BootIsNumbered
  <2>2. CASE CountCrash
    <3>1. header.crashCounter \in Nat /\ CounterLimit \in Nat /\ CounterLimit >= 1
      BY ConfigAssumption DEF TypeOK, ConfigTyped, Headers
    <3>2. CrashCounted >= 1
      BY <3>1 DEF CrashCounted, Smaller
    <3>3. phase' = "CrashGuard" /\ header'.crashCounter = CrashCounted
      BY <2>2 DEF CountCrash, HeaderOf
    <3> QED
      BY <3>2, <3>3 DEF BootIsNumbered
  <2>3. CASE CrashGuard
    <3>1. phase = "CrashGuard" /\ phase' = "Hardware" /\ header' = header
      BY <2>3 DEF CrashGuard
    <3>2. header.crashCounter >= CrashCounterThreshold => cfg' = Defaults
      BY <2>3 DEF CrashGuard, CrashLoop, ResetAndSave
    <3> QED
      BY <3>1, <3>2 DEF BootIsNumbered
  <2>4. CASE InitHardware
    BY <2>4 DEF InitHardware, BootIsNumbered
  <2>5. CASE WatchdogReset
    BY <2>5 DEF WatchdogReset, Restarted, BootIsNumbered
  <2> QED
    BY <1>1, <2>1, <2>2, <2>3, <2>4, <2>5 DEF SetupStep
<1>2. CASE phase' \in {"LoadHeader", "Running"}
  BY <1>2 DEF BootIsNumbered
<1>3. CASE UNCHANGED configVars
  BY <1>3 DEF configVars, BootIsNumbered
<1> QED
  BY <1>1, <1>2, <1>3, OtherSteps DEF PowerFails, Restarted

LEMMA CountedHang ==
  ASSUME TypeOK, BootIsNumbered, WatchdogReset
  PROVE  header.crashCounter \in 1 .. CrashCounterThreshold - 1
<1>1. phase = "Hardware" /\ cfg \in Crashing
  BY DEF WatchdogReset
<1>2. header.crashCounter \in Nat /\ CrashCounterThreshold \in Nat
  BY ConfigAssumption DEF TypeOK, ConfigTyped, Headers
<1>3. header.crashCounter >= 1 /\ ~(header.crashCounter >= CrashCounterThreshold)
  BY <1>1, ConfigAssumption DEF BootIsNumbered
<1> QED
  BY <1>2, <1>3

(* For any threshold and any configurations, however boots, crashes,       *)
(* restarts, updates and power failures follow each other, setup() gives   *)
(* up a configuration that it can read only after that many boots that did *)
(* not finish, and a boot that hangs was counted and is below the          *)
(* threshold.                                                              *)
THEOREM GuardActsInTime == Spec => GuardInTime
<1>1. Init => CountsBoots /\ BootIsNumbered
  BY ConfigAssumption DEF Init, ConfigInit, CountsBoots, BootIsNumbered, HeaderOf, TornHeader
<1> QED
  BY <1>1, InitTyped, NextTyped, NextCounts, NextNumbered, GuardedReset, CountedHang, PTL
  DEF Spec, GuardInTime

-----------------------------------------------------------------------------
LEMMA NextOffer == TypeOK /\ OfferIsNewer /\ [Next]_vars => OfferIsNewer'
<1> SUFFICES ASSUME TypeOK, OfferIsNewer, [Next]_vars PROVE OfferIsNewer'
  OBVIOUS
<1>1. CASE Setup \/ Command
  BY <1>1 DEF Setup, Command, otaVars, requestVars, OfferIsNewer
<1>2. CASE Restart \/ Install
  BY <1>2 DEF Restart, Install, Installs, OtaRestarted, OfferIsNewer
<1>3. CASE Check
  BY <1>3 DEF Check, NothingFound, Notify, DownloadFails, isNewerVersion, OfferIsNewer
<1>4. CASE Request \/ Environment
  BY <1>4 DEF Request, TriggerCheck, Environment, DayPasses, ConnectionChanges, Publish,
              requestVars, OfferIsNewer
<1>5. CASE UNCHANGED vars
  BY <1>5 DEF vars, otaVars, requestVars, OfferIsNewer
<1> QED
  BY <1>1, <1>2, <1>3, <1>4, <1>5 DEF Next

LEMMA ForwardStep ==
  ASSUME OfferIsNewer, [Next]_vars
  PROVE  firmware' # firmware => firmware' > firmware
<1>1. CASE Install
  BY <1>1 DEF Install, Installs, Downloads, isNewerVersion, OfferIsNewer
<1>2. CASE Setup \/ Command \/ Restart
  BY <1>2 DEF Setup, Command, Restart, otaVars
<1>3. CASE Check \/ Request \/ Environment
  BY <1>3 DEF Check, NothingFound, Notify, DownloadFails, Request, TriggerCheck, Environment,
              DayPasses, ConnectionChanges, Publish
<1>4. CASE UNCHANGED vars
  BY <1>4 DEF vars, otaVars
<1> QED
  BY <1>1, <1>2, <1>3, <1>4 DEF Next

(* For any releases, published and taken back at any time, the firmware is *)
(* only ever replaced by a newer one.                                      *)
THEOREM FirmwareOnlyForward == Spec => OnlyForward
<1>1. Init => OfferIsNewer
  BY DEF Init, OtaInit, OfferIsNewer
<1> QED
  BY <1>1, InitTyped, NextTyped, NextOffer, ForwardStep, PTL DEF Spec, OnlyForward
=============================================================================
