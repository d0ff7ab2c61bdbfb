----------------------------- MODULE HubLifecycle -----------------------------
(***************************************************************************)
(* Boots, restarts and updates of the hub: ConfigManager and OtaManager    *)
(* share the header, which holds the auto-apply flag, and every restart    *)
(* of the board, whoever asks for it, ends in setup().                     *)
(***************************************************************************)
EXTENDS ConfigManager, OtaManager

vars == <<configVars, otaVars>>

\* Nothing in the firmware sets or clears this flag.
AutoApply == header.otaFlags = "AutoApply"

Setup == SetupStep /\ UNCHANGED otaVars

Command ==
    /\ \/ \E content \in Contents : Edit(content)
       \/ reset
       \/ \E reboot \in BOOLEAN : save(reboot)
       \/ \E flags \in PinGuardFlags : setPinGuardFlags(flags)
    /\ UNCHANGED otaVars

\* A reboot by command, or a power failure at any point of setup or loop.
Restart ==
    /\ Reboot \/ PowerFails
    /\ OtaRestarted /\ UNCHANGED <<firmware, latest>>

Check ==
    /\ phase = "Running"
    /\ NothingFound \/ Notify(AutoApply) \/ DownloadFails(AutoApply)
    /\ UNCHANGED configVars

Install ==
    /\ phase = "Running" /\ Installs(AutoApply)
    /\ Restarted /\ UNCHANGED <<stored, header, unfinished>>

Request ==
    /\ phase = "Running" /\ \E apply \in BOOLEAN : TriggerCheck(apply)
    /\ UNCHANGED configVars

Environment ==
    /\ \/ phase = "Running" /\ (DayPasses \/ ConnectionChanges)
       \/ \E version \in Versions : Publish(version)
    /\ UNCHANGED configVars

Init == ConfigInit /\ OtaInit

Next == Setup \/ Command \/ Restart \/ Check \/ Install \/ Request \/ Environment

Spec == Init /\ [][Next]_vars

\* setup() and the loop run on, days pass, a reboot that is asked for comes,
\* and a download that is tried for ever succeeds some time.
FairSpec ==
    /\ Spec
    /\ WF_vars(Setup) /\ WF_vars(Check) /\ SF_vars(Install)
    /\ WF_vars(phase = "Running" /\ DayPasses /\ UNCHANGED configVars)

-----------------------------------------------------------------------------
TypeOK == ConfigTyped /\ OtaTyped

\* From some time on nothing but watchdog, command and update restarts the board.
PowerLasts ==
    <>[][phase # "LoadHeader" /\ Restarted => WatchdogReset \/ Reboot \/ Install]_vars

(* Docs/PinGuard.md: the crash loop guard "detects and breaks this cycle   *)
(* automatically": unless power fails for ever, the hub always runs again, *)
(* whatever configurations are saved and however often it is restarted.    *)
CrashLoopEnds == PowerLasts => []<>(phase = "Running")

(* The firmware is never replaced by an older one, though releases are     *)
(* published and taken back between the check and the download.            *)
OnlyForward == [][firmware' # firmware => firmware' > firmware]_vars

(* README.md, "Over-the-Air Updates": a hub that may apply updates, stays  *)
(* up and connected for ever is up to date, again and again.               *)
AutoUpdateCatchesUp ==
    <>[](phase = "Running" /\ connected /\ AutoApply) => []<>(firmware >= latest)
==============================================================================
