------------------------------ MODULE HubOutputs ------------------------------
(***************************************************************************)
(* The relay controller and the horn player together, as the loop of       *)
(* PowerControlHubApp runs them on one configuration and one set of output *)
(* pins.  The relay controller writes the pins it cached at boot and       *)
(* records what it wrote; the player writes the pin the configuration      *)
(* gives the horn relay now and records nothing.  The reset command edits   *)
(* the configuration directly.                                             *)
(***************************************************************************)
EXTENDS RelayController

CONSTANTS
    Signals, StartDelays, MaxStall,
    SoundBlastShortMs, SoundBlastLongMs, SoundBlastGapMs,
    MorseCodeShortMs, MorseCodeLongMs, MorseCodeGapMs,
    FogRepeatMs, SosRepeatMs,
    ReassignDuringBlast  \* FALSE: nobody edits the horn's settings during a blast

VARIABLES
    soundType, state, currentBlastIndex, elapsed,  \* SoundController: the signal
    soundStartDelay, soundRelayIndex, late

Sound == INSTANCE SoundController

hubVars == <<relayVars, soundType, state, currentBlastIndex, elapsed,
             soundStartDelay, soundRelayIndex, late>>
soundOnly == <<soundType, state, currentBlastIndex, elapsed,
               soundStartDelay, soundRelayIndex, late>>
relayOnly == <<actionType, defaultState, linkedRelays, hornRelayIndex,
               nightRelayIndex, relays, relayStatus>>

ASSUME HubAssumption == ReassignDuringBlast \in BOOLEAN

MayReassign == ReassignDuringBlast \/ state # "BlastOn"

-----------------------------------------------------------------------------
\* setRelayActionType() hands the new horn index on to the player.
HubSetActionType(r, t) ==
    /\ MayReassign
    /\ SetRelayActionType(r, t)
    /\ Sound!ConfigUpdated(soundStartDelay, hornRelayIndex')
    /\ UNCHANGED <<soundType, state, currentBlastIndex, elapsed, late>>

HubSetPin(r, p) ==
    /\ MayReassign
    /\ SetRelayPin(r, p)
    /\ UNCHANGED soundOnly

\* The relays and links can be commanded at any time.
UseRelays ==
    /\ \/ \E r \in Relays, on \in BOOLEAN : SetRelayState(r, on)
       \/ \E on \in BOOLEAN : TurnAllRelays(on)
       \/ \E r \in Relays, on \in BOOLEAN : SetRelayDefaultState(r, on)
       \/ \E r1, r2 \in Relays : LinkRelays(r1, r2)
       \/ \E r \in Relays : UnlinkRelay(r)
    /\ UNCHANGED soundOnly

\* The reset command: factory settings in RAM, nothing else is told.
ConfigReset ==
    /\ MayReassign
    /\ pin' = [r \in Relays |-> PinDisabled]
    /\ actionType' = [r \in Relays |-> "Default"]
    /\ defaultState' = [r \in Relays |-> FALSE]
    /\ linkedRelays' = [i \in Slots |-> FreeSlot]
    /\ hornRelayIndex' = PinDisabled /\ nightRelayIndex' = PinDisabled
    /\ UNCHANGED <<relays, outputVars, soundOnly>>

\* The start delay and location commands refresh the whole player setup.
UpdateSoundControllerConfig(delay) ==
    /\ MayReassign
    /\ Sound!ConfigUpdated(delay, hornRelayIndex)
    /\ UNCHANGED <<relayVars, soundType, state, currentBlastIndex, elapsed, late>>

Play(t) == Sound!PlaySound(t) /\ UNCHANGED relayOnly
Poll    == Sound!Update /\ UNCHANGED relayOnly
Tick    == Sound!Tick /\ UNCHANGED relayOnly

Reboot ==
    /\ Boot
    /\ soundType' = "None" /\ state' = "Idle"
    /\ currentBlastIndex' = 0 /\ elapsed' = 0 /\ late' = 0
    /\ Sound!ConfigUpdated(soundStartDelay, hornRelayIndex)

HubInit ==
    /\ Init
    /\ Sound!PlayerInit
    /\ soundStartDelay \in StartDelays
    /\ soundRelayIndex = hornRelayIndex

HubNext ==
    \/ \E r \in Relays, t \in ActionTypes : HubSetActionType(r, t)
    \/ \E r \in Relays, p \in RelayPins : HubSetPin(r, p)
    \/ UseRelays
    \/ ConfigReset
    \/ \E d \in StartDelays : UpdateSoundControllerConfig(d)
    \/ \E t \in Signals \cup {"None"} : Play(t)
    \/ Poll
    \/ Tick
    \/ Reboot

HubSpec == HubInit /\ [][HubNext]_hubVars

-----------------------------------------------------------------------------
OnByRelay(p) == \E r \in Relays : relays[r] = p /\ relayStatus[r]

OnByHorn(p) ==
    /\ state = "BlastOn"
    /\ soundRelayIndex \in Relays
    /\ pin[soundRelayIndex] = p

(* Nothing is on unexplained: an energised output belongs to a relay that  *)
(* is recorded as on or to the blast in progress, although two components  *)
(* write the pins and only one keeps a record.                             *)
EveryOutputExplained ==
    \A p \in Pins : level[p] => (OnByRelay(p) \/ OnByHorn(p))
=============================================================================
