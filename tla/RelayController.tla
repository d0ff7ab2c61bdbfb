--------------------------- MODULE RelayController ---------------------------
(***************************************************************************)
(* The relay outputs of the hub (RelayController.h).  A relay has a state, *)
(* a configured pin and a pin the controller cached at boot; its output is *)
(* low-active.  Relays can be linked, and one relay can be reserved for    *)
(* the horn and one for the light sensor by giving it an action type.      *)
(* Every operation runs to completion inside the single-threaded loop, so  *)
(* each is one action, whoever calls it (serial, WiFi, Bluetooth, MQTT,    *)
(* the scheduler, a sensor).                                               *)
(***************************************************************************)
EXTENDS Naturals, FiniteSets

CONSTANTS
    RelayCount,     \* ConfigRelayCount
    Pins,           \* the GPIO numbers a relay can be given
    BlockedPins,    \* the pins PinGuard refuses for a relay
    LinkSlots       \* ConfigMaxLinkedRelays

PinDisabled == 255  \* also MaxUint8Value and DefaultValue: "none"

ASSUME RelayAssumption ==
    /\ RelayCount \in 1 .. 254
    /\ Pins \subseteq 1 .. 254
    /\ BlockedPins \subseteq Pins
    /\ LinkSlots \in Nat

Relays      == 0 .. RelayCount - 1
RelayPins   == Pins \cup {PinDisabled}
ActionTypes == {"Default", "Horn", "NightRelay"}
RelayOrNone == Relays \cup {PinDisabled}
Links       == [from : Relays, to : Relays]
FreeSlot    == [from |-> PinDisabled, to |-> PinDisabled]
Slots       == 1 .. LinkSlots

VARIABLES
    pin,              \* config.relay.relays[r].pin
    actionType,       \* config.relay.relays[r].actionType
    defaultState,     \* config.relay.relays[r].defaultState
    linkedRelays,     \* config.relay.linkedRelays
    hornRelayIndex,   \* config.sound.hornRelayIndex
    nightRelayIndex,  \* config.lightSensor.nightRelayIndex
    relays,           \* _relays: the pins cached at boot
    relayStatus,      \* _relayStatus
    level             \* the level of every output pin, TRUE while it is LOW (on)

configVars == <<pin, actionType, defaultState, linkedRelays, hornRelayIndex,
                nightRelayIndex>>
outputVars == <<relayStatus, level>>
relayVars  == <<configVars, relays, outputVars>>

-----------------------------------------------------------------------------
(* Setting relays.  SwitchRelays(R, on) is the effect of setRelayStatus on *)
(* every relay of R: the calls of one loop all ask for the same state, so  *)
(* their order does not matter.                                            *)

IsHornRelay(r)     == actionType[r] = "Horn"
IsRelayDisabled(r) == relays[r] = PinDisabled

AcceptedHornToo(R) == R  \* fault: the reservation is not checked
Accepted(R) == {r \in R : ~IsHornRelay(r)}

\* The relays a link drives: one hop, and never a relay without a pin.
LinkedFrom(R) ==
    {linkedRelays[i].to : i \in {j \in Slots : /\ linkedRelays[j].from \in R
                                               /\ linkedRelays[j].to \in Relays
                                               /\ ~IsRelayDisabled(linkedRelays[j].to)}}

Driven(R) == Accepted(R) \cup LinkedFrom(Accepted(R))

ConfiguredPin(r) == pin[r]  \* fault: the pin configured now is written
OutputPin(r) == relays[r]

SwitchRelays(R, on) ==
    LET flips == {r \in Driven(R) : relayStatus[r] # on}
        pulled == {OutputPin(r) : r \in flips}
    IN  /\ relayStatus' = [r \in Relays |-> IF r \in flips THEN on ELSE relayStatus[r]]
        /\ level' = [p \in Pins |-> IF p \in pulled THEN on ELSE level[p]]

SetRelayState(r, on) ==
    /\ SwitchRelays({r}, on)
    /\ UNCHANGED <<configVars, relays>>

TurnAllRelays(on) ==
    /\ SwitchRelays(Relays, on)
    /\ UNCHANGED <<configVars, relays>>

-----------------------------------------------------------------------------
(* Configuration commands.  They change the configuration in RAM; the      *)
(* cached pins stay as they were until the next boot.                      *)

\* The last relay that has the type, or none: the rescan of setRelayActionType.
IndexOf(types, t) ==
    IF \E r \in Relays : types[r] = t
    THEN CHOOSE r \in Relays : /\ types[r] = t
                               /\ \A s \in Relays : types[s] = t => s <= r
    ELSE PinDisabled

WithSharedActionType(r, t) ==  \* fault: the previous holder keeps the type
    [actionType EXCEPT ![r] = t]

WithActionType(r, t) ==
    [s \in Relays |-> IF s = r THEN t
                      ELSE IF t # "Default" /\ actionType[s] = t THEN "Default"
                      ELSE actionType[s]]

SetRelayActionType(r, t) ==
    /\ actionType' = WithActionType(r, t)
    /\ hornRelayIndex' = IndexOf(actionType', "Horn")
    /\ nightRelayIndex' = IndexOf(actionType', "NightRelay")
    /\ UNCHANGED <<pin, defaultState, linkedRelays, relays, outputVars>>

SetRelayDefaultState(r, on) ==
    /\ defaultState' = [defaultState EXCEPT ![r] = on]
    /\ UNCHANGED <<pin, actionType, linkedRelays, hornRelayIndex,
                   nightRelayIndex, relays, outputVars>>

\* The first free slot takes the pair; with none free the call fails.
LinkRelays(r1, r2) ==
    \E i \in Slots :
        /\ linkedRelays[i].from = PinDisabled
        /\ \A j \in 1 .. i - 1 : linkedRelays[j].from # PinDisabled
        /\ linkedRelays' = [linkedRelays EXCEPT ![i] = [from |-> r1, to |-> r2]]
        /\ UNCHANGED <<pin, actionType, defaultState, hornRelayIndex,
                       nightRelayIndex, relays, outputVars>>

Cleared(slot) == FreeSlot

UnlinkRelay(r) ==
    /\ linkedRelays' = [i \in Slots |->
           IF r \in {linkedRelays[i].from, linkedRelays[i].to}
           THEN Cleared(linkedRelays[i]) ELSE linkedRelays[i]]
    /\ UNCHANGED <<pin, actionType, defaultState, hornRelayIndex,
                   nightRelayIndex, relays, outputVars>>

SetRelayPin(r, p) ==
    /\ p \notin BlockedPins
    /\ pin' = [pin EXCEPT ![r] = p]
    /\ UNCHANGED <<actionType, defaultState, linkedRelays, hornRelayIndex,
                   nightRelayIndex, relays, outputVars>>

-----------------------------------------------------------------------------
(* Boot: a reset releases every output, the controller takes its pins from *)
(* the configuration, and the relays whose default state is on are set as  *)
(* by setRelayState, one after the other.                                  *)

OpenedAtBoot ==
    LET enabled   == {r \in Relays : pin[r] # PinDisabled}
        commanded == {r \in enabled : defaultState[r] /\ ~IsHornRelay(r)}
        linked    == {linkedRelays[i].to :
                        i \in {j \in Slots : /\ linkedRelays[j].from \in commanded
                                             /\ linkedRelays[j].to \in enabled}}
    IN  commanded \cup linked

Boot ==
    /\ relays' = pin
    /\ relayStatus' = [r \in Relays |-> r \in OpenedAtBoot]
    /\ level' = [p \in Pins |-> \E r \in OpenedAtBoot : pin[r] = p]
    /\ UNCHANGED configVars

\* The first boot with a configuration that assigns pins and nothing else.
Init ==
    /\ pin \in [Relays -> RelayPins \ BlockedPins]
    /\ actionType = [r \in Relays |-> "Default"]
    /\ defaultState = [r \in Relays |-> FALSE]
    /\ linkedRelays = [i \in Slots |-> FreeSlot]
    /\ hornRelayIndex = PinDisabled
    /\ nightRelayIndex = PinDisabled
    /\ relays = pin
    /\ relayStatus = [r \in Relays |-> FALSE]
    /\ level = [p \in Pins |-> FALSE]

Command ==
    \/ \E r \in Relays, on \in BOOLEAN : SetRelayState(r, on)
    \/ \E on \in BOOLEAN : TurnAllRelays(on)
    \/ \E r \in Relays, t \in ActionTypes : SetRelayActionType(r, t)
    \/ \E r \in Relays, on \in BOOLEAN : SetRelayDefaultState(r, on)
    \/ \E r1, r2 \in Relays : LinkRelays(r1, r2)
    \/ \E r \in Relays : UnlinkRelay(r)
    \/ \E r \in Relays, p \in RelayPins : SetRelayPin(r, p)

Next == Command \/ Boot

Spec == Init /\ [][Next]_relayVars

-----------------------------------------------------------------------------
(* The types of every variable, and that a link slot is wholly free or     *)
(* wholly used: unlinkRelay and linkRelays write both halves.              *)
TypeOK ==
    /\ pin \in [Relays -> RelayPins]
    /\ actionType \in [Relays -> ActionTypes]
    /\ defaultState \in [Relays -> BOOLEAN]
    /\ linkedRelays \in [Slots -> Links \cup {FreeSlot}]
    /\ hornRelayIndex \in RelayOrNone
    /\ nightRelayIndex \in RelayOrNone
    /\ relays \in [Relays -> RelayPins]
    /\ relayStatus \in [Relays -> BOOLEAN]
    /\ level \in [Pins -> BOOLEAN]

(* A special action type belongs to at most one relay, and the two index   *)
(* fields, one of which the sound controller reads instead of the type,    *)
(* name exactly that relay (setRelayActionType keeps them).                *)
RolesAgree ==
    /\ \A r, s \in Relays :
           (actionType[r] = actionType[s] /\ actionType[r] # "Default") => r = s
    /\ \A r \in Relays : actionType[r] = "Horn" <=> hornRelayIndex = r
    /\ \A r \in Relays : actionType[r] = "NightRelay" <=> nightRelayIndex = r

(* The output of a relay follows its recorded state, whatever was linked,  *)
(* re-pinned or reserved since: the state is written only together with    *)
(* the cached pin.  A relay that shares its pin with another is left out.  *)
SoleOwner(r) == \A s \in Relays : relays[s] = relays[r] => s = r

OutputMatchesStatus ==
    \A r \in Relays :
        (~IsRelayDisabled(r) /\ SoleOwner(r)) => (level[relays[r]] <=> relayStatus[r])

(* No output is energised unless some relay recorded as on is wired to it: *)
(* a pin two relays share can be released too early, but it is never left  *)
(* on by a relay that says it is off.                                      *)
EnergisedHasOwner ==
    \A p \in Pins : level[p] => \E r \in Relays : relays[r] = p /\ relayStatus[r]

(* A relay reserved for the horn changes state only through a link or a    *)
(* reboot: no command that names it, alone or in bulk, switches it.        *)
ReservedOnlyThroughLink ==
    [][\A r \in Relays :
          (IsHornRelay(r) /\ relayStatus'[r] # relayStatus[r] /\ ~Boot)
            => \E i \in Slots : linkedRelays[i].to = r /\ linkedRelays[i].from # r]_relayVars
=============================================================================
