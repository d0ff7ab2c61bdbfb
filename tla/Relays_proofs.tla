----------------------------- MODULE Relays_proofs -----------------------------
(***************************************************************************)
(* For any number of relays, pins and link slots.  The relay controller:   *)
(* types, the agreement of the action types with the index fields, the     *)
(* agreement of the outputs with the recorded states.  With the light      *)
(* sensor: the same, a debounced switch, and a night relay that follows    *)
(* it.  With the horn player on the same pins: the roles again, and an     *)
(* account of every output that is on.                                     *)
(***************************************************************************)
EXTENDS NightRelay, HubOutputs, TLAPS

USE DEF PinDisabled, Relays, RelayPins, ActionTypes, RelayOrNone, Links,
        FreeSlot, Slots, Zones

-----------------------------------------------------------------------------
(* Lemmas on the operators.                                                *)

(* The rescan of setRelayActionType, when at most one relay has the type,  *)
(* yields that relay, or none when there is no such relay.                 *)
LEMMA IndexOfUnique ==
    ASSUME NEW types, NEW t,
           \A r, s \in Relays : (types[r] = t /\ types[s] = t) => r = s
    PROVE  /\ IndexOf(types, t) \in RelayOrNone
           /\ \A r \in Relays : types[r] = t <=> IndexOf(types, t) = r
<1>1. CASE \E r \in Relays : types[r] = t
  <2>1. PICK r \in Relays : types[r] = t
    BY <1>1
  <2>2. /\ types[r] = t
        /\ \A s \in Relays : types[s] = t => s <= r
    <3>1. \A s \in Relays : types[s] = t => s = r
      BY <2>1
    <3>2. r <= r
      BY RelayAssumption
    <3> QED
      BY <2>1, <3>1, <3>2
  <2>3. IndexOf(types, t) = CHOOSE x \in Relays : /\ types[x] = t
                                /\ \A s \in Relays : types[s] = t => s <= x
    BY <1>1 DEF IndexOf
  <2>4. /\ IndexOf(types, t) \in Relays
        /\ types[IndexOf(types, t)] = t
    BY <2>2, <2>3
  <2> QED
    BY <2>4
<1>2. CASE ~ \E r \in Relays : types[r] = t
  <2>1. IndexOf(types, t) = 255
    BY <1>2 DEF IndexOf
  <2>2. 255 \notin Relays
    BY RelayAssumption
  <2> QED
    BY <1>2, <2>1, <2>2
<1> QED
  BY <1>1, <1>2

(* Giving a relay a role takes it from every other relay, and never makes  *)
(* two relays share one.                                                   *)
UniqueRoles(types) ==
    \A r, s \in Relays : (types[r] = types[s] /\ types[r] # "Default") => r = s

(* The relay that had a role of its own loses it to the one it is given to.*)
LEMMA WithActionTypeUnique ==
    ASSUME actionType \in [Relays -> ActionTypes], UniqueRoles(actionType),
           NEW r \in Relays, NEW t \in ActionTypes
    PROVE  /\ WithActionType(r, t) \in [Relays -> ActionTypes]
           /\ UniqueRoles(WithActionType(r, t))
  BY DEF WithActionType, UniqueRoles

-----------------------------------------------------------------------------
(* The roles and the types are kept together: the rescan finds the right   *)
(* relay only because no two relays share a role.                          *)
RolesInv == TypeOK /\ RolesAgree

(* The action types that are stored are read back with their roles.        *)
LEMMA RolesInit == Init => RolesInv
  BY RelayAssumption DEF Init, RolesInv, TypeOK, RolesAgree

(* Every step keeps types and roles together.                              *)
LEMMA RolesStep == RolesInv /\ [Next]_relayVars => RolesInv'
<1> SUFFICES ASSUME RolesInv, [Next]_relayVars
             PROVE  RolesInv'
  OBVIOUS
<1> USE DEF RolesInv
<1>1. ASSUME NEW r \in Relays, NEW on \in BOOLEAN, SetRelayState(r, on)
      PROVE  RolesInv'
  BY <1>1 DEF SetRelayState, SwitchRelays, configVars, TypeOK, RolesAgree
<1>2. ASSUME NEW on \in BOOLEAN, TurnAllRelays(on)
      PROVE  RolesInv'
  BY <1>2 DEF TurnAllRelays, SwitchRelays, configVars, TypeOK, RolesAgree
<1>3. ASSUME NEW r \in Relays, NEW t \in ActionTypes, SetRelayActionType(r, t)
      PROVE  RolesInv'
  <2>1. UniqueRoles(actionType)
    BY DEF RolesAgree, UniqueRoles
  <2>2. actionType' \in [Relays -> ActionTypes] /\ UniqueRoles(actionType')
    BY <1>3, <2>1, WithActionTypeUnique DEF SetRelayActionType, TypeOK
  <2>3. \A u \in {"Horn", "NightRelay"}, p, q \in Relays :
            (actionType'[p] = u /\ actionType'[q] = u) => p = q
    BY <2>2 DEF UniqueRoles
  <2>4. /\ hornRelayIndex' \in RelayOrNone
        /\ \A p \in Relays : actionType'[p] = "Horn" <=> hornRelayIndex' = p
    BY <1>3, <2>3, IndexOfUnique DEF SetRelayActionType
  <2>5. /\ nightRelayIndex' \in RelayOrNone
        /\ \A p \in Relays : actionType'[p] = "NightRelay" <=> nightRelayIndex' = p
    BY <1>3, <2>3, IndexOfUnique DEF SetRelayActionType
  <2>6. TypeOK'
    BY <1>3, <2>2, <2>4, <2>5 DEF SetRelayActionType, outputVars, TypeOK
  <2>7. RolesAgree'
    BY <2>2, <2>4, <2>5 DEF RolesAgree, UniqueRoles
  <2> QED
    BY <2>6, <2>7
<1>4. ASSUME NEW r \in Relays, NEW on \in BOOLEAN, SetRelayDefaultState(r, on)
      PROVE  RolesInv'
  BY <1>4 DEF SetRelayDefaultState, outputVars, TypeOK, RolesAgree
<1>5. ASSUME NEW r1 \in Relays, NEW r2 \in Relays, LinkRelays(r1, r2)
      PROVE  RolesInv'
  BY <1>5 DEF LinkRelays, outputVars, TypeOK, RolesAgree
<1>6. ASSUME NEW r \in Relays, UnlinkRelay(r)
      PROVE  RolesInv'
  BY <1>6 DEF UnlinkRelay, Cleared, outputVars, TypeOK, RolesAgree
<1>7. ASSUME NEW r \in Relays, NEW p \in RelayPins, SetRelayPin(r, p)
      PROVE  RolesInv'
  BY <1>7 DEF SetRelayPin, outputVars, TypeOK, RolesAgree
<1>8. CASE Boot
  BY <1>8 DEF Boot, configVars, TypeOK, RolesAgree
<1>9. CASE UNCHANGED relayVars
  BY <1>9 DEF relayVars, configVars, outputVars, TypeOK, RolesAgree
<1> QED
  BY <1>1, <1>2, <1>3, <1>4, <1>5, <1>6, <1>7, <1>8, <1>9 DEF Next, Command

(* Every variable keeps its type, and no link slot is ever half used.      *)
THEOREM TypeCorrect == Spec => []TypeOK
<1>1. RolesInv => TypeOK
  BY DEF RolesInv
<1> QED
  BY <1>1, RolesInit, RolesStep, PTL DEF Spec

(* The horn and the night relay are always exactly the relays their index  *)
(* fields name.                                                            *)
THEOREM RolesAlwaysAgree == Spec => []RolesAgree
<1>1. RolesInv => RolesAgree
  BY DEF RolesInv
<1> QED
  BY <1>1, RolesInit, RolesStep, PTL DEF Spec

-----------------------------------------------------------------------------
(* The outputs.  Both invariants are inductive with the types alone: an    *)
(* output changes only in SwitchRelays, with the state of a relay wired to *)
(* it, or in Boot, which sets both anew.                                   *)
OutputInv == OutputMatchesStatus /\ EnergisedHasOwner

(* Pins of one relay follow its record; shared pins keep an owner.         *)
LEMMA SwitchKeepsOutputs ==
    ASSUME TypeOK, OutputInv, NEW R \in SUBSET Relays, NEW on \in BOOLEAN,
           SwitchRelays(R, on), UNCHANGED relays
    PROVE  OutputInv'
<1> DEFINE flips == {r \in Driven(R) : relayStatus[r] # on}
           pulled == {relays[r] : r \in flips}
<1>1. /\ relayStatus' = [r \in Relays |-> IF r \in flips THEN on ELSE relayStatus[r]]
      /\ level' = [p \in Pins |-> IF p \in pulled THEN on ELSE level[p]]
      /\ relays' = relays
  BY DEF SwitchRelays, OutputPin
<1>2. relays \in [Relays -> Pins \cup {PinDisabled}]
  BY DEF TypeOK
<1>3. flips \subseteq Relays
  BY DEF Driven, Accepted, LinkedFrom
<1> HIDE DEF flips
<1>4. OutputMatchesStatus'
  <2> SUFFICES ASSUME NEW r \in Relays, relays[r] # PinDisabled,
                      \A s \in Relays : relays[s] = relays[r] => s = r
               PROVE  level'[relays[r]] <=> relayStatus'[r]
    BY <1>1 DEF OutputMatchesStatus, SoleOwner, IsRelayDisabled
  <2>1. relays[r] \in Pins
    BY <1>2
  <2>2. level[relays[r]] <=> relayStatus[r]
    BY DEF OutputInv, OutputMatchesStatus, SoleOwner, IsRelayDisabled
  <2> QED
    BY <1>1, <1>3, <2>1, <2>2
<1>5. EnergisedHasOwner'
  <2> SUFFICES ASSUME NEW p \in Pins, level'[p]
               PROVE  \E r \in Relays : relays[r] = p /\ relayStatus'[r]
    BY <1>1 DEF EnergisedHasOwner
  <2>1. CASE p \in pulled
    BY <1>1, <1>3, <2>1
  <2>2. CASE p \notin pulled
    <3>1. PICK r \in Relays : relays[r] = p /\ relayStatus[r]
      BY <1>1, <2>2 DEF OutputInv, EnergisedHasOwner
    <3>2. r \notin flips
      BY <2>2, <3>1
    <3> QED
      BY <1>1, <3>1, <3>2
  <2> QED
    BY <2>1, <2>2
<1> QED
  BY <1>4, <1>5 DEF OutputInv

(* A boot releases every output and energises those of the relays it       *)
(* opens, whose recorded state is on.                                      *)
LEMMA BootSetsOutputs == TypeOK /\ Boot => OutputInv'
<1> SUFFICES ASSUME TypeOK, Boot
             PROVE  OutputInv'
  OBVIOUS
<1>1. /\ relays' = pin
      /\ relayStatus' = [r \in Relays |-> r \in OpenedAtBoot]
      /\ level' = [p \in Pins |-> \E r \in OpenedAtBoot : pin[r] = p]
  BY DEF Boot
<1>2. OpenedAtBoot \subseteq Relays
  BY DEF OpenedAtBoot
<1>3. pin \in [Relays -> Pins \cup {PinDisabled}]
  BY DEF TypeOK
<1>4. OutputMatchesStatus'
  <2> SUFFICES ASSUME NEW r \in Relays, pin[r] # PinDisabled,
                      \A s \in Relays : pin[s] = pin[r] => s = r
               PROVE  level'[pin[r]] <=> relayStatus'[r]
    BY <1>1 DEF OutputMatchesStatus, SoleOwner, IsRelayDisabled
  <2>1. pin[r] \in Pins
    BY <1>3
  <2> QED
    BY <1>1, <1>2, <2>1
<1>5. EnergisedHasOwner'
  BY <1>1, <1>2 DEF EnergisedHasOwner
<1> QED
  BY <1>4, <1>5 DEF OutputInv

(* Every step keeps the outputs and the records together.                  *)
LEMMA OutputStep == TypeOK /\ OutputInv /\ [Next]_relayVars => OutputInv'
<1> SUFFICES ASSUME TypeOK, OutputInv, [Next]_relayVars
             PROVE  OutputInv'
  OBVIOUS
<1>1. ASSUME NEW r \in Relays, NEW on \in BOOLEAN, SetRelayState(r, on)
      PROVE  OutputInv'
  <2>1. {r} \in SUBSET Relays
    OBVIOUS
  <2> QED
    BY <1>1, <2>1, SwitchKeepsOutputs DEF SetRelayState
<1>2. ASSUME NEW on \in BOOLEAN, TurnAllRelays(on)
      PROVE  OutputInv'
  BY <1>2, SwitchKeepsOutputs DEF TurnAllRelays
<1>3. ASSUME UNCHANGED <<relays, outputVars>>
      PROVE  OutputInv'
  BY <1>3 DEF outputVars, OutputInv, OutputMatchesStatus, EnergisedHasOwner,
              SoleOwner, IsRelayDisabled
<1>4. CASE Boot
  BY <1>4, BootSetsOutputs
<1> QED
  BY <1>1, <1>2, <1>3, <1>4 DEF Next, Command, SetRelayActionType, SetRelayDefaultState,
     LinkRelays, UnlinkRelay, SetRelayPin, relayVars, outputVars

(* At boot the outputs of the relays that start open are on, and no other. *)
LEMMA OutputInit == Init => OutputInv
<1> SUFFICES ASSUME Init
             PROVE  OutputInv
  OBVIOUS
<1>1. relays \in [Relays -> Pins \cup {PinDisabled}]
  BY DEF Init
<1>2. \A p \in Pins : level[p] = FALSE
  BY DEF Init
<1>3. \A r \in Relays : relayStatus[r] = FALSE
  BY DEF Init
<1> QED
  BY <1>1, <1>2, <1>3 DEF OutputInv, OutputMatchesStatus, EnergisedHasOwner,
     SoleOwner, IsRelayDisabled

(* A relay alone on its pin is energised exactly when it is recorded as    *)
(* on, for every history of commands, links, re-pinnings and reboots.      *)
THEOREM OutputsAlwaysMatch == Spec => []OutputMatchesStatus
<1>1. OutputInv => OutputMatchesStatus
  BY DEF OutputInv
<1> QED
  BY <1>1, OutputInit, TypeCorrect, OutputStep, PTL DEF Spec

(* No output, shared or not, is energised without a relay recorded as on.  *)
THEOREM EnergisedAlwaysOwned == Spec => []EnergisedHasOwner
<1>1. OutputInv => EnergisedHasOwner
  BY DEF OutputInv
<1> QED
  BY <1>1, OutputInit, TypeCorrect, OutputStep, PTL DEF Spec

-----------------------------------------------------------------------------
(* A relay that is driven by a switch of R and is not accepted itself is   *)
(* at the end of a link from another relay.                                *)
LEMMA DrivenHornIsLinked ==
    ASSUME NEW R \in SUBSET Relays, NEW r \in Driven(R), IsHornRelay(r)
    PROVE  \E i \in Slots : linkedRelays[i].to = r /\ linkedRelays[i].from # r
<1>1. r \in LinkedFrom(Accepted(R)) /\ r \notin Accepted(R)
  BY DEF Driven, Accepted
<1> QED
  BY <1>1 DEF LinkedFrom

(* No command, alone or in bulk, switches the relay reserved for the horn  *)
(* except through a link from another relay.                               *)
THEOREM ReservedStaysReserved == Spec => ReservedOnlyThroughLink
<1> DEFINE Kept ==
        \A r \in Relays :
            (IsHornRelay(r) /\ relayStatus'[r] # relayStatus[r] /\ ~Boot)
              => \E i \in Slots : linkedRelays[i].to = r /\ linkedRelays[i].from # r
<1>1. ASSUME NEW R \in SUBSET Relays, NEW on \in BOOLEAN, SwitchRelays(R, on)
      PROVE  Kept
  <2> SUFFICES ASSUME NEW r \in Relays, IsHornRelay(r), relayStatus'[r] # relayStatus[r]
               PROVE  \E i \in Slots : linkedRelays[i].to = r /\ linkedRelays[i].from # r
    OBVIOUS
  <2>1. r \in Driven(R)
    BY <1>1 DEF SwitchRelays
  <2> QED
    BY <2>1, DrivenHornIsLinked
<1>2. ASSUME UNCHANGED relayStatus
      PROVE  Kept
  BY <1>2
<1>3. [Next]_relayVars => [Kept]_relayVars
  <2> SUFFICES ASSUME Next
               PROVE  Kept
    OBVIOUS
  <2>1. ASSUME NEW r \in Relays, NEW on \in BOOLEAN, SetRelayState(r, on)
        PROVE  Kept
    <3>1. {r} \in SUBSET Relays
      OBVIOUS
    <3> QED
      BY <1>1, <2>1, <3>1 DEF SetRelayState
  <2>2. ASSUME NEW on \in BOOLEAN, TurnAllRelays(on)
        PROVE  Kept
    BY <1>1, <2>2 DEF TurnAllRelays
  <2>3. CASE Boot
    BY <2>3
  <2> QED
    BY <1>2, <2>1, <2>2, <2>3 DEF Next, Command, SetRelayActionType,
       SetRelayDefaultState, LinkRelays, UnlinkRelay, SetRelayPin, outputVars
<1> QED
  BY <1>3, PTL DEF Spec, ReservedOnlyThroughLink

(* The light sensor and the night relay.                                   *)

LightTypeOK ==
    /\ isDaytime \in BOOLEAN
    /\ pendingDaytime \in BOOLEAN
    /\ pendingDaytimeCount \in 1 .. DaytimeConfirmReadings

\* A pending state that was confirmed is the one that is reported.
CountBelowLimit ==
    pendingDaytime # isDaytime => pendingDaytimeCount < DaytimeConfirmReadings

NightInv == RolesInv /\ LightTypeOK /\ CountBelowLimit

-----------------------------------------------------------------------------
(* The relays the sensor drives: the holder of the role, or none.          *)
LEMMA NightRelaysAreTheHolder ==
    ASSUME RolesInv
    PROVE  NightRelays = {r \in Relays : nightRelayIndex = r}
<1>1. \A r \in Relays : actionType[r] = "NightRelay" <=> nightRelayIndex = r
  BY DEF RolesInv, RolesAgree
<1>2. \A r \in Relays : r <= r
  BY RelayAssumption
<1> QED
  BY <1>1, <1>2 DEF NightRelays

(* A switch of no relay leaves every output as it is.                      *)
LEMMA SwitchOfNone ==
    ASSUME TypeOK, NEW on, SwitchRelays({}, on)
    PROVE  UNCHANGED outputVars
<1>1. Driven({}) = {}
  BY DEF Driven, Accepted, LinkedFrom
<1>2. relayStatus' = [r \in Relays |-> relayStatus[r]]
  BY <1>1 DEF SwitchRelays
<1>3. level' = [p \in Pins |-> level[p]]
  BY <1>1 DEF SwitchRelays
<1> QED
  BY <1>2, <1>3 DEF TypeOK, outputVars

(* What the sensor does to the relays is one call of setRelayState or      *)
(* nothing at all.                                                         *)
LEMMA UpdateIsARelayStep ==
    ASSUME RolesInv, LightTypeOK, NEW zone \in Zones, update(zone)
    PROVE  [Next]_relayVars
<1>1. UNCHANGED <<configVars, relays>>
  BY DEF update
<1>2. CASE UNCHANGED outputVars
  BY <1>1, <1>2 DEF relayVars
<1>3. CASE syncNightRelay(Reading(zone))
  <2>1. CASE nightRelayIndex \in Relays
    <3>1. NightRelays = {nightRelayIndex}
      BY <2>1, NightRelaysAreTheHolder
    <3>2. SetRelayState(nightRelayIndex, ~Reading(zone))
      BY <1>1, <1>3, <3>1 DEF syncNightRelay, SetRelayState
    <3>3. (~Reading(zone)) \in BOOLEAN
      BY DEF Reading, LightTypeOK
    <3> QED
      BY <2>1, <3>2, <3>3 DEF Next, Command
  <2>2. CASE nightRelayIndex \notin Relays
    <3>1. NightRelays = {}
      BY <2>2, NightRelaysAreTheHolder
    <3>2. UNCHANGED outputVars
      BY <1>3, <3>1, SwitchOfNone DEF syncNightRelay, RolesInv
    <3> QED
      BY <1>1, <3>2 DEF relayVars
  <2> QED
    BY <2>1, <2>2
<1> QED
  BY <1>2, <1>3 DEF update

(* What the light sensor does is what a user of the relays may do.         *)
LEMMA NightStepIsARelayStep ==
    RolesInv /\ LightTypeOK /\ [NightNext]_nightVars => [Next]_relayVars
  BY UpdateIsARelayStep DEF NightNext, RelayCommand, Restart, Next, nightVars

-----------------------------------------------------------------------------
(* The counter.                                                            *)
LEMMA UpdateKeepsCount ==
    ASSUME LightTypeOK, CountBelowLimit, NEW zone \in Zones, update(zone)
    PROVE  LightTypeOK' /\ CountBelowLimit'
<1> DEFINE reading == Reading(zone)
<1>1. reading \in BOOLEAN
  BY DEF Reading, LightTypeOK
<1>2. /\ pendingDaytime' = reading
      /\ pendingDaytimeCount' = CountAfter(reading)
      /\ \/ Confirmed(reading) /\ isDaytime' = reading
         \/ ~Confirmed(reading) /\ isDaytime' = isDaytime
  BY DEF update
<1> HIDE DEF reading
<1>3. CountAfter(reading) \in 1 .. DaytimeConfirmReadings
  BY LightAssumption DEF CountAfter, LightTypeOK
<1>4. isDaytime' \in BOOLEAN
  BY <1>1, <1>2 DEF LightTypeOK
<1>5. CountBelowLimit'
  <2>1. CASE Confirmed(reading)
    BY <1>2, <2>1 DEF CountBelowLimit, Confirmed
  <2>2. CASE ~Confirmed(reading)
    BY <1>2, <1>3, <2>2, LightAssumption DEF CountBelowLimit, Confirmed
  <2> QED
    BY <2>1, <2>2
<1> QED
  BY <1>1, <1>2, <1>3, <1>4, <1>5 DEF LightTypeOK

(* The sensor starts by day, with nothing pending.                         *)
LEMMA NightInvInit == NightInit => NightInv
<1> SUFFICES ASSUME NightInit
             PROVE  NightInv
  OBVIOUS
<1>1. RolesInv
  BY RolesInit DEF NightInit
<1>2. DaytimeConfirmReadings \in 1 .. DaytimeConfirmReadings
  BY LightAssumption
<1> QED
  BY <1>1, <1>2 DEF NightInit, NightInv, LightTypeOK, CountBelowLimit

(* Every step keeps the roles, the types and the bound of the counter.     *)
LEMMA NightInvStep == NightInv /\ [NightNext]_nightVars => NightInv'
<1> SUFFICES ASSUME NightInv, [NightNext]_nightVars
             PROVE  NightInv'
  OBVIOUS
<1>1. RolesInv'
  BY NightStepIsARelayStep, RolesStep DEF NightInv
<1>2. LightTypeOK' /\ CountBelowLimit'
  <2>1. ASSUME NEW zone \in Zones, update(zone)
        PROVE  LightTypeOK' /\ CountBelowLimit'
    BY <2>1, UpdateKeepsCount DEF NightInv
  <2>2. CASE UNCHANGED lightVars
    BY <2>2 DEF NightInv, LightTypeOK, CountBelowLimit, lightVars
  <2>3. CASE Restart
    <3>1. DaytimeConfirmReadings \in 1 .. DaytimeConfirmReadings
      BY LightAssumption
    <3> QED
      BY <2>3, <3>1 DEF Restart, LightTypeOK, CountBelowLimit
  <2> QED
    BY <2>1, <2>2, <2>3 DEF NightNext, RelayCommand, nightVars
<1> QED
  BY <1>1, <1>2 DEF NightInv

(* The invariant of the composition holds throughout.                      *)
LEMMA NightInvAlways == NightSpec => []NightInv
  BY NightInvInit, NightInvStep, PTL DEF NightSpec

-----------------------------------------------------------------------------
(* With the light sensor among its callers the relay controller still      *)
(* behaves as RelayController says, so that every theorem about it holds.  *)
THEOREM SensorIsARelayUser == NightSpec => Spec
<1>1. NightInit => Init
  BY DEF NightInit
<1>2. NightInv /\ [NightNext]_nightVars => [Next]_relayVars
  BY NightStepIsARelayStep DEF NightInv
<1> QED
  BY <1>1, <1>2, NightInvAlways, PTL DEF NightSpec, Spec

(* The state of day and night is a debounced switch: it turns on the last  *)
(* of a row of contradicting readings, never on fewer.                     *)
THEOREM LightIsDebounced == NightSpec => Debounced
<1> DEFINE contrary == IF pendingDaytime = isDaytime THEN 0 ELSE pendingDaytimeCount
<1>1. NightInit => Debouncer!Init
  BY DEF NightInit, Debouncer!Init
<1>2. NightInv /\ [NightNext]_nightVars => [Debouncer!Next]_(Debouncer!debounceVars)
  <2> SUFFICES ASSUME NightInv, NightNext
               PROVE  Debouncer!Next \/ UNCHANGED <<isDaytime, contrary>>
    BY DEF nightVars, lightVars, Debouncer!debounceVars
  <2>1. ASSUME NEW zone \in Zones, update(zone)
        PROVE  Debouncer!Next
    <3> DEFINE reading == Reading(zone)
    <3>1. /\ pendingDaytime' = reading
          /\ pendingDaytimeCount' = CountAfter(reading)
          /\ \/ Confirmed(reading) /\ isDaytime' = reading
             \/ ~Confirmed(reading) /\ isDaytime' = isDaytime
      BY <2>1 DEF update
    <3>2. reading \in BOOLEAN /\ isDaytime \in BOOLEAN /\ pendingDaytime \in BOOLEAN
      BY DEF Reading, NightInv, LightTypeOK
    <3>3. pendingDaytimeCount \in 1 .. DaytimeConfirmReadings
      BY DEF NightInv, LightTypeOK
    <3>4. pendingDaytime # isDaytime => pendingDaytimeCount < DaytimeConfirmReadings
      BY DEF NightInv, CountBelowLimit
    <3> HIDE DEF reading
    <3>5. CASE reading = isDaytime
      <4>1. ~Confirmed(reading)
        BY <3>5 DEF Confirmed
      <4>2. contrary' = 0 /\ isDaytime' = isDaytime
        BY <3>1, <3>5, <4>1
      <4> QED
        BY <4>2 DEF Debouncer!Next, Debouncer!Agree
    <3>6. CASE reading # isDaytime
      <4>1. CountAfter(reading) = contrary + 1
        BY <3>2, <3>3, <3>4, <3>6, LightAssumption DEF CountAfter
      <4>2. CASE Confirmed(reading)
        <5>1. isDaytime' = ~isDaytime
          BY <3>1, <3>2, <3>6, <4>2
        <5>2. contrary' = 0
          BY <3>1, <4>2
        <5>3. contrary + 1 = DaytimeConfirmReadings
          BY <3>3, <3>4, <4>1, <4>2, LightAssumption DEF Confirmed
        <5> QED
          BY <5>1, <5>2, <5>3 DEF Debouncer!Next, Debouncer!Turn
      <4>3. CASE ~Confirmed(reading)
        <5>1. contrary' = contrary + 1 /\ isDaytime' = isDaytime
          BY <3>1, <3>6, <4>1, <4>3
        <5>2. contrary + 1 < DaytimeConfirmReadings
          BY <3>3, <3>6, <4>1, <4>3, LightAssumption DEF Confirmed
        <5> QED
          BY <5>1, <5>2 DEF Debouncer!Next, Debouncer!Doubt
      <4> QED
        BY <4>2, <4>3
    <3> QED
      BY <3>5, <3>6
  <2>2. CASE RelayCommand
    BY <2>2 DEF RelayCommand, lightVars
  <2>3. CASE Restart
    BY <2>3 DEF Restart, Debouncer!Next, Debouncer!Restart
  <2> QED
    BY <2>1, <2>2, <2>3 DEF NightNext
<1> QED
  BY <1>1, <1>2, NightInvAlways, PTL DEF NightSpec, Debounced, Debouncer!Spec

-----------------------------------------------------------------------------
(* Dusk and dawn, and they alone, switch the relay with the night role and *)
(* those linked to it, to the state that fits.                             *)
THEOREM NightRelayFollows == NightSpec => FollowsLight
<1> DEFINE Follows ==
        \A zone \in Zones : update(zone) =>
          \A r \in Relays :
             /\ relayStatus'[r] # relayStatus[r] =>
                   /\ isDaytime' # isDaytime
                   /\ relayStatus'[r] = ~isDaytime'
                   /\ \/ nightRelayIndex = r
                      \/ \E i \in Slots :
                            linkedRelays[i] = [from |-> nightRelayIndex, to |-> r]
             /\ (isDaytime' # isDaytime /\ nightRelayIndex = r) =>
                   relayStatus'[r] = ~isDaytime'
<1>1. NightInv => Follows
  <2> SUFFICES ASSUME NightInv, NEW zone \in Zones, update(zone), NEW r \in Relays
               PROVE  /\ relayStatus'[r] # relayStatus[r] =>
                            /\ isDaytime' # isDaytime
                            /\ relayStatus'[r] = ~isDaytime'
                            /\ \/ nightRelayIndex = r
                               \/ \E i \in Slots :
                                     linkedRelays[i] = [from |-> nightRelayIndex, to |-> r]
                      /\ (isDaytime' # isDaytime /\ nightRelayIndex = r) =>
                            relayStatus'[r] = ~isDaytime'
    OBVIOUS
  <2>1. CASE ~Confirmed(Reading(zone))
    BY <2>1 DEF update, outputVars
  <2>2. CASE Confirmed(Reading(zone))
    <3>1. isDaytime' # isDaytime /\ isDaytime' = Reading(zone)
      BY <2>2 DEF update, Confirmed
    <3>2. NightRelays = {s \in Relays : nightRelayIndex = s}
      BY NightRelaysAreTheHolder DEF NightInv
    <3>3. relayStatus' = [s \in Relays |->
              IF s \in Driven(NightRelays) /\ relayStatus[s] # ~Reading(zone)
              THEN ~Reading(zone) ELSE relayStatus[s]]
      <4>1. Driven(NightRelays) \subseteq Relays
        BY DEF Driven, Accepted, LinkedFrom, NightRelays
      <4>2. SwitchRelays(NightRelays, ~Reading(zone))
        BY <2>2 DEF update, syncNightRelay
      <4> QED
        BY <4>1, <4>2 DEF SwitchRelays
    <3>4. r \in Driven(NightRelays) =>
              \/ nightRelayIndex = r
              \/ \E i \in Slots : linkedRelays[i] = [from |-> nightRelayIndex, to |-> r]
      <4> SUFFICES ASSUME r \in LinkedFrom(Accepted(NightRelays))
                   PROVE  \E i \in Slots :
                              linkedRelays[i] = [from |-> nightRelayIndex, to |-> r]
        BY <3>2 DEF Driven, Accepted
      <4>1. PICK i \in Slots : /\ linkedRelays[i].from \in Accepted(NightRelays)
                               /\ linkedRelays[i].to = r
        BY DEF LinkedFrom
      <4>2. linkedRelays[i].from = nightRelayIndex
        BY <3>2, <4>1 DEF Accepted
      <4>3. linkedRelays[i] \in Links \cup {FreeSlot}
        BY DEF NightInv, RolesInv, TypeOK
      <4>4. linkedRelays[i] = [from |-> nightRelayIndex, to |-> r]
        BY <4>1, <4>2, <4>3
      <4> QED
        BY <4>4
    <3>5. nightRelayIndex = r => r \in Driven(NightRelays)
      <4> SUFFICES ASSUME nightRelayIndex = r
                   PROVE  r \in Accepted(NightRelays)
        BY DEF Driven
      <4>1. actionType[r] = "NightRelay"
        BY DEF NightInv, RolesInv, RolesAgree
      <4> QED
        BY <3>2, <4>1 DEF Accepted, IsHornRelay
    <3>6. relayStatus[r] \in BOOLEAN
      BY DEF NightInv, RolesInv, TypeOK
    <3>7. CASE r \in Driven(NightRelays)
      BY <3>1, <3>3, <3>4, <3>6, <3>7, Zenon
    <3>8. CASE r \notin Driven(NightRelays)
      BY <3>3, <3>5, <3>8
    <3> QED
      BY <3>7, <3>8
  <2> QED
    BY <2>1, <2>2
<1> QED
  BY <1>1, NightInvAlways, PTL DEF FollowsLight

-----------------------------------------------------------------------------
(* The hub: the relays and the horn on the same pins.                      *)

(* What a step of the player does to the outputs: nothing, or the horn's   *)
(* pin follows the blast.                                                  *)
HornOutputs(on) ==
    level' = IF soundRelayIndex \in Relays /\ pin[soundRelayIndex] \in Pins
             THEN [level EXCEPT ![pin[soundRelayIndex]] = on]
             ELSE level

(* A request ends the blast that was on and takes the level off its pin.   *)
LEMMA PlayOutputs ==
    ASSUME NEW t, Sound!PlaySound(t)
    PROVE  /\ state' # "BlastOn"
           /\ IF state = "Idle" THEN level' = level ELSE HornOutputs(FALSE)
           /\ UNCHANGED <<pin, soundRelayIndex, soundStartDelay>>
  BY DEF Sound!PlaySound, Sound!LevelWhenReplaced, Sound!HornLevel, Sound!isPlaying,
         Sound!Silent, Sound!setupVars, HornOutputs

(* A poll either leaves level and blast alone, or changes both together.   *)
LEMMA PollOutputs ==
    ASSUME Sound!Update
    PROVE  /\ \/ level' = level /\ state' = state
              \/ HornOutputs(TRUE) /\ state # "BlastOn" /\ state' = "BlastOn"
              \/ HornOutputs(FALSE) /\ state' # "BlastOn"
              \/ level' = level /\ state # "BlastOn"
           /\ UNCHANGED <<pin, soundRelayIndex, soundStartDelay>>
  BY DEF Sound!Update, Sound!Transition, Sound!FirstBlast, Sound!EndBlast,
         Sound!EndPattern, Sound!NextBlast, Sound!RestartPattern, Sound!HornLevel,
         Sound!Enter, Sound!Silent, Sound!setupVars, Sound!playerVars, HornOutputs

(* The player changes the level of pins only: types, roles and records of  *)
(* the relays are not its business.                                        *)
LEMMA HornKeepsRoles ==
    ASSUME RolesInv, UNCHANGED relayOnly, UNCHANGED pin,
           \/ level' = level
           \/ \E on \in BOOLEAN : HornOutputs(on)
    PROVE  RolesInv'
<1>1. level' \in [Pins -> BOOLEAN]
  BY DEF RolesInv, TypeOK, HornOutputs
<1> QED
  BY <1>1 DEF RolesInv, TypeOK, RolesAgree, relayOnly

(* Every step of the hub is one of the relay controller, one of the        *)
(* player, or the reset that clears all roles.                             *)
LEMMA HubRolesStep == RolesInv /\ [HubNext]_hubVars => RolesInv'
<1> SUFFICES ASSUME RolesInv, [HubNext]_hubVars
             PROVE  RolesInv'
  OBVIOUS
<1>1. ASSUME [Next]_relayVars
      PROVE  RolesInv'
  BY <1>1, RolesStep
<1>2. CASE ConfigReset
  BY <1>2, RelayAssumption DEF ConfigReset, RolesInv, TypeOK, RolesAgree, outputVars
<1>3. ASSUME NEW t \in Signals \cup {"None"}, Play(t)
      PROVE  RolesInv'
  BY <1>3, PlayOutputs, HornKeepsRoles DEF Play
<1>4. CASE Poll
  BY <1>4, PollOutputs, HornKeepsRoles DEF Poll
<1>5. CASE Tick
  BY <1>5, HornKeepsRoles DEF Tick, Sound!Tick
<1>6. ASSUME NEW r \in Relays, NEW t \in ActionTypes, HubSetActionType(r, t)
      PROVE  RolesInv'
  BY <1>1, <1>6 DEF HubSetActionType, Next, Command
<1>7. ASSUME NEW r \in Relays, NEW p \in RelayPins, HubSetPin(r, p)
      PROVE  RolesInv'
  BY <1>1, <1>7 DEF HubSetPin, Next, Command
<1>8. CASE UseRelays
  BY <1>1, <1>8 DEF UseRelays, Next, Command
<1>9. ASSUME NEW d \in StartDelays, UpdateSoundControllerConfig(d)
      PROVE  RolesInv'
  BY <1>1, <1>9 DEF UpdateSoundControllerConfig
<1>10. CASE Reboot
  BY <1>1, <1>10 DEF Reboot, Next
<1>11. CASE UNCHANGED hubVars
  BY <1>1, <1>11 DEF hubVars
<1> QED
  BY <1>2, <1>3, <1>4, <1>5, <1>6, <1>7, <1>8, <1>9, <1>10, <1>11 DEF HubNext

(* Also with the player on the same pins, and resets of the configuration  *)
(* beside its handlers, a role belongs to one relay and the index fields   *)
(* name it.                                                                *)
THEOREM HubRolesAgree == HubSpec => []RolesAgree
<1>1. HubInit => RolesInv
  BY RolesInit DEF HubInit
<1>2. RolesInv => RolesAgree
  BY DEF RolesInv
<1> QED
  BY <1>1, <1>2, HubRolesStep, PTL DEF HubSpec

-----------------------------------------------------------------------------
(* Switching relays explains what it energises, and takes the explanation  *)
(* of no output that stays on.                                             *)
LEMMA SwitchStaysExplained ==
    ASSUME TypeOK, EveryOutputExplained, NEW R \in SUBSET Relays, NEW on \in BOOLEAN,
           SwitchRelays(R, on), UNCHANGED <<configVars, relays, soundOnly>>
    PROVE  EveryOutputExplained'
<1> DEFINE flips == {r \in Driven(R) : relayStatus[r] # on}
           pulled == {relays[r] : r \in flips}
<1>1. /\ relayStatus' = [r \in Relays |-> IF r \in flips THEN on ELSE relayStatus[r]]
      /\ level' = [p \in Pins |-> IF p \in pulled THEN on ELSE level[p]]
      /\ relays' = relays
  BY DEF SwitchRelays, OutputPin
<1>2. flips \subseteq Relays
  BY DEF Driven, Accepted, LinkedFrom
<1> HIDE DEF flips
<1> SUFFICES ASSUME NEW p \in Pins, level'[p]
             PROVE  OnByRelay(p)' \/ OnByHorn(p)'
  BY DEF EveryOutputExplained
<1>3. CASE p \in pulled
  BY <1>1, <1>2, <1>3 DEF OnByRelay
<1>4. CASE p \notin pulled /\ OnByRelay(p)
  BY <1>1, <1>2, <1>4 DEF OnByRelay
<1>5. CASE p \notin pulled /\ OnByHorn(p)
  BY <1>5 DEF OnByHorn, configVars, soundOnly
<1> QED
  BY <1>1, <1>3, <1>4, <1>5 DEF EveryOutputExplained

(* A step that puts an output on puts its explanation there with it, and   *)
(* a step that takes an explanation away takes the output off.             *)
LEMMA ExplainedStep ==
    ASSUME ReassignDuringBlast = FALSE, TypeOK, EveryOutputExplained, [HubNext]_hubVars
    PROVE  EveryOutputExplained'
<1>1. CASE UNCHANGED hubVars
  BY <1>1 DEF hubVars, relayVars, configVars, outputVars, EveryOutputExplained,
     OnByRelay, OnByHorn
\* Outside a blast the horn explains nothing, so its settings may change.
<1>2. ASSUME MayReassign, UNCHANGED <<relays, relayStatus, level, state>>
      PROVE  EveryOutputExplained'
  BY <1>2 DEF MayReassign, EveryOutputExplained, OnByRelay, OnByHorn
<1>3. ASSUME UNCHANGED relayOnly, HornOutputs(FALSE), UNCHANGED <<pin, soundRelayIndex>>,
             state' # "BlastOn"
      PROVE  EveryOutputExplained'
  BY <1>3 DEF HornOutputs, relayOnly, EveryOutputExplained, OnByRelay, OnByHorn, TypeOK
<1>4. ASSUME UNCHANGED relayOnly, HornOutputs(TRUE), UNCHANGED <<pin, soundRelayIndex>>,
             state # "BlastOn", state' = "BlastOn"
      PROVE  EveryOutputExplained'
  BY <1>4 DEF HornOutputs, relayOnly, EveryOutputExplained, OnByRelay, OnByHorn, TypeOK
<1>5. ASSUME UNCHANGED relayOnly, UNCHANGED <<level, pin, soundRelayIndex>>,
             state # "BlastOn" \/ state' = state
      PROVE  EveryOutputExplained'
  BY <1>5 DEF relayOnly, EveryOutputExplained, OnByRelay, OnByHorn
<1>6. ASSUME NEW r \in Relays, NEW t \in ActionTypes, HubSetActionType(r, t)
      PROVE  EveryOutputExplained'
  BY <1>2, <1>6 DEF HubSetActionType, SetRelayActionType, outputVars
<1>7. ASSUME NEW r \in Relays, NEW p \in RelayPins, HubSetPin(r, p)
      PROVE  EveryOutputExplained'
  BY <1>2, <1>7 DEF HubSetPin, SetRelayPin, outputVars, soundOnly
<1>8. CASE UseRelays
  <2>1. ASSUME NEW r \in Relays, NEW on \in BOOLEAN, SetRelayState(r, on)
        PROVE  EveryOutputExplained'
    <3>1. {r} \in SUBSET Relays
      OBVIOUS
    <3> QED
      BY <1>8, <2>1, <3>1, SwitchStaysExplained DEF SetRelayState, UseRelays
  <2>2. ASSUME NEW on \in BOOLEAN, TurnAllRelays(on)
        PROVE  EveryOutputExplained'
    BY <1>8, <2>2, SwitchStaysExplained DEF TurnAllRelays, UseRelays
  <2>3. ASSUME UNCHANGED <<pin, relays, relayStatus, level>>
        PROVE  EveryOutputExplained'
    BY <1>8, <2>3 DEF UseRelays, soundOnly, EveryOutputExplained, OnByRelay, OnByHorn
  <2> QED
    BY <1>8, <2>1, <2>2, <2>3 DEF UseRelays, SetRelayDefaultState, LinkRelays,
       UnlinkRelay, outputVars
<1>9. CASE ConfigReset
  BY <1>2, <1>9 DEF ConfigReset, outputVars, soundOnly
<1>10. ASSUME NEW d \in StartDelays, UpdateSoundControllerConfig(d)
       PROVE  EveryOutputExplained'
  BY <1>2, <1>10 DEF UpdateSoundControllerConfig, relayVars, outputVars
<1>11. ASSUME NEW t \in Signals \cup {"None"}, Play(t)
       PROVE  EveryOutputExplained'
  BY <1>3, <1>5, <1>11, PlayOutputs DEF Play
<1>12. CASE Poll
  BY <1>3, <1>4, <1>5, <1>12, PollOutputs DEF Poll
<1>13. CASE Tick
  BY <1>5, <1>13 DEF Tick, Sound!Tick, Sound!setupVars
<1>14. CASE Reboot
  <2>1. OpenedAtBoot \subseteq Relays
    BY DEF OpenedAtBoot
  <2> QED
    BY <1>14, <2>1 DEF Reboot, Boot, EveryOutputExplained, OnByRelay
<1> QED
  BY <1>1, <1>6, <1>7, <1>8, <1>9, <1>10, <1>11, <1>12, <1>13, <1>14 DEF HubNext

(* While nobody edits the settings of the horn during a blast, no output   *)
(* is ever on that neither a record nor the blast accounts for.            *)
THEOREM OutputsExplained ==
    ASSUME ReassignDuringBlast = FALSE
    PROVE  HubSpec => []EveryOutputExplained
<1>1. HubInit => RolesInv /\ EveryOutputExplained
  BY RolesInit DEF HubInit, Init, EveryOutputExplained
<1>2. RolesInv /\ EveryOutputExplained /\ [HubNext]_hubVars
          => RolesInv' /\ EveryOutputExplained'
  BY HubRolesStep, ExplainedStep DEF RolesInv
<1> QED
  BY <1>1, <1>2, PTL DEF HubSpec
=============================================================================
