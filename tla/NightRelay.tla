------------------------------ MODULE NightRelay ------------------------------
(***************************************************************************)
(* The light sensor and the relay that follows it (LightSensorHandler.h),  *)
(* on the relay controller with all its commands.  A reading is taken      *)
(* every 30 s.  In analogue mode it is the average of the last ten         *)
(* samples, compared with a threshold that is widened by 10 % on either    *)
(* side; the model keeps the zone it falls in.  In digital mode there is   *)
(* no zone between.                                                        *)
(***************************************************************************)
EXTENDS RelayController

CONSTANT DaytimeConfirmReadings

ASSUME LightAssumption == DaytimeConfirmReadings \in Nat \ {0}

Zones == {"dark", "between", "bright"}

VARIABLES
    isDaytime,            \* _isDaytime
    pendingDaytime,       \* _pendingDaytime
    pendingDaytimeCount   \* _pendingDaytimeCount

lightVars == <<isDaytime, pendingDaytime, pendingDaytimeCount>>
nightVars == <<relayVars, lightVars>>

-----------------------------------------------------------------------------
\* Between the thresholds a reading agrees with what is reported already.
Reading(zone) == IF isDaytime THEN zone # "dark" ELSE zone = "bright"

CountGoesOn(reading) ==  \* fault: a reading that differs does not start anew
    IF pendingDaytimeCount < DaytimeConfirmReadings
    THEN pendingDaytimeCount + 1 ELSE pendingDaytimeCount

CountAfter(reading) ==
    IF reading # pendingDaytime THEN 1
    ELSE IF pendingDaytimeCount < DaytimeConfirmReadings
         THEN pendingDaytimeCount + 1 ELSE pendingDaytimeCount

Confirmed(reading) ==
    CountAfter(reading) >= DaytimeConfirmReadings /\ isDaytime # reading

\* The first relay with the night role, as a set: the one the sensor drives.
NightRelays ==
    {r \in Relays : /\ actionType[r] = "NightRelay"
                    /\ \A s \in Relays : actionType[s] = "NightRelay" => r <= s}

SyncBeforehand(day) ==  \* fault: synchronised before the state was changed
    SwitchRelays(NightRelays, ~isDaytime)

syncNightRelay(day) == SwitchRelays(NightRelays, ~day)

update(zone) ==
    LET reading == Reading(zone)
    IN  /\ pendingDaytime' = reading
        /\ pendingDaytimeCount' = CountAfter(reading)
        /\ \/ /\ Confirmed(reading)
              /\ isDaytime' = reading
              /\ syncNightRelay(reading)
           \/ /\ ~Confirmed(reading)
              /\ UNCHANGED <<isDaytime, outputVars>>
        /\ UNCHANGED <<configVars, relays>>

\* The commands of the relay controller do not reach the sensor.
RelayCommand == Command /\ UNCHANGED lightVars

\* A sensor takes it to be day when it is built.  Its initialize() releases
\* the night relay, which setup() left released, before the relays whose
\* default state is on are switched.
Restart ==
    /\ Boot
    /\ isDaytime' = TRUE
    /\ pendingDaytime' = TRUE
    /\ pendingDaytimeCount' = DaytimeConfirmReadings

NightInit ==
    /\ Init
    /\ isDaytime = TRUE
    /\ pendingDaytime = TRUE
    /\ pendingDaytimeCount = DaytimeConfirmReadings

NightNext ==
    \/ Restart
    \/ \E zone \in Zones : update(zone)
    \/ RelayCommand

NightSpec == NightInit /\ [][NightNext]_nightVars

-----------------------------------------------------------------------------
\* The pending state is the one that was read last; it counts against what
\* is reported only while it differs from it.
Debouncer == INSTANCE Debounce WITH
    Confirm  <- DaytimeConfirmReadings,
    value    <- isDaytime,
    contrary <- IF pendingDaytime = isDaytime THEN 0 ELSE pendingDaytimeCount

(* Day turns to night and night to day exactly as a debounced switch does: *)
(* on the third reading in a row that says so, and on no flicker, although *)
(* one counter serves both the pending and the confirmed state and begins  *)
(* at its limit (Docs/Sensors.md: "prevents rapid relay switching").       *)
Debounced == Debouncer!Spec

(* The sensor moves relays at dusk and dawn only, and only to the state    *)
(* that fits the new time of day: the relay with the night role and those  *)
(* linked to it.  Dusk and dawn always leave that relay in the state that  *)
(* fits, whatever commands switched it, moved the role or the pins before. *)
FollowsLight ==
    [][\A zone \in Zones : update(zone) =>
          \A r \in Relays :
             /\ relayStatus'[r] # relayStatus[r] =>
                   /\ isDaytime' # isDaytime
                   /\ relayStatus'[r] = ~isDaytime'
                   /\ \/ nightRelayIndex = r
                      \/ \E i \in Slots :
                            linkedRelays[i] = [from |-> nightRelayIndex, to |-> r]
             /\ (isDaytime' # isDaytime /\ nightRelayIndex = r) =>
                   relayStatus'[r] = ~isDaytime'
      ]_nightVars
=============================================================================
