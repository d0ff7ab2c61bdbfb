-------------------------- MODULE ScheduleController --------------------------
(***************************************************************************)
(* The scheduled events (ScheduleController.cpp) and the commands T2 to T6 *)
(* that edit them.  update() runs in the main loop: it ends pulses, and at *)
(* most once a second looks at every slot in turn.  The unit of time is a  *)
(* minute of the wall clock; several looks fall into one minute, and none  *)
(* when the loop is away (MaxStall).  Days never come back, so of the last *)
(* trigger of a slot only its minute is kept, and only until midnight.     *)
(***************************************************************************)
EXTENDS Naturals

CONSTANTS
    Slots,            \* 1 .. number of event slots
    Menu,             \* the events that T2 writes
    Relays, Reserved, \* the relays, and those a command does not reach
    MinutesPerDay, Weekdays,
    Suns,             \* what the sun algorithm yields: [rise, set] or NoSun
    StoredSwitch,     \* the values of isEnabled in the stored configuration
    Commands,         \* the commands that are given
    MaxStall, MaxAge  \* bounds: minutes without a look; the age of an interval

Minutes == 0 .. MinutesPerDay - 1
Never   == MinutesPerDay             \* no trigger seen today; also "not armed"
NoSun   == [rise |-> Never, set |-> Never]
Empty   == [trigger |-> "None", at |-> 0, days |-> {}, cond |-> "None",
            action |-> "None", relay |-> 0, duration |-> 0]
FixedTriggers == {"TimeOfDay", "DayOfWeek", "Date"}
SunTriggers   == {"Sunrise", "Sunset"}
ActionTypes   == {"None", "RelayOn", "RelayOff", "RelayToggle", "RelayPulse",
                  "AllRelaysOn", "AllRelaysOff"}

\* T2 checks the types, and does not check the relay.
ASSUME ScheduleAssumption ==
    /\ Slots \subseteq Nat \ {0} /\ 1 \in Slots
    /\ \A e \in Menu : e.action \in ActionTypes /\ e.duration \in Nat
    /\ MinutesPerDay \in Nat \ {0}
    /\ Reserved \subseteq Relays
    /\ StoredSwitch \subseteq BOOLEAN
    /\ MaxStall \in Nat \ {0} /\ MaxAge \in Nat

VARIABLES
    events,       \* config->scheduler.events
    enabled,      \* ... and their enabled flags
    isEnabled,    \* config->scheduler.isEnabled
    lastFired,    \* _lastFiredMinute if _lastFiredDay is today, else Never
    intervalAge,  \* now - _lastIntervalFireMs in minutes; Unarmed when 0
    pulse,        \* _pulseActive, _pulseRelayIdx, and the time that is left
    relayOn,      \* the relays' recorded states
    minute, weekday,
    sky,          \* today's [rise, set] at the last GPS location; NoSun before it
    sun,          \* _sunriseMinutes, _sunsetMinutes
    sunKnown,     \* _sunCalcDay = today
    isDayTime,    \* _isDayTime, from the light sensor
    cursor,       \* the slot that update() looks at; 0 outside its loop
    late,         \* minutes since the last look
    occurred      \* history: the slots whose trigger was taken today

slotVars  == <<events, enabled, isEnabled>>
firedVars == <<lastFired, intervalAge, occurred>>
clockVars == <<minute, weekday, sky, sunKnown, isDayTime>>
scheduleVars == <<slotVars, firedVars, pulse, relayOn, clockVars, sun, cursor, late>>

Unarmed == MaxAge + 1
NoPulse == [active |-> FALSE, relay |-> 0, left |-> 0]
Idle    == cursor = 0

-----------------------------------------------------------------------------
(* Triggers and conditions.                                                *)

FireMinute(e) ==
    CASE e.trigger = "TimeOfDay" -> e.at
      [] e.trigger = "Sunrise"   -> (sun.rise + e.at) % MinutesPerDay
      [] e.trigger = "Sunset"    -> (sun.set + e.at) % MinutesPerDay
      [] OTHER                   -> 0

AtItsMinute(e) == minute = FireMinute(e)

DayMatches(e) == e.trigger \in {"DayOfWeek", "Date"} => weekday \in e.days

AlwaysFresh(i) == TRUE  \* fault: the minute is not latched
Fresh(i) == lastFired[i] # minute

ClockDue(i) ==
    LET e == events[i]
    IN  /\ e.trigger \in FixedTriggers \cup SunTriggers
        /\ e.trigger \in SunTriggers => sun # NoSun
        /\ AtItsMinute(e) /\ DayMatches(e) /\ Fresh(i)

IntervalDue(i) ==
    /\ events[i].trigger = "Interval" /\ events[i].at # 0
    /\ intervalAge[i] # Unarmed /\ intervalAge[i] >= events[i].at

ArmingDue(i) ==
    events[i].trigger = "Interval" /\ events[i].at # 0 /\ intervalAge[i] = Unarmed

InDaylight == IF sun # NoSun THEN minute >= sun.rise /\ minute <= sun.set ELSE isDayTime
InDark     == IF sun # NoSun THEN minute < sun.rise \/ minute > sun.set ELSE ~isDayTime

\* A window whose end is before its start spans midnight.
InWindow(from, to) ==
    IF from <= to THEN minute >= from /\ minute <= to ELSE minute >= from \/ minute <= to

ConditionMet(e) ==
    CASE e.cond = "None"       -> TRUE
      [] e.cond = "TimeWindow" -> InWindow(e.from, e.to)
      [] e.cond = "DayOfWeek"  -> weekday \in e.days
      [] e.cond = "IsDark"     -> InDark
      [] e.cond = "IsDaylight" -> InDaylight
      [] e.cond = "RelayIsOn"  -> relayOn[e.relay]
      [] e.cond = "RelayIsOff" -> ~relayOn[e.relay]

-----------------------------------------------------------------------------
(* Actions.  A reserved relay refuses the command; the pulse of an event   *)
(* is armed all the same.  Executed() is what T6 does; the controller does *)
(* nothing for a pulse of no length.                                       *)
Commanded(rs, on) == [r \in Relays |-> IF r \in rs \ Reserved THEN on ELSE relayOn[r]]

Executed(e) ==
    CASE e.action \in {"RelayOn", "RelayPulse"} -> Commanded({e.relay}, TRUE)
      [] e.action = "RelayOff"     -> Commanded({e.relay}, FALSE)
      [] e.action = "RelayToggle"  -> Commanded({e.relay}, ~relayOn[e.relay])
      [] e.action = "AllRelaysOn"  -> Commanded(Relays, TRUE)
      [] e.action = "AllRelaysOff" -> Commanded(Relays, FALSE)
      [] e.action = "None"         -> relayOn

Pulses(e) == e.action = "RelayPulse" /\ e.duration # 0

Performed(e) == IF e.action = "RelayPulse" /\ ~Pulses(e) THEN relayOn ELSE Executed(e)

\* A pulse that is under way starts again, perhaps on another relay.
StartPulse(i) ==
    IF Pulses(events[i])
    THEN [pulse EXCEPT ![i] = [active |-> TRUE, relay |-> events[i].relay,
                               left |-> events[i].duration]]
    ELSE pulse

Expired == {i \in Slots : pulse[i].active /\ pulse[i].left = 0}

\* updatePulses(): whatever has happened to the relay since.
EndPulses ==
    /\ relayOn' = Commanded({pulse[i].relay : i \in Expired}, FALSE)
    /\ pulse' = [i \in Slots |-> IF i \in Expired THEN NoPulse ELSE pulse[i]]

PulsesOfEvents ==  \* fault: a pulse ends only while its event is there
    LET mine == {i \in Expired : enabled[i] /\ events[i].action = "RelayPulse"}
    IN  /\ relayOn' = Commanded({pulse[i].relay : i \in mine}, FALSE)
        /\ pulse' = [i \in Slots |-> IF i \in mine THEN NoPulse ELSE pulse[i]]
UpdatePulses == EndPulses

-----------------------------------------------------------------------------
(* update(): the pulses every time, the slots when a second has passed.    *)
UpdatePulsesOnly ==
    /\ Idle /\ Expired # {}
    /\ UpdatePulses
    /\ UNCHANGED <<slotVars, firedVars, clockVars, sun, cursor, late>>

BeginLook ==
    /\ Idle
    /\ UpdatePulses
    /\ late' = 0
    /\ IF isEnabled
       THEN /\ sun' = IF sunKnown THEN sun ELSE sky
            /\ sunKnown' = TRUE /\ cursor' = 1
       ELSE UNCHANGED <<sun, sunKnown, cursor>>
    /\ UNCHANGED <<slotVars, firedVars, minute, weekday, sky, isDayTime>>

Advance == cursor' = IF cursor + 1 \in Slots THEN cursor + 1 ELSE 0

Pass(i) ==
    /\ enabled[i] => ~ClockDue(i) /\ ~IntervalDue(i) /\ ~ArmingDue(i)
    /\ UNCHANGED <<lastFired, intervalAge, occurred, pulse, relayOn>>

Arm(i) ==
    /\ enabled[i] /\ ArmingDue(i)
    /\ intervalAge' = [intervalAge EXCEPT ![i] = 0]
    /\ UNCHANGED <<lastFired, occurred, pulse, relayOn>>

\* The trigger is latched whether or not the condition holds.
Latch(i) ==
    IF events[i].trigger = "Interval"
    THEN intervalAge' = [intervalAge EXCEPT ![i] = 0] /\ UNCHANGED lastFired
    ELSE lastFired' = [lastFired EXCEPT ![i] = minute] /\ UNCHANGED intervalAge

Fire(i) ==
    /\ cursor = i /\ enabled[i] /\ (ClockDue(i) \/ IntervalDue(i))
    /\ Latch(i)
    /\ ConditionMet(events[i])
    /\ relayOn' = Performed(events[i]) /\ pulse' = StartPulse(i)
    /\ occurred' = occurred \cup {i}

Hold(i) ==
    /\ enabled[i] /\ (ClockDue(i) \/ IntervalDue(i))
    /\ Latch(i)
    /\ ~ConditionMet(events[i])
    /\ occurred' = occurred \cup {i}
    /\ UNCHANGED <<pulse, relayOn>>

Look(i) ==
    /\ cursor = i /\ Advance
    /\ Pass(i) \/ Arm(i) \/ Fire(i) \/ Hold(i)
    /\ UNCHANGED <<slotVars, clockVars, sun, late>>

-----------------------------------------------------------------------------
(* The clock.  At midnight the day changes and yesterday's triggers are of *)
(* another day.                                                            *)
Older(i) ==
    IF intervalAge[i] \in {MaxAge, Unarmed} THEN intervalAge[i] ELSE intervalAge[i] + 1

StillToday == UNCHANGED lastFired  \* fault: the day of the last trigger is not compared
NotToday == lastFired' = [i \in Slots |-> Never]

Tick ==
    /\ Idle /\ late < MaxStall
    /\ late' = late + 1
    /\ minute' = (minute + 1) % MinutesPerDay
    /\ intervalAge' = [i \in Slots |-> Older(i)]
    /\ pulse' = [i \in Slots |-> IF pulse[i].left > 0
                                 THEN [pulse[i] EXCEPT !.left = @ - 1] ELSE pulse[i]]
    /\ IF minute' = 0
       THEN /\ weekday' \in Weekdays
            /\ NotToday
            /\ sky' \in Suns \cup {sky}
            /\ sunKnown' = FALSE /\ occurred' = {}
       ELSE UNCHANGED <<weekday, lastFired, sky, sunKnown, occurred>>
    /\ UNCHANGED <<slotVars, relayOn, sun, isDayTime, cursor>>

\* F6, the RTC or the GPS corrects the wall clock within the day.
SetClock ==
    /\ Idle /\ "SetClock" \in Commands
    /\ minute' \in Minutes
    /\ UNCHANGED <<slotVars, firedVars, pulse, relayOn, weekday, sky, sunKnown,
                   isDayTime, sun, cursor, late>>

\* GpsLocationUpdated forces the sun times to be computed again.  The location
\* may be the first, the same again or, of a hub that moves, another.
GpsLocationUpdated(place) ==
    /\ Idle
    /\ sky = NoSun \/ place = sky \/ "Moves" \in Commands
    /\ sky' = place /\ sunKnown' = FALSE
    /\ UNCHANGED <<slotVars, firedVars, pulse, relayOn, minute, weekday, isDayTime,
                   sun, cursor, late>>

LightSensorUpdated ==
    /\ Idle /\ "Light" \in Commands
    /\ isDayTime' = ~isDayTime
    /\ UNCHANGED <<slotVars, firedVars, pulse, relayOn, minute, weekday, sky, sunKnown,
                   sun, cursor, late>>

-----------------------------------------------------------------------------
(* The commands of SchedulerCommandHandler.  They edit the configuration;  *)
(* what the controller remembers of the slot is left as it is.             *)
Edited == UNCHANGED <<lastFired, intervalAge, pulse, relayOn, clockVars, sun, cursor, late>>

SetEvent(i, e, on) ==
    /\ Idle /\ "T2" \in Commands
    /\ events' = [events EXCEPT ![i] = e] /\ enabled' = [enabled EXCEPT ![i] = on]
    /\ occurred' = occurred \ {i}
    /\ UNCHANGED isEnabled /\ Edited

DeleteEvent(i) ==
    /\ Idle /\ "T3" \in Commands
    /\ events' = [events EXCEPT ![i] = Empty] /\ enabled' = [enabled EXCEPT ![i] = FALSE]
    /\ occurred' = occurred \ {i}
    /\ UNCHANGED isEnabled /\ Edited

EnableEvent(i, on) ==
    /\ Idle /\ "T4" \in Commands
    /\ enabled' = [enabled EXCEPT ![i] = on]
    /\ UNCHANGED <<events, isEnabled, occurred>> /\ Edited

\* memset() of the whole section: the global switch goes with the events.
ClearAllEvents ==
    /\ Idle /\ "T5" \in Commands
    /\ events' = [i \in Slots |-> Empty] /\ enabled' = [i \in Slots |-> FALSE]
    /\ isEnabled' = FALSE
    /\ occurred' = {}
    /\ Edited

\* T6 has an executeAction() of its own: a pulse is switched on only.
TriggerNow(i) ==
    /\ Idle /\ "T6" \in Commands
    /\ relayOn' = Executed(events[i])
    /\ UNCHANGED <<slotVars, firedVars, pulse, clockVars, sun, cursor, late>>

\* The relay commands of RelayCommandHandler and the others.
RelayCommand(r, on) ==
    /\ Idle /\ "R" \in Commands
    /\ relayOn' = Commanded({r}, on)
    /\ UNCHANGED <<slotVars, firedVars, pulse, clockVars, sun, cursor, late>>

-----------------------------------------------------------------------------
Init ==
    /\ events = [i \in Slots |-> Empty] /\ enabled = [i \in Slots |-> FALSE]
    /\ isEnabled \in StoredSwitch
    /\ lastFired = [i \in Slots |-> Never]
    /\ intervalAge = [i \in Slots |-> Unarmed]
    /\ pulse = [i \in Slots |-> NoPulse]
    /\ relayOn = [r \in Relays |-> FALSE]
    /\ minute = 0 /\ weekday \in Weekdays
    /\ sky = NoSun /\ sun = NoSun /\ sunKnown = FALSE /\ isDayTime = TRUE
    /\ cursor = 0 /\ late = 0 /\ occurred = {}

Next ==
    \/ UpdatePulsesOnly \/ BeginLook
    \/ \E i \in Slots : Look(i) \/ DeleteEvent(i) \/ TriggerNow(i)
    \/ \E i \in Slots, e \in Menu, on \in BOOLEAN : SetEvent(i, e, on)
    \/ \E i \in Slots, on \in BOOLEAN : EnableEvent(i, on)
    \/ ClearAllEvents
    \/ \E r \in Relays, on \in BOOLEAN : RelayCommand(r, on)
    \/ Tick \/ SetClock \/ LightSensorUpdated
    \/ \E place \in Suns : GpsLocationUpdated(place)

Spec == Init /\ [][Next]_scheduleVars

\* The loop calls update(), a look that was begun is finished, and time passes
\* between looks however many there are.
FairSpec ==
    /\ Spec
    /\ WF_scheduleVars(BeginLook) /\ SF_scheduleVars(Tick)
    /\ \A i \in Slots : WF_scheduleVars(Look(i))

-----------------------------------------------------------------------------
TypeOK ==
    /\ events \in [Slots -> Menu \cup {Empty}] /\ enabled \in [Slots -> BOOLEAN]
    /\ isEnabled \in StoredSwitch \cup {FALSE}
    /\ lastFired \in [Slots -> Minutes \cup {Never}]
    /\ intervalAge \in [Slots -> 0 .. Unarmed]
    /\ pulse \in [Slots -> [active : BOOLEAN, left : Nat,
                            relay : {0} \cup {e.relay : e \in Menu}]]
    /\ relayOn \in [Relays -> BOOLEAN]
    /\ minute \in Minutes /\ weekday \in Weekdays
    /\ {sky, sun} \subseteq Suns \cup {NoSun}
    /\ cursor \in Slots \cup {0} /\ late \in 0 .. MaxStall

(* Docs/ScheduleEvents.md: the record of the trigger "ensures each event   *)
(* fires at most once per occurrence".  An event at a time of the day or   *)
(* of the sun is judged once a day: it does not fire again, or after its   *)
(* condition failed, also when the clock is put back over its minute, or   *)
(* the event is disabled and enabled again, or the sun times are computed  *)
(* anew (for a hub that stays where it is).                                *)
OncePerDay ==
    [][\A i \in Slots :
          Fire(i) /\ events[i].trigger # "Interval" => i \notin occurred]_scheduleVars

StartsAgain(i) == pulse[i].active /\ Fire(i) /\ Pulses(events[i])

(* A pulse that is not for ever started again before it is over comes to   *)
(* an end, and its relay goes off with it or was left on for a pulse of    *)
(* the slot on another relay: whatever other pulses and commands do to the *)
(* relay, whether its event is edited, disabled or deleted meanwhile, and  *)
(* whether the scheduler is switched off.                                  *)
PulsesEnd ==
    \A i \in Slots, r \in Relays \ Reserved :
        <>[][~StartsAgain(i)]_scheduleVars =>
            (pulse[i].active /\ pulse[i].relay = r)
                ~> IF pulse[i].active THEN pulse[i].relay # r ELSE ~relayOn[r]

Daily(i) ==
    enabled[i] /\ events[i].trigger = "TimeOfDay" /\ events[i].cond = "None"

\* No correction of the clock, no new event, and no minute without a look.
Undisturbed(i) ==
    /\ <>[][~SetClock /\ ~\E e \in Menu, on \in BOOLEAN : SetEvent(i, e, on)]_scheduleVars
    /\ <>[](late <= 1)

(* Docs/ScheduleEvents.md, TimeOfDay: "Fires once per day at the specified *)
(* time": a daily event that stays in its slot fires again and again while *)
(* the global switch is on and no minute is missed.                        *)
SwitchedOnEventFires ==
    \A i \in Slots :
        <>[](Daily(i) /\ isEnabled) /\ Undisturbed(i) => []<><<Fire(i)>>_scheduleVars
=============================================================================
