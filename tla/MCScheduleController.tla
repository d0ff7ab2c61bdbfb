------------------------- MODULE MCScheduleController -------------------------
(* Two relays, days of a few minutes, an event of every kind in the first  *)
(* slot, and two slots that pulse one relay: an event of every minute that *)
(* starts its pulse of two minutes again, and a daily one.                 *)
EXTENDS ScheduleController

Event(trigger, at, cond, action, relay, duration) ==
    [trigger |-> trigger, at |-> at, days |-> {"Mon"}, cond |-> cond,
     action |-> action, relay |-> relay, duration |-> duration]

MCSuns == {[rise |-> 1, set |-> 1], [rise |-> 0, set |-> 2]}

DailyPulse  == Event("TimeOfDay", 1, "None", "RelayPulse", 1, 1)
EveryMinute == Event("Interval", 1, "None", "RelayPulse", 1, 2)

MCMenu ==
    {DailyPulse, EveryMinute,
     Event("DayOfWeek", 0, "RelayIsOff", "RelayPulse", 0, 1),
     Event("Sunrise", 1, "IsDark", "AllRelaysOn", 1, 0),
     Event("Date", 0, "IsDaylight", "RelayPulse", 1, 0),
     Event("Sunset", 0, "RelayIsOn", "RelayToggle", 1, 0)}

SecondUnused ==
    /\ events[2] = Empty /\ ~enabled[2] /\ ~pulse[2].active
    /\ lastFired[2] = Never /\ intervalAge[2] = Unarmed

TwoPulses ==
    /\ events[1] \in {EveryMinute, Empty} /\ events[2] \in {DailyPulse, Empty}
    /\ sky = NoSun /\ isDayTime /\ weekday = "Mon"

\* bound: the second slot is used beside pulses only, and the light sensor,
\* which matters while no sun times are known, until there is a location.
MCBound == (SecondUnused \/ TwoPulses) /\ (sky # NoSun => isDayTime)
=============================================================================
