----------------------- MODULE ScheduleController_proofs -----------------------
(***************************************************************************)
(* For any number of slots, any menu of events, any length of the day and  *)
(* whatever the sun does: the types, and that an event at a fixed time is  *)
(* judged once a day, and one at sunrise or sunset if the hub stays put.   *)
(***************************************************************************)
EXTENDS ScheduleController, TLAPS

MemoryOK ==
    /\ events \in [Slots -> Menu \cup {Empty}]
    /\ lastFired \in [Slots -> Minutes \cup {Never}]
    /\ minute \in Minutes
    /\ occurred \subseteq Slots

\* The minute of an event at a fixed time, which the sun does not move.
FixedMinute(e) == IF e.trigger = "TimeOfDay" THEN e.at ELSE 0

(* What makes the latch sufficient: an event at a fixed time that was      *)
(* judged today still has its own minute on record, whatever the clock     *)
(* shows now.                                                              *)
JudgedIsLatched ==
    \A i \in occurred :
        events[i].trigger \in FixedTriggers => lastFired[i] = FixedMinute(events[i])

OnceInv == MemoryOK /\ JudgedIsLatched

-----------------------------------------------------------------------------
(* A slot that fires or is held at a fixed time does so in its own minute, *)
(* and only if that minute is not on record.                               *)
LEMMA DueAtFixedMinute ==
    ASSUME NEW i \in Slots, ClockDue(i) \/ IntervalDue(i),
           events[i].trigger \in FixedTriggers
    PROVE  minute = FixedMinute(events[i]) /\ lastFired[i] # FixedMinute(events[i])
<1>1. ClockDue(i)
  BY DEF IntervalDue, FixedTriggers
<1>2. FireMinute(events[i]) = FixedMinute(events[i])
  BY DEF FireMinute, FixedMinute, FixedTriggers
<1> QED
  BY <1>1, <1>2 DEF ClockDue, AtItsMinute, Fresh

(* At boot nothing has been judged.                                        *)
LEMMA OnceInit == Init => OnceInv
  BY ScheduleAssumption DEF Init, OnceInv, MemoryOK, JudgedIsLatched, Minutes, Never

(* Judging a slot puts its minute on record and touches no other slot.     *)
LEMMA JudgeKeepsOnce ==
    ASSUME OnceInv, NEW i \in Slots, Latch(i), ClockDue(i) \/ IntervalDue(i),
           occurred' = occurred \cup {i}, UNCHANGED <<events, minute>>
    PROVE  OnceInv'
<1>1. \/ events[i].trigger = "Interval" /\ lastFired' = lastFired
      \/ lastFired' = [lastFired EXCEPT ![i] = minute]
  BY DEF Latch
<1>2. MemoryOK'
  BY <1>1 DEF OnceInv, MemoryOK
<1>3. ASSUME NEW j \in occurred', events[j].trigger \in FixedTriggers
      PROVE  lastFired'[j] = FixedMinute(events[j])
  <2>1. CASE j = i
    <3>1. events[i].trigger # "Interval"
      BY <1>3, <2>1 DEF FixedTriggers
    <3> QED
      BY <1>1, <1>3, <2>1, <3>1, DueAtFixedMinute DEF OnceInv, MemoryOK
  <2>2. CASE j # i
    <3>1. j \in occurred /\ j \in Slots
      BY <1>3, <2>2 DEF OnceInv, MemoryOK
    <3> QED
      BY <1>1, <1>3, <2>2, <3>1 DEF OnceInv, MemoryOK, JudgedIsLatched
  <2> QED
    BY <2>1, <2>2
<1> QED
  BY <1>2, <1>3 DEF OnceInv, JudgedIsLatched, FixedMinute

(* The look at a slot: what fires or is held is put on record.             *)
LEMMA LookKeepsOnce ==
    ASSUME OnceInv, NEW i \in Slots, Look(i)
    PROVE  OnceInv'
<1>1. UNCHANGED <<events, minute>>
  BY DEF Look, slotVars, clockVars
<1>2. CASE Pass(i) \/ Arm(i)
  BY <1>1, <1>2 DEF Pass, Arm, OnceInv, MemoryOK, JudgedIsLatched, FixedMinute
<1>3. CASE Fire(i) \/ Hold(i)
  BY <1>1, <1>3, JudgeKeepsOnce DEF Fire, Hold
<1> QED
  BY <1>2, <1>3 DEF Look

(* A command that writes a slot also ends its day: nothing of the new      *)
(* event has been judged yet.                                              *)
LEMMA EditKeepsOnce ==
    ASSUME OnceInv, NEW i \in Slots, NEW e \in Menu \cup {Empty},
           events' = [events EXCEPT ![i] = e], occurred' = occurred \ {i},
           UNCHANGED <<lastFired, minute>>
    PROVE  OnceInv'
  BY DEF OnceInv, MemoryOK, JudgedIsLatched, FixedMinute

(* Every step, also of the clock, the sun and the commands.                *)
LEMMA OnceStep == OnceInv /\ [Next]_scheduleVars => OnceInv'
<1> SUFFICES ASSUME OnceInv, [Next]_scheduleVars
             PROVE  OnceInv'
  OBVIOUS
<1>1. ASSUME UNCHANGED <<events, lastFired, occurred>>, minute' \in Minutes
      PROVE  OnceInv'
  BY <1>1 DEF OnceInv, MemoryOK, JudgedIsLatched, FixedMinute
<1>2. minute \in Minutes
  BY DEF OnceInv, MemoryOK
<1>3. ASSUME NEW i \in Slots, Look(i)
      PROVE  OnceInv'
  BY <1>3, LookKeepsOnce
<1>4. ASSUME NEW i \in Slots, NEW e \in Menu, NEW on \in BOOLEAN, SetEvent(i, e, on)
      PROVE  OnceInv'
  BY <1>4, EditKeepsOnce DEF SetEvent, Edited, clockVars
<1>5. ASSUME NEW i \in Slots, DeleteEvent(i)
      PROVE  OnceInv'
  BY <1>5, EditKeepsOnce DEF DeleteEvent, Edited, clockVars
<1>6. CASE ClearAllEvents
  BY <1>6 DEF ClearAllEvents, Edited, clockVars, OnceInv, MemoryOK, JudgedIsLatched
<1>7. CASE Tick
  <2>1. minute' \in Minutes
    BY <1>2, <1>7, ScheduleAssumption DEF Tick, Minutes
  <2>2. CASE minute' = 0
    BY <1>7, <2>1, <2>2 DEF Tick, NotToday, slotVars, OnceInv, MemoryOK, JudgedIsLatched
  <2>3. CASE minute' # 0
    BY <1>1, <1>7, <2>1, <2>3 DEF Tick, slotVars
  <2> QED
    BY <2>2, <2>3
<1>8. CASE SetClock
  BY <1>1, <1>8 DEF SetClock, slotVars, firedVars
<1>9. CASE UpdatePulsesOnly \/ BeginLook
  BY <1>1, <1>2, <1>9 DEF UpdatePulsesOnly, BeginLook, slotVars, firedVars, clockVars
<1>10. CASE \/ \E i \in Slots : TriggerNow(i)
            \/ \E r \in Relays, on \in BOOLEAN : RelayCommand(r, on)
            \/ \E place \in Suns : GpsLocationUpdated(place)
            \/ LightSensorUpdated
  BY <1>1, <1>2, <1>10 DEF TriggerNow, RelayCommand, GpsLocationUpdated,
     LightSensorUpdated, slotVars, firedVars, clockVars
<1>11. ASSUME NEW i \in Slots, NEW on \in BOOLEAN, EnableEvent(i, on)
       PROVE  OnceInv'
  BY <1>1, <1>2, <1>11 DEF EnableEvent, Edited, clockVars
<1>12. CASE UNCHANGED scheduleVars
  BY <1>1, <1>2, <1>12 DEF scheduleVars, slotVars, firedVars, clockVars
<1> QED
  BY <1>3, <1>4, <1>5, <1>6, <1>7, <1>8, <1>9, <1>10, <1>11, <1>12 DEF Next

(* Of events at a fixed time the promise needs no hypothesis: once between *)
(* two midnights, also when the clock is put back over the minute any      *)
(* number of times, and wherever the hub goes.                             *)
FixedOncePerDay ==
    [][\A i \in Slots :
          Fire(i) /\ events[i].trigger \in FixedTriggers => i \notin occurred]_scheduleVars

THEOREM FixedFiresOnce == Spec => FixedOncePerDay
<1> DEFINE Once ==
        \A i \in Slots :
            Fire(i) /\ events[i].trigger \in FixedTriggers => i \notin occurred
<1>1. OnceInv => Once
  <2> SUFFICES ASSUME OnceInv, NEW i \in Slots, Fire(i),
                      events[i].trigger \in FixedTriggers, i \in occurred
               PROVE  FALSE
    OBVIOUS
  <2> QED
    BY DueAtFixedMinute DEF Fire, OnceInv, JudgedIsLatched
<1> QED
  BY <1>1, OnceInit, OnceStep, PTL DEF Spec, FixedOncePerDay

-----------------------------------------------------------------------------
(* The types.  A command reaches the recorded state of relays only.        *)
LEMMA CommandedTyped ==
    ASSUME relayOn \in [Relays -> BOOLEAN], NEW rs, NEW on \in BOOLEAN
    PROVE  Commanded(rs, on) \in [Relays -> BOOLEAN]
BY DEF Commanded

LEMMA ExecutedTyped ==
    ASSUME relayOn \in [Relays -> BOOLEAN], NEW e, e.action \in ActionTypes
    PROVE  Executed(e) \in [Relays -> BOOLEAN]
<1> DEFINE on == ~relayOn[e.relay]
<1>1. on \in BOOLEAN
  BY Zenon
<1>2. CASE e.action = "RelayToggle"
  <2>1. Executed(e) = Commanded({e.relay}, on)
    BY <1>2 DEF Executed
  <2> HIDE DEF on
  <2> QED
    BY <1>1, <2>1, CommandedTyped
<1>3. CASE e.action \in ActionTypes \ {"RelayToggle"}
  <2>1. Executed(e) \in {Commanded({e.relay}, TRUE), Commanded({e.relay}, FALSE),
                         Commanded(Relays, TRUE), Commanded(Relays, FALSE), relayOn}
    BY <1>3 DEF Executed, ActionTypes
  <2> QED
    BY <2>1, CommandedTyped
<1> QED
  BY <1>2, <1>3

(* An event of the configuration, also of an empty slot.                   *)
LEMMA EventTyped ==
    ASSUME TypeOK, NEW i \in Slots
    PROVE  /\ events[i].action \in ActionTypes /\ events[i].duration \in Nat
           /\ events[i].relay \in {0} \cup {e.relay : e \in Menu}
<1>1. CASE events[i] \in Menu
  BY <1>1, ScheduleAssumption
<1>2. CASE events[i] = Empty
  BY <1>2 DEF Empty, ActionTypes
<1> QED
  BY <1>1, <1>2 DEF TypeOK

LEMMA PulsesTyped ==
    ASSUME TypeOK, UpdatePulses
    PROVE  /\ relayOn' \in [Relays -> BOOLEAN]
           /\ pulse' \in [Slots -> [active : BOOLEAN, left : Nat,
                                    relay : {0} \cup {e.relay : e \in Menu}]]
BY CommandedTyped DEF TypeOK, UpdatePulses, EndPulses, NoPulse

LEMMA LookTyped ==
    ASSUME TypeOK, NEW i \in Slots, Look(i)
    PROVE  TypeOK'
<1>1. cursor' \in Slots \cup {0}
  BY DEF Look, Advance
<1>2. ASSUME UNCHANGED <<lastFired, intervalAge, pulse, relayOn>> PROVE TypeOK'
  BY <1>1, <1>2 DEF Look, slotVars, clockVars, TypeOK
<1>3. 0 \in 0 .. Unarmed /\ minute \in Minutes \cup {Never}
  BY ScheduleAssumption DEF Unarmed, TypeOK
<1>4. ASSUME Latch(i)
      PROVE  /\ lastFired' \in [Slots -> Minutes \cup {Never}]
             /\ intervalAge' \in [Slots -> 0 .. Unarmed]
  BY <1>3, <1>4 DEF Latch, TypeOK
<1>5. CASE Pass(i)
  BY <1>2, <1>5 DEF Pass
<1>6. CASE Arm(i)
  BY <1>1, <1>3, <1>6 DEF Arm, Look, slotVars, clockVars, TypeOK
<1>7. CASE Fire(i)
  <2>1. relayOn' \in [Relays -> BOOLEAN]
    BY <1>7, ExecutedTyped, EventTyped DEF Fire, Performed, TypeOK
  <2>2. pulse' \in [Slots -> [active : BOOLEAN, left : Nat,
                             relay : {0} \cup {e.relay : e \in Menu}]]
    BY <1>7, EventTyped DEF Fire, StartPulse, TypeOK
  <2> QED
    BY <1>1, <1>4, <1>7, <2>1, <2>2 DEF Fire, Look, slotVars, clockVars, TypeOK
<1>8. CASE Hold(i)
  BY <1>1, <1>4, <1>8 DEF Hold, Look, slotVars, clockVars, TypeOK
<1> QED
  BY <1>5, <1>6, <1>7, <1>8 DEF Look

LEMMA TickTyped ==
    ASSUME TypeOK, Tick
    PROVE  TypeOK'
<1>1. minute' \in Minutes /\ late' \in 0 .. MaxStall
  BY ScheduleAssumption DEF Tick, TypeOK, Minutes
<1>2. intervalAge' \in [Slots -> 0 .. Unarmed]
  BY ScheduleAssumption DEF Tick, TypeOK, Older, Unarmed
<1>3. pulse' \in [Slots -> [active : BOOLEAN, left : Nat,
                           relay : {0} \cup {e.relay : e \in Menu}]]
  <2> SUFFICES ASSUME NEW i \in Slots
               PROVE  (IF pulse[i].left > 0 THEN [pulse[i] EXCEPT !.left = @ - 1] ELSE pulse[i])
                          \in [active : BOOLEAN, left : Nat, relay : {0} \cup {e.relay : e \in Menu}]
    BY DEF Tick
  <2> QED
    BY DEF TypeOK
<1>4. CASE minute' = 0
  BY <1>1, <1>2, <1>3, <1>4 DEF Tick, NotToday, slotVars, TypeOK
<1>5. CASE minute' # 0
  BY <1>1, <1>2, <1>3, <1>5 DEF Tick, slotVars, TypeOK
<1> QED
  BY <1>4, <1>5

LEMMA CommandsTyped ==
    ASSUME TypeOK,
           \/ \E i \in Slots : DeleteEvent(i) \/ TriggerNow(i)
           \/ \E i \in Slots, e \in Menu, on \in BOOLEAN : SetEvent(i, e, on)
           \/ \E i \in Slots, on \in BOOLEAN : EnableEvent(i, on)
           \/ ClearAllEvents
           \/ \E r \in Relays, on \in BOOLEAN : RelayCommand(r, on)
    PROVE  TypeOK'
<1>1. ASSUME NEW i \in Slots, DeleteEvent(i) PROVE TypeOK'
  BY <1>1 DEF DeleteEvent, Edited, clockVars, TypeOK
<1>2. ASSUME NEW i \in Slots, TriggerNow(i) PROVE TypeOK'
  <2>1. relayOn' \in [Relays -> BOOLEAN]
    BY <1>2, ExecutedTyped, EventTyped DEF TriggerNow, TypeOK
  <2> QED
    BY <1>2, <2>1 DEF TriggerNow, slotVars, firedVars, clockVars, TypeOK
<1>3. ASSUME NEW i \in Slots, NEW e \in Menu, NEW on \in BOOLEAN, SetEvent(i, e, on)
      PROVE  TypeOK'
  BY <1>3 DEF SetEvent, Edited, clockVars, TypeOK
<1>4. ASSUME NEW i \in Slots, NEW on \in BOOLEAN, EnableEvent(i, on) PROVE TypeOK'
  BY <1>4 DEF EnableEvent, Edited, clockVars, TypeOK
<1>5. CASE ClearAllEvents
  BY <1>5 DEF ClearAllEvents, Edited, clockVars, TypeOK
<1>6. ASSUME NEW r \in Relays, NEW on \in BOOLEAN, RelayCommand(r, on) PROVE TypeOK'
  <2>1. relayOn' \in [Relays -> BOOLEAN]
    BY <1>6, CommandedTyped DEF RelayCommand, TypeOK
  <2> QED
    BY <1>6, <2>1 DEF RelayCommand, slotVars, firedVars, clockVars, TypeOK
<1> QED
  BY <1>1, <1>2, <1>3, <1>4, <1>5, <1>6

(* Every variable keeps its type, for any events that T2 accepts.          *)
THEOREM TypeCorrect == Spec => []TypeOK
<1>1. ASSUME Init PROVE TypeOK
  <2>1. /\ events \in [Slots -> Menu \cup {Empty}] /\ enabled \in [Slots -> BOOLEAN]
        /\ relayOn \in [Relays -> BOOLEAN]
    BY <1>1 DEF Init
  <2>2. /\ lastFired \in [Slots -> Minutes \cup {Never}]
        /\ intervalAge \in [Slots -> 0 .. Unarmed]
    BY <1>1, ScheduleAssumption DEF Init, Unarmed
  <2>3. pulse \in [Slots -> [active : BOOLEAN, left : Nat,
                            relay : {0} \cup {e.relay : e \in Menu}]]
    BY <1>1 DEF Init, NoPulse
  <2>4. minute \in Minutes /\ late \in 0 .. MaxStall
    BY <1>1, ScheduleAssumption DEF Init, Minutes
  <2> QED
    BY <1>1, <2>1, <2>2, <2>3, <2>4 DEF Init, TypeOK
<1>2. TypeOK /\ [Next]_scheduleVars => TypeOK'
  <2> SUFFICES ASSUME TypeOK, [Next]_scheduleVars PROVE TypeOK'
    OBVIOUS
  <2>1. CASE UpdatePulsesOnly
    BY <2>1, PulsesTyped DEF UpdatePulsesOnly, slotVars, firedVars, clockVars, TypeOK
  <2>2. CASE BeginLook
    <3>1. sun' \in Suns \cup {NoSun} /\ cursor' \in Slots \cup {0} /\ late' \in 0 .. MaxStall
      BY <2>2, ScheduleAssumption DEF BeginLook, TypeOK
    <3> QED
      BY <2>2, <3>1, PulsesTyped DEF BeginLook, slotVars, firedVars, TypeOK
  <2>3. ASSUME NEW i \in Slots, Look(i) PROVE TypeOK'
    BY <2>3, LookTyped
  <2>4. CASE Tick
    BY <2>4, TickTyped
  <2>5. CASE SetClock \/ LightSensorUpdated
    BY <2>5 DEF SetClock, LightSensorUpdated, slotVars, firedVars, TypeOK
  <2>6. ASSUME NEW place \in Suns, GpsLocationUpdated(place) PROVE TypeOK'
    BY <2>6 DEF GpsLocationUpdated, slotVars, firedVars, TypeOK
  <2>7. CASE UNCHANGED scheduleVars
    BY <2>7 DEF scheduleVars, slotVars, firedVars, clockVars, TypeOK
  <2> QED
    BY <2>1, <2>2, <2>3, <2>4, <2>5, <2>6, <2>7, CommandsTyped DEF Next
<1> QED
  BY <1>1, <1>2, PTL DEF Spec

-----------------------------------------------------------------------------
(* Events at sunrise and sunset.  The sun times in use are those of today  *)
(* and of the last location once they were computed; an event that was     *)
(* judged today was judged by them and has its minute of today on record,  *)
(* so that computing the same times anew does not bring it back.           *)
SunCurrent ==
    /\ sunKnown => sun = sky
    /\ cursor # 0 => sunKnown

SunJudged ==
    \A i \in occurred :
        events[i].trigger \in SunTriggers =>
            sun = sky /\ sun # NoSun /\ lastFired[i] = FireMinute(events[i])

SunInv == MemoryOK /\ SunCurrent /\ SunJudged

(* Of a step that leaves the sun times in use and the records as they are. *)
LEMMA SunStands ==
    ASSUME SunInv, UNCHANGED <<events, lastFired, occurred, sun, sky>>, minute' \in Minutes,
           SunCurrent'
    PROVE  SunInv'
BY DEF SunInv, MemoryOK, SunJudged, FireMinute

(* The look at a slot.                                                     *)
LEMMA LookKeepsSun ==
    ASSUME SunInv, NEW i \in Slots, Look(i)
    PROVE  SunInv'
<1>1. /\ UNCHANGED <<events, minute, sun, sky, sunKnown>>
      /\ cursor = i /\ cursor # 0 /\ minute \in Minutes
  BY ScheduleAssumption DEF Look, slotVars, clockVars, SunInv, MemoryOK
<1>2. sunKnown /\ sun = sky /\ SunCurrent'
  BY <1>1 DEF SunInv, SunCurrent
<1>3. CASE Pass(i) \/ Arm(i)
  BY <1>1, <1>2, <1>3, SunStands DEF Pass, Arm
<1>4. CASE Fire(i) \/ Hold(i)
  <2>1. /\ ClockDue(i) \/ IntervalDue(i)
        /\ Latch(i) /\ occurred' = occurred \cup {i}
    BY <1>4 DEF Fire, Hold
  <2>2. \/ events[i].trigger = "Interval" /\ lastFired' = lastFired
        \/ lastFired' = [lastFired EXCEPT ![i] = minute]
    BY <2>1 DEF Latch
  <2>3. MemoryOK'
    BY <1>1, <2>1, <2>2 DEF SunInv, MemoryOK
  <2>4. ASSUME NEW j \in occurred', events[j].trigger \in SunTriggers
        PROVE  sun = sky /\ sun # NoSun /\ lastFired'[j] = FireMinute(events[j])
    <3>1. CASE j = i
      <4>1. events[i].trigger # "Interval" /\ ClockDue(i)
        BY <2>1, <2>4, <3>1 DEF SunTriggers, IntervalDue
      <4> QED
        BY <1>1, <1>2, <2>2, <2>4, <3>1, <4>1 DEF ClockDue, AtItsMinute, SunInv, MemoryOK
    <3>2. CASE j # i
      BY <2>1, <2>2, <2>4, <3>2 DEF SunInv, MemoryOK, SunJudged
    <3> QED
      BY <3>1, <3>2
  <2> QED
    BY <1>1, <1>2, <2>3, <2>4 DEF SunInv, SunJudged, FireMinute
<1> QED
  BY <1>3, <1>4 DEF Look

LEMMA EditKeepsSun ==
    ASSUME SunInv, NEW i \in Slots, NEW e \in Menu \cup {Empty},
           events' = [events EXCEPT ![i] = e], occurred' = occurred \ {i},
           UNCHANGED <<lastFired, minute, sun, sky, sunKnown, cursor>>
    PROVE  SunInv'
<1>1. MemoryOK' /\ SunCurrent'
  BY DEF SunInv, MemoryOK, SunCurrent
<1>2. \A j \in occurred' : j \in occurred /\ events'[j] = events[j]
  BY DEF SunInv, MemoryOK
<1> QED
  BY <1>1, <1>2 DEF SunInv, SunJudged, FireMinute

LEMMA SunStep ==
    ASSUME "Moves" \notin Commands, SunInv, [Next]_scheduleVars
    PROVE  SunInv'
<1>1. minute \in Minutes
  BY DEF SunInv, MemoryOK
<1>2. ASSUME NEW i \in Slots, Look(i) PROVE SunInv'
  BY <1>2, LookKeepsSun
<1>3. ASSUME NEW i \in Slots, NEW e \in Menu, NEW on \in BOOLEAN, SetEvent(i, e, on)
      PROVE  SunInv'
  BY <1>3, EditKeepsSun DEF SetEvent, Edited, clockVars
<1>4. ASSUME NEW i \in Slots, DeleteEvent(i) PROVE SunInv'
  BY <1>4, EditKeepsSun DEF DeleteEvent, Edited, clockVars
<1>5. CASE ClearAllEvents
  <2>1. occurred' = {} /\ events' = [i \in Slots |-> Empty]
        /\ UNCHANGED <<lastFired, minute, sun, sky, sunKnown, cursor>>
    BY <1>5 DEF ClearAllEvents, Edited, clockVars
  <2> QED
    BY <2>1 DEF SunInv, MemoryOK, SunCurrent, SunJudged
<1>6. CASE Tick
  <2>1. minute' \in Minutes
    BY <1>1, <1>6, ScheduleAssumption DEF Tick, Minutes
  <2>2. CASE minute' = 0
    BY <1>6, <2>1, <2>2
    DEF Tick, NotToday, Idle, slotVars, SunInv, MemoryOK, SunCurrent, SunJudged
  <2>3. CASE minute' # 0
    <3>1. UNCHANGED <<events, lastFired, occurred, sun, sky, sunKnown, cursor>>
      BY <1>6, <2>3 DEF Tick, slotVars
    <3> QED
      BY <2>1, <3>1, SunStands DEF SunInv, SunCurrent
  <2> QED
    BY <2>2, <2>3
<1>7. CASE SetClock
  BY <1>7, SunStands DEF SetClock, slotVars, firedVars, SunInv, SunCurrent
<1>8. CASE BeginLook
  <2>1. UNCHANGED <<events, lastFired, occurred, minute, sky>>
    BY <1>8 DEF BeginLook, slotVars, firedVars
  <2>2. SunCurrent'
    BY <1>8 DEF BeginLook, Idle, SunInv, SunCurrent
  <2>3. CASE sun' = sun
    BY <1>1, <2>1, <2>2, <2>3, SunStands
  <2>4. CASE sun' # sun
    <3>1. ~(sun = sky)
      BY <1>8, <2>4 DEF BeginLook
    <3>2. \A i \in occurred : events[i].trigger \notin SunTriggers
      BY <3>1 DEF SunInv, SunJudged
    <3> QED
      BY <2>1, <2>2, <3>2 DEF SunInv, MemoryOK, SunJudged
  <2> QED
    BY <2>3, <2>4
<1>9. ASSUME NEW place \in Suns, GpsLocationUpdated(place) PROVE SunInv'
  <2>1. /\ UNCHANGED <<events, lastFired, occurred, minute, sun, cursor>>
        /\ sunKnown' = FALSE /\ cursor = 0
        /\ sky = NoSun \/ sky' = sky
    BY <1>9 DEF GpsLocationUpdated, Idle, slotVars, firedVars
  <2>2. SunCurrent'
    BY <2>1 DEF SunCurrent
  <2>3. CASE sky' = sky
    BY <1>1, <2>1, <2>2, <2>3, SunStands
  <2>4. CASE sky = NoSun
    <3>1. \A i \in occurred : events[i].trigger \notin SunTriggers
      BY <2>4 DEF SunInv, SunJudged
    <3> QED
      BY <2>1, <2>2, <3>1 DEF SunInv, MemoryOK, SunJudged
  <2> QED
    BY <2>1, <2>3, <2>4
<1>10. CASE \/ UpdatePulsesOnly \/ LightSensorUpdated
            \/ \E i \in Slots : TriggerNow(i)
            \/ \E r \in Relays, on \in BOOLEAN : RelayCommand(r, on)
            \/ \E i \in Slots, on \in BOOLEAN : EnableEvent(i, on)
            \/ UNCHANGED scheduleVars
  <2>1. UNCHANGED <<events, lastFired, occurred, minute, sun, sky, sunKnown, cursor>>
    BY <1>10 DEF UpdatePulsesOnly, LightSensorUpdated, TriggerNow, RelayCommand, EnableEvent,
                 Edited, scheduleVars, slotVars, firedVars, clockVars
  <2> QED
    BY <1>1, <2>1, SunStands DEF SunInv, SunCurrent
<1> QED
  BY <1>2, <1>3, <1>4, <1>5, <1>6, <1>7, <1>8, <1>9, <1>10 DEF Next

(* An event at a time of the day or of the sun fires at most once a day,   *)
(* though the sun times are computed again with every report of the        *)
(* location and change from day to day.  The hub is supposed to stay where *)
(* it is: at another place the sun gives the event another minute.         *)
THEOREM FiresOnce ==
    ASSUME "Moves" \notin Commands
    PROVE  Spec => OncePerDay
<1> DEFINE Once ==
        \A i \in Slots :
            Fire(i) /\ events[i].trigger # "Interval" => i \notin occurred
<1>1. Init => SunInv /\ OnceInv
  BY OnceInit DEF Init, SunInv, OnceInv, SunCurrent, SunJudged
<1>2. SunInv /\ OnceInv => Once
  <2> SUFFICES ASSUME SunInv, OnceInv, NEW i \in Slots, Fire(i),
                      events[i].trigger # "Interval", i \in occurred
               PROVE  FALSE
    OBVIOUS
  <2>1. ClockDue(i)
    BY DEF Fire, IntervalDue
  <2>2. CASE events[i].trigger \in FixedTriggers
    BY <2>1, <2>2, DueAtFixedMinute DEF OnceInv, JudgedIsLatched
  <2>3. CASE events[i].trigger \in SunTriggers
    BY <2>1, <2>3 DEF ClockDue, AtItsMinute, Fresh, SunInv, SunJudged
  <2> QED
    BY <2>1, <2>2, <2>3 DEF ClockDue
<1>3. SunInv /\ OnceInv /\ [Next]_scheduleVars => SunInv' /\ OnceInv'
  BY SunStep, OnceStep
<1> QED
  BY <1>1, <1>2, <1>3, PTL DEF Spec, OncePerDay
=============================================================================
