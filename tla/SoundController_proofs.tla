------------------------ MODULE SoundController_proofs ------------------------
(***************************************************************************)
(* For any durations, delays, relays and pins: the types of the player,    *)
(* that it never reads a pattern out of bounds, that the horn's output is  *)
(* on during a blast only, and that who hears a signal that does not       *)
(* repeat hears the blasts and the pauses of its pattern.                  *)
(***************************************************************************)
EXTENDS SoundController, TLAPS

(* Every signal of the table has at least one blast.                       *)
LEMMA PatternsNotEmpty ==
    ASSUME NEW t \in SoundTypes
    PROVE  /\ Len(SoundPatterns[t].durations) \in Nat
           /\ Len(SoundPatterns[t].durations) >= 1
<1>1. Len(PatternDanger) = 5
  <2>1. PatternDanger \in Seq({SoundBlastShortMs})
    BY DEF PatternDanger
  <2>2. DOMAIN PatternDanger = 1 .. 5
    BY DEF PatternDanger
  <2> QED
    BY <2>1, <2>2
<1>2. /\ SoundPatterns["MoveDanger"].durations = PatternDanger
      /\ SoundPatterns["OvertakeDanger"].durations = PatternDanger
  BY DEF SoundPatterns, Pattern
<1>3. CASE t \in {"MoveDanger", "OvertakeDanger"}
  <2>1. SoundPatterns[t].durations = PatternDanger
    BY <1>2, <1>3, Zenon
  <2>2. Len(PatternDanger) \in Nat /\ Len(PatternDanger) >= 1
    BY <1>1
  <2> QED
    BY <2>1, <2>2, Zenon
<1>4. CASE t = "Sos"
  <2> DEFINE dot == MorseCodeShortMs
             dash == MorseCodeLongMs
             signal == <<dot, dot, dot, dash, dash, dash, dot, dot, dot>>
  <2>1. SoundPatterns["Sos"].durations = signal
    BY DEF SoundPatterns, Pattern
  <2>2. Len(signal) = 9
    OBVIOUS
  <2> HIDE DEF signal
  <2> QED
    BY <1>4, <2>1, <2>2
<1>5. CASE t = "Fog"
  BY <1>5 DEF SoundPatterns, Pattern
<1>6. CASE t = "MoveStarboard"
  BY <1>6 DEF SoundPatterns, Pattern
<1>7. CASE t = "MovePort"
  <2> DEFINE signal == <<SoundBlastShortMs, SoundBlastShortMs>>
  <2>1. SoundPatterns["MovePort"].durations = signal
    BY DEF SoundPatterns, Pattern
  <2>2. Len(signal) = 2
    OBVIOUS
  <2> HIDE DEF signal
  <2> QED
    BY <1>7, <2>1, <2>2
<1>8. CASE t = "MoveAstern"
  <2> DEFINE signal == <<SoundBlastShortMs, SoundBlastShortMs, SoundBlastShortMs>>
  <2>1. SoundPatterns["MoveAstern"].durations = signal
    BY DEF SoundPatterns, Pattern
  <2>2. Len(signal) = 3
    OBVIOUS
  <2> HIDE DEF signal
  <2> QED
    BY <1>8, <2>1, <2>2
<1>9. CASE t = "OvertakeStarboard"
  <2> DEFINE signal == <<SoundBlastLongMs, SoundBlastLongMs, SoundBlastShortMs>>
  <2>1. SoundPatterns["OvertakeStarboard"].durations = signal
    BY DEF SoundPatterns, Pattern
  <2>2. Len(signal) = 3
    OBVIOUS
  <2> HIDE DEF signal
  <2> QED
    BY <1>9, <2>1, <2>2
<1>10. CASE t = "OvertakePort"
  <2> DEFINE signal == <<SoundBlastLongMs, SoundBlastLongMs,
                         SoundBlastShortMs, SoundBlastShortMs>>
  <2>1. SoundPatterns["OvertakePort"].durations = signal
    BY DEF SoundPatterns, Pattern
  <2>2. Len(signal) = 4
    OBVIOUS
  <2> HIDE DEF signal
  <2> QED
    BY <1>10, <2>1, <2>2
<1>11. CASE t = "OvertakeConsent"
  <2> DEFINE signal == <<SoundBlastLongMs, SoundBlastShortMs,
                         SoundBlastLongMs, SoundBlastShortMs>>
  <2>1. SoundPatterns["OvertakeConsent"].durations = signal
    BY DEF SoundPatterns, Pattern
  <2>2. Len(signal) = 4
    OBVIOUS
  <2> HIDE DEF signal
  <2> QED
    BY <1>11, <2>1, <2>2
<1>12. CASE t = "Test"
  BY <1>12 DEF SoundPatterns, Pattern
<1>13. \/ t \in {"MoveDanger", "OvertakeDanger"}
      \/ t = "Sos" \/ t = "Fog" \/ t = "MoveStarboard" \/ t = "MovePort"
      \/ t = "MoveAstern" \/ t = "OvertakeStarboard" \/ t = "OvertakePort"
      \/ t = "OvertakeConsent" \/ t = "Test"
  BY DEF SoundTypes
<1> QED
  BY <1>3, <1>4, <1>5, <1>6, <1>7, <1>8, <1>9, <1>10, <1>11, <1>12, <1>13, Zenon

(* What startSound and stopSound leave: the pin of the configured horn, if *)
(* any, as asked, every other output as it was.                            *)
LEMMA HornLevelEffect ==
    ASSUME TypeOK, NEW on \in BOOLEAN
    PROVE  /\ HornLevel(on) \in [Pins -> BOOLEAN]
           /\ \A p \in Pins :
                 HornLevel(on)[p] = IF soundRelayIndex \in Relays /\ pin[soundRelayIndex] = p
                                    THEN on ELSE level[p]
  BY DEF TypeOK, HornLevel

-----------------------------------------------------------------------------
(* The player's invariant: types, a blast index inside its pattern, and an *)
(* output that is on only while the horn sounds.                           *)
PlayerInv == TypeOK /\ BlastIndexInPattern /\ HornOnlyInBlast

(* At boot the player is idle and the horn is off.                         *)
LEMMA PlayerInit_Inv == Init => PlayerInv
  BY SoundAssumption DEF Init, PlayerInit, PlayerInv, TypeOK, BlastIndexInPattern,
     HornOnlyInBlast, SoundTypes, SoundStates, None, DefaultValue

(* A request, whatever it replaces, keeps the invariant.                   *)
LEMMA PlayStep ==
    ASSUME PlayerInv, NEW t \in Signals \cup {None}, PlaySound(t)
    PROVE  PlayerInv'
<1> USE DEF PlayerInv
<1>1. t \in SoundTypes \cup {None} /\ None \notin SoundTypes
  BY SoundAssumption DEF SoundTypes, None
<1>2. TypeOK' /\ \A p \in Pins : ~level'[p]
  <2>1. level' \in [Pins -> BOOLEAN] /\ \A p \in Pins : ~level'[p]
    <3>1. CASE isPlaying
      BY <3>1, HornLevelEffect DEF PlaySound, LevelWhenReplaced, HornOnlyInBlast, TypeOK
    <3>2. CASE ~isPlaying
      BY <3>2 DEF PlaySound, LevelWhenReplaced, HornOnlyInBlast, TypeOK, isPlaying
    <3> QED
      BY <3>1, <3>2
  <2> QED
    BY <1>1, <2>1 DEF PlaySound, Silent, setupVars, TypeOK, SoundStates
<1>3. BlastIndexInPattern'
  <2>1. CASE t = None
    BY <2>1 DEF PlaySound, Silent, BlastIndexInPattern
  <2>2. CASE t # None
    <3>1. t \in SoundTypes
      BY <1>1, <2>2
    <3>2. soundType' = t /\ currentBlastIndex' = 0
      BY <2>2 DEF PlaySound
    <3> QED
      BY <3>1, <3>2, PatternsNotEmpty DEF BlastIndexInPattern, currentPattern
  <2> QED
    BY <2>1, <2>2
<1> QED
  BY <1>2, <1>3 DEF HornOnlyInBlast

(* A transition of update(): whatever ends a blast clears the output first. *)
LEMMA TransitionStep ==
    ASSUME PlayerInv, isPlaying, Transition, late' = 0, UNCHANGED <<setupVars, pin>>
    PROVE  PlayerInv'
<1> USE DEF PlayerInv
<1> DEFINE count == Len(currentPattern.durations)
<1>1. soundType \in SoundTypes /\ count \in Nat /\ count >= 1
  <2>1. soundType \in SoundTypes
    BY DEF TypeOK, isPlaying
  <2> QED
    BY <2>1, PatternsNotEmpty DEF currentPattern
<1>2. /\ UNCHANGED <<soundStartDelay, soundRelayIndex, pin>> /\ late' \in 0 .. MaxStall
      /\ soundStartDelay' \in StartDelays
      /\ soundRelayIndex' \in Relays \cup {DefaultValue}
      /\ pin' \in [Relays -> Pins \cup {DefaultValue}]
  BY SoundAssumption DEF setupVars, TypeOK
<1> HIDE DEF count
<1>3. CASE FirstBlast \/ NextBlast
  <2>1. /\ state \in {"StartDelay", "BlastGap"}
        /\ state' = "BlastOn" /\ elapsed' = 0
        /\ level' = HornLevel(TRUE)
        /\ UNCHANGED <<soundType, currentBlastIndex>>
    BY <1>3 DEF FirstBlast, NextBlast, Enter
  <2>2. \A p \in Pins : ~level[p]
    BY <2>1 DEF HornOnlyInBlast
  <2>3. TypeOK'
    BY <1>1, <1>2, <2>1, HornLevelEffect DEF TypeOK, SoundStates
  <2>4. BlastIndexInPattern'
    BY <2>1 DEF BlastIndexInPattern, currentPattern
  <2>5. HornOnlyInBlast'
    BY <1>2, <2>1, <2>2, HornLevelEffect DEF HornOnlyInBlast
  <2> QED
    BY <2>3, <2>4, <2>5
<1>4. CASE EndBlast \/ EndPattern
  <2>1. state = "BlastOn" /\ level' = HornLevel(FALSE)
    BY <1>4 DEF EndBlast, EndPattern
  <2>2. level' \in [Pins -> BOOLEAN] /\ \A p \in Pins : ~level'[p]
    BY <2>1, HornLevelEffect DEF HornOnlyInBlast
  <2>3. currentBlastIndex \in Nat /\ currentBlastIndex + 1 \in 1 .. count
    BY <2>1 DEF BlastIndexInPattern, TypeOK, count
  <2>4. CASE EndBlast
    <3>1. /\ state' = "BlastGap" /\ elapsed' = 0 /\ UNCHANGED soundType
          /\ currentBlastIndex' = currentBlastIndex + 1
          /\ currentBlastIndex + 1 # count
      BY <2>4 DEF EndBlast, Enter, LastBlast, count
    <3>2. currentBlastIndex' + 1 \in 1 .. count /\ currentBlastIndex' \in Nat
      BY <1>1, <2>3, <3>1
    <3>3. TypeOK'
      <4>1. soundType' \in SoundTypes \cup {None} /\ soundType' # None
        BY <1>1, <3>1 DEF SoundTypes, None
      <4> QED
        BY <1>2, <2>2, <3>1, <3>2, <4>1 DEF TypeOK, SoundStates
    <3>4. BlastIndexInPattern'
      BY <3>1, <3>2 DEF BlastIndexInPattern, currentPattern, count
    <3> QED
      BY <2>2, <3>3, <3>4 DEF HornOnlyInBlast
  <2>5. CASE EndPattern
    <3>1. \/ /\ state' = "WaitingRepeat" /\ elapsed' = 0 /\ UNCHANGED soundType
             /\ currentBlastIndex' = currentBlastIndex + 1
          \/ /\ soundType' = None /\ state' = "Idle"
             /\ currentBlastIndex' = 0 /\ elapsed' = 0
      BY <2>5 DEF EndPattern, Enter, Silent
    <3>2. /\ soundType' \in SoundTypes \cup {None} /\ state' \in SoundStates
          /\ (soundType' = None) <=> (state' = "Idle")
          /\ currentBlastIndex' \in Nat /\ elapsed' \in Nat
      <4>1. soundType # None
        BY <1>1 DEF SoundTypes, None
      <4> QED
        BY <1>1, <2>3, <3>1, <4>1 DEF SoundStates
    <3>3. TypeOK'
      BY <1>2, <2>2, <3>2 DEF TypeOK
    <3>4. BlastIndexInPattern'
      BY <3>1 DEF BlastIndexInPattern
    <3> QED
      BY <2>2, <3>3, <3>4 DEF HornOnlyInBlast
  <2> QED
    BY <1>4, <2>4, <2>5
<1>5. CASE RestartPattern
  <2>1. /\ state = "WaitingRepeat" /\ state' = "BlastOn" /\ elapsed' = 0
        /\ currentBlastIndex' = 0 /\ UNCHANGED <<soundType, level>>
    BY <1>5 DEF RestartPattern, Enter
  <2>2. TypeOK'
    BY <1>1, <1>2, <2>1 DEF TypeOK, SoundStates
  <2>3. BlastIndexInPattern'
    BY <1>1, <2>1 DEF BlastIndexInPattern, currentPattern, count
  <2>4. HornOnlyInBlast'
    BY <2>1 DEF HornOnlyInBlast
  <2> QED
    BY <2>2, <2>3, <2>4
<1> QED
  BY <1>3, <1>4, <1>5 DEF Transition

(* Every step keeps the invariant.                                         *)
LEMMA PlayerStep == PlayerInv /\ [Next]_soundVars => PlayerInv'
<1> SUFFICES ASSUME PlayerInv, [Next]_soundVars
             PROVE  PlayerInv'
  OBVIOUS
<1>1. ASSUME NEW t \in Signals \cup {None}, PlaySound(t)
      PROVE  PlayerInv'
  BY <1>1, PlayStep
<1>2. CASE Update
  <2>1. CASE isPlaying /\ elapsed >= Deadline /\ Transition
    BY <1>2, <2>1, TransitionStep DEF Update
  <2>2. CASE UNCHANGED <<playerVars, level>>
    BY <1>2, <2>2, SoundAssumption DEF Update, playerVars, setupVars, PlayerInv, TypeOK,
       BlastIndexInPattern, HornOnlyInBlast, currentPattern
  <2> QED
    BY <1>2, <2>1, <2>2 DEF Update
<1>3. ASSUME NEW d \in StartDelays, SetSoundDelayStart(d)
      PROVE  PlayerInv'
  BY <1>3 DEF SetSoundDelayStart, ConfigUpdated, playerVars, PlayerInv, TypeOK,
     BlastIndexInPattern, HornOnlyInBlast, currentPattern
<1>4. CASE Tick
  BY <1>4, SoundAssumption DEF Tick, setupVars, PlayerInv, TypeOK, BlastIndexInPattern,
     HornOnlyInBlast, currentPattern
<1>5. CASE UNCHANGED soundVars
  BY <1>5 DEF soundVars, playerVars, setupVars, PlayerInv, TypeOK, BlastIndexInPattern,
     HornOnlyInBlast, currentPattern
<1> QED
  BY <1>1, <1>2, <1>3, <1>4, <1>5 DEF Next

(* The player's variables keep their types.                                *)
THEOREM PlayerTypes == Spec => []TypeOK
<1>1. PlayerInv => TypeOK
  BY DEF PlayerInv
<1> QED
  BY <1>1, PlayerInit_Inv, PlayerStep, PTL DEF Spec

(* update() never indexes a pattern beyond its last blast.                 *)
THEOREM BlastIndexSafe == Spec => []BlastIndexInPattern
<1>1. PlayerInv => BlastIndexInPattern
  BY DEF PlayerInv
<1> QED
  BY <1>1, PlayerInit_Inv, PlayerStep, PTL DEF Spec

(* However signals are requested, replaced and cancelled, an output is on  *)
(* only during a blast, and only the horn's.                               *)
THEOREM HornSafe == Spec => []HornOnlyInBlast
<1>1. PlayerInv => HornOnlyInBlast
  BY DEF PlayerInv
<1> QED
  BY <1>1, PlayerInit_Inv, PlayerStep, PTL DEF Spec

-----------------------------------------------------------------------------
(* The listener.  Nothing rewires the horn while the player runs alone, so *)
(* a horn that is configured and has a pin keeps it.                       *)
HornWired == soundRelayIndex \in Relays /\ pin[soundRelayIndex] \in Pins

(* A one-shot signal sounds in its blasts, knows where it is, and does not *)
(* wait for a repetition; a blast is overrun by no more than the loop was  *)
(* away.                                                                   *)
OneShotInv ==
    /\ HornWired
    /\ soundType \in Signals \cup {None}
    /\ PlayingOneShot => state # "WaitingRepeat"
    /\ (PlayingOneShot /\ state = "BlastOn") => level[pin[soundRelayIndex]]
    /\ state = "StartDelay" => currentBlastIndex = 0
    /\ state = "BlastGap" => currentBlastIndex >= 1
    /\ state = "BlastOn" =>
          elapsed < currentPattern.durations[currentBlastIndex + 1] + late

ListenerInv == PlayerInv /\ OneShotInv

(* Every blast lasts some time.                                            *)
LEMMA BlastsPositive ==
    ASSUME NEW t \in SoundTypes,
           NEW i \in 1 .. Len(SoundPatterns[t].durations)
    PROVE  SoundPatterns[t].durations[i] \in Nat \ {0}
<1> DEFINE S == SoundBlastShortMs
           L == SoundBlastLongMs
           dot == MorseCodeShortMs
           dash == MorseCodeLongMs
           Lasting == Nat \ {0}
<1>1. S \in Lasting /\ L \in Lasting /\ dot \in Lasting /\ dash \in Lasting
  BY SoundAssumption
<1> HIDE DEF S, L, dot, dash, Lasting
<1>2. SoundPatterns[t].durations \in Seq(Lasting)
  <2>1. PatternDanger \in Seq(Lasting)
    BY <1>1 DEF PatternDanger, S
  <2>2. <<dot, dot, dot, dash, dash, dash, dot, dot, dot>> \in Seq(Lasting)
    BY <1>1
  <2>3. /\ <<S>> \in Seq(Lasting) /\ <<L>> \in Seq(Lasting)
        /\ <<S, S>> \in Seq(Lasting) /\ <<S, S, S>> \in Seq(Lasting)
        /\ <<L, L, S>> \in Seq(Lasting)
    BY <1>1
  <2>4. <<L, L, S, S>> \in Seq(Lasting)
    BY <1>1
  <2>5. <<L, S, L, S>> \in Seq(Lasting)
    BY <1>1
  <2>6. SoundPatterns[t].durations \in
            {PatternDanger, <<dot, dot, dot, dash, dash, dash, dot, dot, dot>>,
             <<S>>, <<L>>, <<S, S>>, <<S, S, S>>, <<L, L, S>>, <<L, L, S, S>>,
             <<L, S, L, S>>}
    BY DEF SoundPatterns, Pattern, SoundTypes, S, L, dot, dash
  <2> QED
    BY <2>1, <2>2, <2>3, <2>4, <2>5, <2>6
<1> QED
  BY <1>2 DEF Lasting

(* At boot nothing plays.                                                  *)
LEMMA ListenerInvInit == Init /\ HornWired => ListenerInv
  BY PlayerInit_Inv DEF Init, PlayerInit, ListenerInv, OneShotInv, PlayingOneShot, isPlaying, None

(* The wiring of the horn stays, and a signal that does not repeat never   *)
(* enters a pause between repetitions.                                     *)
LEMMA ListenerInvStep == ListenerInv /\ [Next]_soundVars => ListenerInv'
<1> SUFFICES ASSUME ListenerInv, [Next]_soundVars
             PROVE  OneShotInv'
  BY PlayerStep DEF ListenerInv
<1>1. HornWired'
  <2>1. UNCHANGED <<soundRelayIndex, pin>>
    BY DEF Next, PlaySound, Update, SetSoundDelayStart, ConfigUpdated, Tick, setupVars,
       soundVars
  <2> QED
    BY <2>1 DEF ListenerInv, OneShotInv, HornWired
<1>2. ASSUME NEW t \in Signals \cup {None}, PlaySound(t)
      PROVE  OneShotInv'
  BY <1>1, <1>2 DEF PlaySound, Silent, OneShotInv, PlayingOneShot, isPlaying
<1>3. CASE Update
  <2>1. CASE UNCHANGED <<playerVars, level>> /\ (isPlaying => elapsed < Deadline)
    <3>1. state = "BlastOn" => elapsed < currentPattern.durations[currentBlastIndex + 1] + 0
      <4> SUFFICES ASSUME state = "BlastOn"
                   PROVE  elapsed < currentPattern.durations[currentBlastIndex + 1] + 0
        OBVIOUS
      <4>1. elapsed < currentPattern.durations[currentBlastIndex + 1]
        BY <2>1 DEF Deadline, isPlaying
      <4>2. currentPattern.durations[currentBlastIndex + 1] \in Nat \ {0}
        BY BlastsPositive DEF ListenerInv, PlayerInv, BlastIndexInPattern, currentPattern,
           TypeOK
      <4> QED
        BY <4>1, <4>2
    <3> QED
      BY <1>1, <1>3, <2>1, <3>1 DEF Update, playerVars, setupVars, ListenerInv, OneShotInv,
         PlayingOneShot, isPlaying, currentPattern
  <2>2. CASE isPlaying /\ Transition
    <3>1. /\ soundType \in SoundTypes /\ currentBlastIndex \in Nat
          /\ UNCHANGED <<soundRelayIndex, pin>> /\ late' = 0
      BY <1>3, <2>2 DEF Update, setupVars, ListenerInv, PlayerInv, TypeOK, isPlaying
    <3>2. \A i \in 1 .. Len(currentPattern.durations) :
              0 < currentPattern.durations[i] + 0
      BY <3>1, BlastsPositive DEF currentPattern
    <3>3. soundType \in Signals /\ None \notin SoundTypes
      BY <3>1 DEF ListenerInv, OneShotInv, SoundTypes, None
    <3>4. CASE FirstBlast \/ NextBlast
      <4>1. level'[pin[soundRelayIndex]] = TRUE
        BY <3>4, HornLevelEffect DEF FirstBlast, NextBlast, ListenerInv, PlayerInv,
           OneShotInv, HornWired
      <4>2. currentBlastIndex + 1 \in 1 .. Len(currentPattern.durations)
        BY <3>4 DEF FirstBlast, NextBlast, ListenerInv, PlayerInv, BlastIndexInPattern
      <4>3. /\ state' = "BlastOn" /\ elapsed' = 0
            /\ UNCHANGED <<soundType, currentBlastIndex>>
        BY <3>4 DEF FirstBlast, NextBlast, Enter
      <4>4. currentPattern' = currentPattern
        BY <4>3 DEF currentPattern
      <4> QED
        BY <1>1, <3>1, <3>2, <3>3, <4>1, <4>2, <4>3, <4>4 DEF OneShotInv
    <3>5. CASE EndBlast
      <4>1. /\ state' = "BlastGap" /\ currentBlastIndex' = currentBlastIndex + 1
            /\ UNCHANGED soundType
        BY <3>5 DEF EndBlast, Enter
      <4> QED
        BY <1>1, <3>1, <3>3, <4>1 DEF OneShotInv
    <3>6. CASE EndPattern
      <4>1. CASE Repeats
        <5>1. state' = "WaitingRepeat" /\ UNCHANGED soundType
          BY <3>6, <4>1 DEF EndPattern, Enter
        <5>2. ~PlayingOneShot'
          BY <4>1, <5>1 DEF PlayingOneShot, Repeats, currentPattern, NoRepeat
        <5> QED
          BY <1>1, <3>3, <5>1, <5>2 DEF OneShotInv
      <4>2. CASE ~Repeats
        <5>1. state' = "Idle" /\ soundType' = None
          BY <3>6, <4>2 DEF EndPattern, Silent
        <5> QED
          BY <1>1, <5>1 DEF OneShotInv, PlayingOneShot, isPlaying
      <4> QED
        BY <4>1, <4>2
    <3>7. CASE RestartPattern
      <4>1. /\ state = "WaitingRepeat" /\ state' = "BlastOn" /\ elapsed' = 0
            /\ currentBlastIndex' = 0 /\ UNCHANGED soundType
        BY <3>7 DEF RestartPattern, Enter
      <4>2. currentPattern' = currentPattern /\ ~PlayingOneShot /\ ~PlayingOneShot'
        BY <4>1 DEF ListenerInv, OneShotInv, PlayingOneShot, isPlaying, currentPattern
      <4>3. 1 \in 1 .. Len(currentPattern.durations)
        BY <3>1, PatternsNotEmpty DEF currentPattern
      <4> QED
        BY <1>1, <3>1, <3>2, <3>3, <4>1, <4>2, <4>3 DEF OneShotInv
    <3> QED
      BY <2>2, <3>4, <3>5, <3>6, <3>7 DEF Transition
  <2> QED
    BY <1>3, <2>1, <2>2 DEF Update
<1>4. ASSUME NEW d \in StartDelays, SetSoundDelayStart(d)
      PROVE  OneShotInv'
  BY <1>1, <1>4 DEF SetSoundDelayStart, ConfigUpdated, playerVars, ListenerInv, OneShotInv,
     PlayingOneShot, isPlaying, currentPattern
<1>5. CASE Tick
  <2>1. state = "BlastOn" =>
            currentPattern.durations[currentBlastIndex + 1] \in Nat \ {0}
    BY BlastsPositive DEF ListenerInv, PlayerInv, BlastIndexInPattern, currentPattern,
       TypeOK
  <2>2. elapsed \in Nat /\ late \in Nat
    BY SoundAssumption DEF ListenerInv, PlayerInv, TypeOK
  <2> QED
    BY <1>1, <1>5, <2>1, <2>2 DEF Tick, setupVars, ListenerInv, OneShotInv, PlayingOneShot,
       isPlaying, currentPattern
<1>6. CASE UNCHANGED soundVars
  BY <1>1, <1>6 DEF soundVars, playerVars, setupVars, ListenerInv, OneShotInv,
     PlayingOneShot, isPlaying, currentPattern
<1> QED
  BY <1>2, <1>3, <1>4, <1>5, <1>6 DEF Next

-----------------------------------------------------------------------------
(* The state of the listener, seen from the player's.                      *)
LEMMA ListenerIdle ==
    ASSUME ~PlayingOneShot, ~PlayingOneShot'
    PROVE  UNCHANGED Listener!vars
  BY DEF Listener!vars

(* During a one-shot signal the horn is heard exactly in the blasts.       *)
LEMMA HeardInBlasts ==
    ASSUME ListenerInv, PlayingOneShot
    PROVE  HornOn <=> state = "BlastOn"
  BY DEF ListenerInv, OneShotInv, HornWired, PlayerInv, HornOnlyInBlast, HornOn

(* A request, whatever it replaces, is a request to the listener; one for  *)
(* a repeating signal ends what the listener was promised.                 *)
LEMMA PlayIsARequest ==
    ASSUME ListenerInv, NEW t \in Signals \cup {None}, PlaySound(t)
    PROVE  Listener!Next
<1>1. state' # "BlastOn" /\ currentBlastIndex' = 0 /\ elapsed' = 0
  BY DEF PlaySound, Silent
<1>2. ListenerInv'
  BY ListenerInvStep DEF Next
<1>3. ~(PlayingOneShot' /\ HornOn')
  BY <1>1, <1>2 DEF ListenerInv, PlayerInv, HornOnlyInBlast, HornOn
<1>4. CASE PlayingOneShot'
  <2>1. soundType' = t /\ t \in OneShots
    BY <1>4 DEF PlaySound, Silent, PlayingOneShot, isPlaying, currentPattern, OneShots
  <2>2. Listener!Request(t)
    BY <1>1, <1>3, <1>4, <2>1 DEF Listener!Request
  <2> QED
    BY <2>1, <2>2 DEF Listener!Next
<1>5. CASE ~PlayingOneShot'
  <2>1. Listener!Request(None)
    BY <1>5 DEF Listener!Request
  <2>2. None \in OneShots \cup {Listener!None}
    BY DEF Listener!None, None
  <2> QED
    BY <2>1, <2>2 DEF Listener!Next
<1> QED
  BY <1>4, <1>5

(* The signal that plays is among those the listener knows.                *)
LEMMA OneShotFacts ==
    ASSUME ListenerInv, PlayingOneShot
    PROVE  /\ soundType \in OneShots /\ soundType # None
           /\ [s \in OneShots |-> SoundPatterns[s].durations][soundType]
                 = currentPattern.durations
           /\ [s \in OneShots |-> SoundPatterns[s].gapDuration][soundType]
                 = currentPattern.gapDuration
  BY DEF ListenerInv, OneShotInv, PlayerInv, TypeOK, PlayingOneShot, isPlaying,
     currentPattern, OneShots

(* A change of state that falls due is one that the listener waits for.    *)
LEMMA TransitionIsHeard ==
    ASSUME ListenerInv, isPlaying, elapsed >= Deadline, Transition, ListenerInv',
           UNCHANGED <<setupVars, pin>>
    PROVE  Listener!Next \/ UNCHANGED Listener!vars
<1>1. CASE ~PlayingOneShot
  <2>1. ~PlayingOneShot'
    BY <1>1 DEF Transition, FirstBlast, EndBlast, EndPattern, NextBlast, RestartPattern,
       Enter, Silent, PlayingOneShot, isPlaying, currentPattern
  <2> QED
    BY <1>1, <2>1, ListenerIdle
<1>2. CASE PlayingOneShot
  <2>1. HornOn <=> state = "BlastOn"
    BY <1>2, HeardInBlasts
  <2>2. PlayingOneShot' => (HornOn' <=> state' = "BlastOn")
    BY DEF ListenerInv, OneShotInv, HornWired, PlayerInv, HornOnlyInBlast, HornOn
  <2>3. currentBlastIndex \in Nat
    BY DEF ListenerInv, PlayerInv, TypeOK
  <2>4. CASE FirstBlast \/ NextBlast
    <3>1. /\ state' = "BlastOn" /\ elapsed' = 0 /\ state # "BlastOn"
          /\ UNCHANGED <<soundType, currentBlastIndex>>
      BY <2>4 DEF FirstBlast, NextBlast, Enter
    <3>2. PlayingOneShot'
      BY <1>2, <3>1 DEF PlayingOneShot, isPlaying, currentPattern
    <3>3. \/ currentBlastIndex = 0
          \/ /\ currentBlastIndex \in 1 .. Len(currentPattern.durations) - 1
             /\ elapsed >= currentPattern.gapDuration
      <4>1. CASE FirstBlast
        BY <4>1 DEF FirstBlast, ListenerInv, OneShotInv
      <4>2. CASE NextBlast
        <5>1. currentBlastIndex + 1 \in 1 .. Len(currentPattern.durations)
          BY <4>2 DEF NextBlast, ListenerInv, PlayerInv, BlastIndexInPattern
        <5>2. Len(currentPattern.durations) \in Nat
          BY <1>2, PatternsNotEmpty DEF currentPattern, ListenerInv, PlayerInv, TypeOK,
             PlayingOneShot, isPlaying
        <5>3. currentBlastIndex >= 1 /\ elapsed >= currentPattern.gapDuration
          BY <4>2 DEF NextBlast, ListenerInv, OneShotInv, Deadline
        <5> QED
          BY <2>3, <5>1, <5>2, <5>3
      <4> QED
        BY <2>4, <4>1, <4>2
    <3>4. Listener!StartBlast
      BY <1>2, <2>1, <2>2, <3>1, <3>2, <3>3, OneShotFacts
         DEF Listener!StartBlast, Listener!None, None
    <3> QED
      BY <3>4 DEF Listener!Next
  <2>5. CASE EndBlast
    <3>1. /\ state = "BlastOn" /\ state' = "BlastGap" /\ elapsed' = 0
          /\ currentBlastIndex' = currentBlastIndex + 1 /\ UNCHANGED soundType
          /\ currentBlastIndex + 1 # Len(currentPattern.durations)
          /\ elapsed >= currentPattern.durations[currentBlastIndex + 1]
      BY <2>5 DEF EndBlast, Enter, LastBlast, Deadline
    <3>2. PlayingOneShot'
      BY <1>2, <3>1 DEF PlayingOneShot, isPlaying, currentPattern
    <3>3. Listener!EndBlast
      BY <1>2, <2>1, <2>2, <3>1, <3>2, OneShotFacts DEF Listener!EndBlast
    <3> QED
      BY <3>3 DEF Listener!Next
  <2>6. CASE EndPattern
    <3>1. /\ state = "BlastOn" /\ state' = "Idle"
          /\ currentBlastIndex + 1 = Len(currentPattern.durations)
          /\ elapsed >= currentPattern.durations[currentBlastIndex + 1]
      BY <1>2, <2>6 DEF EndPattern, Enter, Silent, LastBlast, Deadline, Repeats,
         PlayingOneShot, NoRepeat
    <3>2. ~PlayingOneShot'
      BY <3>1 DEF PlayingOneShot, isPlaying
    <3>3. Listener!EndBlast
      BY <1>2, <2>1, <3>1, <3>2, OneShotFacts DEF Listener!EndBlast, Listener!None, None
    <3> QED
      BY <3>3 DEF Listener!Next
  <2>7. CASE RestartPattern
    BY <1>2, <2>7 DEF RestartPattern, ListenerInv, OneShotInv
  <2> QED
    BY <2>4, <2>5, <2>6, <2>7 DEF Transition
<1> QED
  BY <1>1, <1>2

(* Every step of the player is a step of the listener, or not heard.       *)
LEMMA ListenerStep ==
    ListenerInv /\ [Next]_soundVars => [Listener!Next]_(Listener!vars)
<1> SUFFICES ASSUME ListenerInv, [Next]_soundVars
             PROVE  Listener!Next \/ UNCHANGED Listener!vars
  OBVIOUS
<1>1. ListenerInv'
  BY ListenerInvStep
<1>2. ASSUME NEW t \in Signals \cup {None}, PlaySound(t)
      PROVE  Listener!Next
  BY <1>2, PlayIsARequest
<1>3. ASSUME UNCHANGED <<playerVars, level>>
      PROVE  UNCHANGED Listener!vars
  BY <1>3 DEF playerVars, Listener!vars, PlayingOneShot, isPlaying, currentPattern, HornOn
<1>4. CASE Update
  BY <1>1, <1>3, <1>4, TransitionIsHeard DEF Update
<1>5. CASE Tick
  <2>1. UNCHANGED <<soundType, state, currentBlastIndex, level>>
    BY <1>5 DEF Tick
  <2>2. CASE ~PlayingOneShot
    <3>1. ~PlayingOneShot'
      BY <2>1, <2>2 DEF PlayingOneShot, isPlaying, currentPattern
    <3> QED
      BY <2>2, <3>1, ListenerIdle
  <2>3. CASE PlayingOneShot
    <3>1. PlayingOneShot' /\ (HornOn' <=> HornOn)
      BY <2>1, <2>3 DEF PlayingOneShot, isPlaying, currentPattern, HornOn
    <3>2. state = "BlastOn" =>
              elapsed < currentPattern.durations[currentBlastIndex + 1] + MaxStall
      <4> SUFFICES ASSUME state = "BlastOn"
                   PROVE  elapsed < currentPattern.durations[currentBlastIndex + 1] + MaxStall
        OBVIOUS
      <4>1. currentPattern.durations[currentBlastIndex + 1] \in Nat \ {0}
        BY BlastsPositive DEF ListenerInv, PlayerInv, BlastIndexInPattern, currentPattern,
           TypeOK
      <4>2. elapsed < currentPattern.durations[currentBlastIndex + 1] + late
        BY DEF ListenerInv, OneShotInv
      <4>3. late < MaxStall /\ late \in Nat /\ elapsed \in Nat /\ MaxStall \in Nat
        BY <1>5, SoundAssumption DEF Tick, ListenerInv, PlayerInv, TypeOK
      <4> QED
        BY <4>1, <4>2, <4>3
    <3>3. Listener!Tick
      BY <1>5, <2>1, <2>3, <3>1, <3>2, HeardInBlasts, OneShotFacts
         DEF Listener!Tick, Tick, Listener!None, None
    <3> QED
      BY <3>3 DEF Listener!Next
  <2> QED
    BY <2>2, <2>3
<1>6. ASSUME NEW d \in StartDelays, SetSoundDelayStart(d)
      PROVE  UNCHANGED Listener!vars
  BY <1>3, <1>6 DEF SetSoundDelayStart
<1>7. CASE UNCHANGED soundVars
  BY <1>3, <1>7 DEF soundVars
<1> QED
  BY <1>2, <1>4, <1>5, <1>6, <1>7 DEF Next

(* With a horn that is configured and wired, every one-shot signal reaches *)
(* the listener as promised, for any pattern lengths, delays and stalls.   *)
THEOREM ListenerServed ==
    Init /\ HornWired /\ [][Next]_soundVars => ImplementsListener
<1>1. Init /\ HornWired => Listener!Init
  BY DEF Init, PlayerInit, Listener!Init, PlayingOneShot, isPlaying, Listener!None, None
<1> QED
  BY <1>1, ListenerInvInit, ListenerInvStep, ListenerStep, PTL
     DEF ImplementsListener, Listener!Spec
=============================================================================
