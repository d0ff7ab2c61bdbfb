--------------------------- MODULE SoundController ---------------------------
(***************************************************************************)
(* The non-blocking player of horn signals (SoundController.cpp).  It is   *)
(* polled by the main loop and compares the clock with the time its state  *)
(* was entered; here "elapsed" is that difference, "late" how long the     *)
(* loop has been away, and MaxStall the longest the loop can be away.      *)
(* The player drives the configured pin of the horn relay directly.        *)
(***************************************************************************)
EXTENDS Naturals, Sequences

CONSTANTS
    Relays,                              \* the relay indices
    Pins,                                \* the GPIO numbers of outputs
    Signals,                             \* the signals that are requested
    SoundBlastShortMs, SoundBlastLongMs, SoundBlastGapMs,
    MorseCodeShortMs, MorseCodeLongMs, MorseCodeGapMs,
    FogRepeatMs, SosRepeatMs,
    StartDelays,                         \* the start delays that are configured
    MaxStall                             \* bound: longest time between two polls

NoRepeat     == 0
DefaultValue == 255
None         == "None"

SoundTypes == {"Sos", "Fog", "MoveStarboard", "MovePort", "MoveAstern",
               "MoveDanger", "OvertakeStarboard", "OvertakePort",
               "OvertakeConsent", "OvertakeDanger", "Test"}

SoundStates == {"Idle", "StartDelay", "BlastOn", "BlastGap", "WaitingRepeat"}

ASSUME SoundAssumption ==
    /\ Relays \subseteq 0 .. 254
    /\ Pins \subseteq 1 .. 254
    /\ Signals \subseteq SoundTypes
    /\ {SoundBlastShortMs, SoundBlastLongMs, SoundBlastGapMs, MorseCodeShortMs,
        MorseCodeLongMs, MorseCodeGapMs, FogRepeatMs, SosRepeatMs} \subseteq Nat \ {0}
    /\ StartDelays \subseteq Nat
    /\ MaxStall \in Nat \ {0}

-----------------------------------------------------------------------------
(* The pattern table.                                                      *)

Pattern(durations, repeat, gap) ==
    [durations |-> durations, repeatInterval |-> repeat, gapDuration |-> gap]

PatternDanger == [i \in 1 .. 5 |-> SoundBlastShortMs]

SoundPatterns ==
    LET S == SoundBlastShortMs
        L == SoundBlastLongMs
        dot == MorseCodeShortMs
        dash == MorseCodeLongMs
        Once(d) == Pattern(d, NoRepeat, SoundBlastGapMs)
    IN  [Sos |-> Pattern(<<dot, dot, dot, dash, dash, dash, dot, dot, dot>>,
                         SosRepeatMs, MorseCodeGapMs),
         Fog |-> Pattern(<<L>>, FogRepeatMs, SoundBlastGapMs),
         MoveStarboard |-> Once(<<S>>),
         MovePort |-> Once(<<S, S>>),
         MoveAstern |-> Once(<<S, S, S>>),
         MoveDanger |-> Once(PatternDanger),
         OvertakeStarboard |-> Once(<<L, L, S>>),
         OvertakePort |-> Once(<<L, L, S, S>>),
         OvertakeConsent |-> Once(<<L, S, L, S>>),
         OvertakeDanger |-> Once(PatternDanger),
         Test |-> Once(<<S>>)]

-----------------------------------------------------------------------------
VARIABLES
    soundType,          \* _soundType; None while nothing is played
    state,              \* _state
    currentBlastIndex,  \* _currentBlastIndex
    elapsed,            \* now - _stateStartTime
    soundStartDelay,    \* _soundStartDelay
    soundRelayIndex,    \* _soundRelayIndex
    late,               \* time since the last poll
    pin,                \* config.relay.relays[r].pin, owned by the configuration
    level               \* TRUE while an output is LOW (on), shared with the relays

playerVars == <<soundType, state, currentBlastIndex, elapsed>>
setupVars  == <<soundStartDelay, soundRelayIndex>>
soundVars  == <<playerVars, setupVars, late, pin, level>>

isPlaying      == state # "Idle"
currentPattern == SoundPatterns[soundType]

\* The outputs after startSound or stopSound: the pin the configuration gives
\* the horn relay at that moment, if there is one.
HornLevel(on) ==
    IF soundRelayIndex \in Relays /\ pin[soundRelayIndex] \in Pins
    THEN [level EXCEPT ![pin[soundRelayIndex]] = on]
    ELSE level

Silent ==
    /\ soundType' = None /\ state' = "Idle"
    /\ currentBlastIndex' = 0 /\ elapsed' = 0

LevelKept == level  \* fault: the signal is replaced without stopSound()
LevelWhenReplaced == IF isPlaying THEN HornLevel(FALSE) ELSE level

\* Playing anything first stops what is playing.
PlaySound(t) ==
    /\ level' = LevelWhenReplaced
    /\ IF t = None
       THEN Silent
       ELSE /\ soundType' = t /\ state' = "StartDelay"
            /\ currentBlastIndex' = 0 /\ elapsed' = 0
    /\ UNCHANGED <<setupVars, late, pin>>

-----------------------------------------------------------------------------
(* update(): each state has a time to wait for and one transition.         *)

Deadline ==
    CASE state = "StartDelay"    -> soundStartDelay
      [] state = "BlastOn"       -> currentPattern.durations[currentBlastIndex + 1]
      [] state = "BlastGap"      -> currentPattern.gapDuration
      [] state = "WaitingRepeat" -> currentPattern.repeatInterval

LastBlast == currentBlastIndex + 1 = Len(currentPattern.durations)

AlwaysRepeats == currentPattern.repeatInterval >= 0  \* fault: >= for >
Repeats == currentPattern.repeatInterval > 0

Enter(s) == state' = s /\ elapsed' = 0

FirstBlast ==
    /\ state = "StartDelay"
    /\ Enter("BlastOn")
    /\ level' = HornLevel(TRUE)
    /\ UNCHANGED <<soundType, currentBlastIndex>>

EndBlast ==
    /\ state = "BlastOn" /\ ~LastBlast
    /\ level' = HornLevel(FALSE)
    /\ Enter("BlastGap")
    /\ currentBlastIndex' = currentBlastIndex + 1
    /\ UNCHANGED soundType

EndPattern ==
    /\ state = "BlastOn" /\ LastBlast
    /\ level' = HornLevel(FALSE)
    /\ IF Repeats
       THEN /\ Enter("WaitingRepeat")
            /\ currentBlastIndex' = currentBlastIndex + 1
            /\ UNCHANGED soundType
       ELSE Silent

SilentNextBlast ==  \* fault: the blast is entered without startSound()
    /\ state = "BlastGap"
    /\ Enter("BlastOn")
    /\ UNCHANGED <<soundType, currentBlastIndex, level>>

NextBlast ==
    /\ state = "BlastGap"
    /\ level' = HornLevel(TRUE)
    /\ Enter("BlastOn")
    /\ UNCHANGED <<soundType, currentBlastIndex>>

\* The repetition enters BlastOn as the code does: without startSound().
RestartPattern ==
    /\ state = "WaitingRepeat"
    /\ Enter("BlastOn")
    /\ currentBlastIndex' = 0
    /\ UNCHANGED <<soundType, level>>

Transition == FirstBlast \/ EndBlast \/ EndPattern \/ NextBlast \/ RestartPattern

\* A poll takes at most one transition; an idle player, or one whose time has
\* not come, only notes that it was polled.
Update ==
    /\ \/ isPlaying /\ elapsed >= Deadline /\ Transition
       \/ isPlaying /\ elapsed < Deadline /\ UNCHANGED <<playerVars, level>>
       \/ ~isPlaying /\ UNCHANGED <<playerVars, level>>
    /\ late' = 0
    /\ UNCHANGED <<setupVars, pin>>

ConfigUpdated(delay, hornRelay) ==
    soundStartDelay' = delay /\ soundRelayIndex' = hornRelay

\* setsoundDelayStart() of the configuration, which calls configUpdated().
SetSoundDelayStart(delay) ==
    /\ ConfigUpdated(delay, soundRelayIndex)
    /\ UNCHANGED <<playerVars, late, pin, level>>

\* Time passes while a signal is played; the loop is never away for longer
\* than MaxStall.
Tick ==
    /\ isPlaying /\ late < MaxStall
    /\ elapsed' = elapsed + 1 /\ late' = late + 1
    /\ UNCHANGED <<soundType, state, currentBlastIndex, setupVars, pin, level>>

PlayerInit ==
    /\ soundType = None /\ state = "Idle"
    /\ currentBlastIndex = 0 /\ elapsed = 0 /\ late = 0

Init ==
    /\ PlayerInit
    /\ soundStartDelay \in StartDelays
    /\ soundRelayIndex \in Relays \cup {DefaultValue}
    /\ pin \in [Relays -> Pins \cup {DefaultValue}]
    /\ level = [p \in Pins |-> FALSE]

Next ==
    \/ \E t \in Signals \cup {None} : PlaySound(t)
    \/ Update
    \/ \E d \in StartDelays : SetSoundDelayStart(d)
    \/ Tick

Spec == Init /\ [][Next]_soundVars

\* The loop keeps polling and the clock keeps running.
FairSpec == Spec /\ WF_soundVars(Update) /\ WF_soundVars(Tick)

-----------------------------------------------------------------------------
(* Types, and the bound the polling puts on how far a state overruns.      *)
TypeOK ==
    /\ soundType \in SoundTypes \cup {None}
    /\ state \in SoundStates
    /\ (soundType = None) <=> (state = "Idle")
    /\ currentBlastIndex \in Nat
    /\ elapsed \in Nat
    /\ soundStartDelay \in StartDelays
    /\ soundRelayIndex \in Relays \cup {DefaultValue}
    /\ late \in 0 .. MaxStall
    /\ pin \in [Relays -> Pins \cup {DefaultValue}]
    /\ level \in [Pins -> BOOLEAN]

(* The pattern is never read outside its bounds: the blast that update()   *)
(* times exists, also right after a pattern was replaced by another.       *)
BlastIndexInPattern ==
    state \in {"StartDelay", "BlastOn", "BlastGap"}
        => currentBlastIndex + 1 \in 1 .. Len(currentPattern.durations)

(* No output is on except the horn's, and that only during a blast: every  *)
(* way out of a blast, a cancellation or a new signal included, releases   *)
(* it (for a horn that is not reassigned meanwhile).                       *)
HornOnlyInBlast ==
    \A p \in Pins : level[p] => /\ state = "BlastOn"
                                /\ soundRelayIndex \in Relays
                                /\ pin[soundRelayIndex] = p

HornOn == \E p \in Pins : level[p]

NoMoreRequests == <>[][~ \E t \in Signals \cup {None} : PlaySound(t)]_soundVars

PlayingOneShot == isPlaying /\ currentPattern.repeatInterval = NoRepeat

(* A one-shot signal ends by itself, at any start delay, unless a new      *)
(* request replaces it.                                                    *)
OneShotEnds ==
    NoMoreRequests => []<> ~PlayingOneShot

(* Docs/Commands.md H3: the fog signal sounds "every 2 minutes until       *)
(* cancelled".                                                             *)
FogHeardUntilCancelled ==
    (NoMoreRequests /\ <>[](soundType = "Fog")) => []<>HornOn

-----------------------------------------------------------------------------
(* What the listener of the one-shot signals was promised, for the horn as *)
(* it is wired; while a repeating signal is played none of them is.        *)
OneShots == {s \in Signals : SoundPatterns[s].repeatInterval = NoRepeat}

Listener ==
    INSTANCE HornSignal WITH
        Signals  <- OneShots,
        Blasts   <- [s \in OneShots |-> SoundPatterns[s].durations],
        Gap      <- [s \in OneShots |-> SoundPatterns[s].gapDuration],
        Slack    <- MaxStall,
        signal   <- IF PlayingOneShot THEN soundType ELSE None,
        heard    <- IF PlayingOneShot THEN currentBlastIndex ELSE 0,
        sounding <- PlayingOneShot /\ HornOn,
        age      <- IF PlayingOneShot THEN elapsed ELSE 0

(* The player implements the promise: blasts in order, each in full, with  *)
(* the gap between them, silence at once when cancelled.                   *)
ImplementsListener == Listener!Spec
=============================================================================
