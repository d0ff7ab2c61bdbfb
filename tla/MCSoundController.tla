-------------------------- MODULE MCSoundController --------------------------
(* SoundController with durations scaled down to a few ticks, in the order *)
(* of the real ones: dot < dash <= short < long, gaps shorter than blasts, *)
(* repeats longer than any of them.                                        *)
EXTENDS SoundController

MCRelays == {0}
MCPins == {4}
MCAllSignals == SoundTypes
MCOneShots == SoundTypes \ {"Sos", "Fog"}
MCRepeating == {"Sos", "Fog"}
MCFewSignals == {"Sos", "Fog", "MovePort", "OvertakeConsent"}
MCStartDelays == {0, 2}

\* A horn that is configured and wired, the case the listener can judge.
MCInit == Init /\ soundRelayIndex = 0 /\ pin[0] = 4
MCSpec == MCInit /\ [][Next]_soundVars
MCFairSpec == MCSpec /\ WF_soundVars(Update) /\ WF_soundVars(Tick)
=============================================================================
