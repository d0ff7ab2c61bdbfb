----------------------------- MODULE MCHubOutputs -----------------------------
(* HubOutputs with two relays on two pins, one link slot and the test      *)
(* signal, all durations one tick.  Default states and the night relay do  *)
(* not meet the horn: MCBound stops at states that set one.                *)
EXTENDS HubOutputs

MCPins == {4, 5}
MCBlockedPins == {}
MCSignals == {"Test"}
MCStartDelays == {0}
MCBound == /\ nightRelayIndex = PinDisabled
           /\ \A r \in Relays : ~defaultState[r]
=============================================================================
