----------------------------- MODULE MCNightRelay -----------------------------
(* NightRelay, and with it RelayController, on two relays, two pins and    *)
(* one link slot: every pairing of relays, shared pins and roles meets     *)
(* every state of the light sensor.                                        *)
EXTENDS NightRelay

MCPins == {4, 5}
MCBlockedPins == {}
=============================================================================
