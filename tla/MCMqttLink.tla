------------------------------ MODULE MCMqttLink ------------------------------
\* Three relays: one reserved, one without a pin.
EXTENDS MqttLink
Delays == <<0, 2>>
=============================================================================
