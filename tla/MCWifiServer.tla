---------------------------- MODULE MCWifiServer ----------------------------
(* Two client slots, one of which may be persistent; the intervals of the  *)
(* firmware in their order: check < timeout, retry < backoff.              *)
EXTENDS WifiServer
=============================================================================
