--------------------------- MODULE MCSdCardLogger ---------------------------
(* A small instance of the driver and the logger of the SD card.            *)
EXTENDS SdCardLogger

CONSTANTS c1, c2, r1, r2

MCDate == {[day |-> 1, month |-> 1], [day |-> 2, month |-> 1]}
MCNearlyFull == {c2}
MCWithConfig == {c1}
MCSlot == 1 .. 2

\* The bound: readings differ only while the clock is at its first date.
OneVaries == today.day = 1 \/ \A i \in DOMAIN buffer : buffer[i] = r1

MCSpec == LoggerInit /\ [][LoggerNext /\ OneVaries']_sdCardVars
          /\ WF_sdCardVars(Loop) /\ SF_sdCardVars(Tick)
=============================================================================
