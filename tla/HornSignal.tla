------------------------------ MODULE HornSignal ------------------------------
(***************************************************************************)
(* What a listener is promised: a one-shot signal is heard as its blasts,  *)
(* in order, each for its length and with silence between them, and a new  *)
(* request or a cancellation silences the horn at once.  It knows nothing  *)
(* of relays, pins or the states of the player.                            *)
(***************************************************************************)
EXTENDS Naturals, Sequences

CONSTANTS
    Signals,     \* the signals that can be requested
    Blasts,      \* Blasts[s]: the lengths of the blasts of signal s
    Gap,         \* Gap[s]: the least silence between two blasts of s
    Slack        \* how late the end of a blast may be noticed

None == "None"

VARIABLES
    signal,      \* the signal in progress, or None
    heard,       \* how many blasts of it have been heard in full
    sounding,    \* the horn can be heard
    age          \* for how long it has been sounding, or silent

vars == <<signal, heard, sounding, age>>

Init == signal = None /\ heard = 0 /\ sounding = FALSE /\ age = 0

Request(s) ==
    /\ signal' = s /\ heard' = 0 /\ sounding' = FALSE /\ age' = 0

StartBlast ==
    /\ signal # None /\ ~sounding
    /\ \/ heard = 0
       \/ heard \in 1 .. Len(Blasts[signal]) - 1 /\ age >= Gap[signal]
    /\ sounding' = TRUE /\ age' = 0
    /\ UNCHANGED <<signal, heard>>

EndBlast ==
    /\ sounding
    /\ age >= Blasts[signal][heard + 1]
    /\ sounding' = FALSE /\ age' = 0
    /\ IF heard + 1 = Len(Blasts[signal])
       THEN signal' = None /\ heard' = 0
       ELSE heard' = heard + 1 /\ UNCHANGED signal

Tick ==
    /\ signal # None
    /\ sounding => age < Blasts[signal][heard + 1] + Slack
    /\ age' = age + 1
    /\ UNCHANGED <<signal, heard, sounding>>

Next ==
    \/ \E s \in Signals \cup {None} : Request(s)
    \/ StartBlast
    \/ EndBlast
    \/ Tick

Spec == Init /\ [][Next]_vars
=============================================================================
