------------------------------- MODULE Debounce -------------------------------
(***************************************************************************)
(* What a debounced yes or no promises, whatever it is read from: it turns *)
(* after "Confirm" readings in a row that contradict it, on the last of    *)
(* them, and on nothing less.  A restart sets it back to yes.              *)
(***************************************************************************)
EXTENDS Naturals

CONSTANT Confirm   \* how many readings turn it

VARIABLES
    value,      \* what is reported
    contrary    \* how many readings in a row contradicted it

debounceVars == <<value, contrary>>

Agree == contrary' = 0 /\ UNCHANGED value

Doubt ==
    /\ contrary + 1 < Confirm
    /\ contrary' = contrary + 1
    /\ UNCHANGED value

Turn ==
    /\ contrary + 1 = Confirm
    /\ value' = ~value
    /\ contrary' = 0

Restart == value' = TRUE /\ contrary' = 0

Init == value = TRUE /\ contrary = 0

Next == Agree \/ Doubt \/ Turn \/ Restart

Spec == Init /\ [][Next]_debounceVars
=============================================================================
