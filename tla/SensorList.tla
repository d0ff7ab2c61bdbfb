----------------------------- MODULE SensorList -----------------------------
(***************************************************************************)
(* What a client is promised of the remote sensors: a list.  Setting a     *)
(* place behind its end makes it longer, with empty places in between, and *)
(* removing a place closes the gap.                                        *)
(***************************************************************************)
EXTENDS Naturals, Sequences, SequencesExt

CONSTANTS Names,        \* of sensors
          NoName,       \* the empty one
          MaxSensors    \* ConfigMaxSensors

Cores == Names \cup {NoName}
Channels == {"none", "some"}    \* the MQTT settings of a sensor
Empty == [name |-> NoName, channel |-> "none"]

VARIABLE list

Padded(i) == list \o [j \in 1 .. i - Len(list) |-> Empty]

\* A sensor without a new name keeps the one it has.
Set(i, name) ==
    list' = LET wide == Padded(i)
            IN IF name = NoName THEN wide ELSE [wide EXCEPT ![i].name = name]

SetChannel(i, channel) == /\ i <= Len(list)
                          /\ list' = [list EXCEPT ![i].channel = channel]
TakeOut(i) == i <= Len(list) /\ list' = RemoveAt(list, i)
Rename(i, name) == i <= Len(list) /\ list' = [list EXCEPT ![i].name = name]

Init == list = <<>>
Next == \E i \in 1 .. MaxSensors :
            \/ \E name \in Cores : Set(i, name)
            \/ \E channel \in Channels : SetChannel(i, channel)
            \/ TakeOut(i)
            \/ \E name \in Names : Rename(i, name)
Spec == Init /\ [][Next]_list
=============================================================================
