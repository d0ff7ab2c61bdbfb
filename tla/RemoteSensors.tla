--------------------------- MODULE RemoteSensors ----------------------------
(***************************************************************************)
(* The table of remote sensors in the configuration: an array of entries   *)
(* and a count, changed by the commands E1 to E4.  There are three copies  *)
(* of the handlers: for the serial line, for api/externalsensor and for    *)
(* api/config.                                                             *)
(***************************************************************************)
EXTENDS Naturals, Sequences

CONSTANTS Names, NoName, MaxSensors   \* as in SensorList

ASSUME TableAssumption == NoName \notin Names /\ MaxSensors \in Nat

VARIABLES entries,      \* remoteSensors.sensors
          count         \* remoteSensors.count

tableVars == <<entries, count>>

Promise == INSTANCE SensorList WITH list <- SubSeq(entries, 1, count)

Empty == Promise!Empty
Places == 1 .. MaxSensors

\* E1: any place of the array; an empty name is not copied.
SetCore(i, name) ==
    /\ entries' = IF name = NoName THEN entries ELSE [entries EXCEPT ![i].name = name]
    /\ count' = IF i > count THEN i ELSE count

\* E2
SetMqtt(i, channel) ==
    /\ i <= count
    /\ entries' = [entries EXCEPT ![i].channel = channel]
    /\ UNCHANGED count

LastKept(i) ==  \* fault: the vacated entry is not zeroed
    [j \in Places |-> IF j \in i .. count - 1 THEN entries[j + 1] ELSE entries[j]]
Compacted(i) ==
    [j \in Places |-> CASE j \in i .. count - 1 -> entries[j + 1]
                        [] j = count -> Empty
                        [] OTHER -> entries[j]]

\* E3: what is not there counts as removed.
RemoveSensor(i) ==
    /\ i <= count
    /\ entries' = Compacted(i) /\ count' = count - 1

\* E4: an empty name is refused.
RenameSensor(i, name) ==
    /\ i <= count /\ name # NoName
    /\ entries' = [entries EXCEPT ![i].name = name]
    /\ UNCHANGED count

EntryCommand(i) ==
    \/ \E name \in Names \cup {NoName} : SetCore(i, name) \/ RenameSensor(i, name)
    \/ \E channel \in Promise!Channels : SetMqtt(i, channel)
    \/ RemoveSensor(i)

\* The front ends take the places apart and check them in the same way.
SerialCommand == \E i \in Places : EntryCommand(i)
ExternalCommand == \E i \in Places : EntryCommand(i)
FileCommand == \E i \in Places : EntryCommand(i)

TableInit == entries = [i \in Places |-> Empty] /\ count = 0
TableNext == SerialCommand \/ ExternalCommand \/ FileCommand
TableSpec == TableInit /\ [][TableNext]_tableVars

\* Whatever was set, renamed and removed before, through whichever front end,
\* the table is the list that the client thinks it is: nothing of a removed
\* sensor comes back under a new one.  Code: the compaction of E3 and the
\* appending of E1.
ImplementsList == Promise!Spec
=============================================================================
