--------------------------- MODULE Peripherals_proofs --------------------------
(***************************************************************************)
(* What is attached to the hub, for any number of it.  The summary of the  *)
(* sensor warnings is up while a sensor's own is; the table of remote      *)
(* sensors is the list its clients take it for; the logger of the SD card  *)
(* writes to its own open file, and its ring of records is a queue; what a *)
(* presence sensor pulses is timed.                                        *)
(***************************************************************************)
EXTENDS SensorWarnings, RemoteSensors, SdCardLogger, SensorFeed, SequenceTheorems,
        FiniteSetTheorems, TLAPS

-----------------------------------------------------------------------------
(* The warnings of the sensors: the summary is up while a sensor flag is.  *)

(* Raising any warning, sensor flags with the summary.                     *)
LEMMA RaiseKeepsSummary ==
    ASSUME SummaryKept, NEW w, raiseWarning(w)
    PROVE  SummaryKept'
  BY DEF SummaryKept, isWarningActive, raiseWarning, WithWarning

(* Clearing any warning but the summary itself, which W4 alone may name.   *)
LEMMA ClearKeepsSummary ==
    ASSUME SummaryKept, NEW w, w # SensorFailure \/ SensorFailure \in Cleared,
           clearWarning(w)
    PROVE  SummaryKept'
  BY DEF SummaryKept, isWarningActive, clearWarning, OtherSensorWarnings

(* A poll of a sensor that shares its flag with others of its kind.        *)
LEMMA WatchKeepsSummary ==
    ASSUME SummaryKept, NEW s, NEW flag, flag # SensorFailure, Watch(s, flag)
    PROVE  SummaryKept'
  BY RaiseKeepsSummary, ClearKeepsSummary DEF Watch, FailureSeen, RecoverySeen

(* The commands: all away at once, or one by its name.                     *)
LEMMA CommandKeepsSummary ==
    ASSUME SummaryKept, Command
    PROVE  SummaryKept'
<1>1. CASE clearAllWarnings
  BY <1>1 DEF clearAllWarnings, SummaryKept
<1>2. ASSUME NEW w \in Raised, raiseWarning(w)
      PROVE  SummaryKept'
  BY <1>2, RaiseKeepsSummary
<1>3. ASSUME NEW w \in Cleared, clearWarning(w)
      PROVE  SummaryKept'
  BY <1>3, ClearKeepsSummary
<1> QED
  BY <1>1, <1>2, <1>3 DEF Command

(* A poll of any sensor, the voltage sensors with their own memory.        *)
LEMMA PollKeepsSummary ==
    ASSUME SummaryKept, NEW s \in Sensors, Poll(s)
    PROVE  SummaryKept'
<1>1. SensorFailure \notin {TemperatureSensorFailure, LowVoltage, GpsFailure}
  BY SensorAssumption
<1>2. CASE Dht11Update(s)
  BY <1>1, <1>2, WatchKeepsSummary DEF Dht11Update
<1>3. CASE GpsUpdate(s)
  BY <1>1, <1>3, WatchKeepsSummary DEF GpsUpdate
<1>4. CASE VoltageUpdate(s)
  BY <1>1, <1>4, RaiseKeepsSummary, ClearKeepsSummary
     DEF VoltageUpdate, VoltageDrops, VoltageRecovers
<1> QED
  BY <1>2, <1>3, <1>4 DEF Poll

(* Whatever sensors fail, recover or are not built, and whatever warnings  *)
(* are raised and cleared by name, the summary stays up while a sensor     *)
(* flag does.                                                              *)
THEOREM SummaryAlwaysKept == Spec => []SummaryKept
<1>1. Init => SummaryKept
  BY DEF Init, FactoryWarnings, SummaryKept, isWarningActive
<1>2. SummaryKept /\ [Next]_sensorVars => SummaryKept'
  <2> SUFFICES ASSUME SummaryKept, [Next]_sensorVars
               PROVE  SummaryKept'
    OBVIOUS
  <2>1. ASSUME NEW s \in Sensors, Poll(s)
        PROVE  SummaryKept'
    BY <2>1, PollKeepsSummary
  <2>2. CASE Command
    BY <2>2, CommandKeepsSummary
  <2>3. ASSUME UNCHANGED localWarnings
        PROVE  SummaryKept'
    BY <2>3 DEF SummaryKept, isWarningActive
  <2> QED
    BY <2>1, <2>2, <2>3 DEF Next, Turn, WarningCommand, sensorVars
<1> QED
  BY <1>1, <1>2, PTL DEF Spec

-----------------------------------------------------------------------------
(* Every flag that is raised is one of the known ones, and the memory of   *)
(* the voltage sensors is of their own.                                    *)
THEOREM WarningTypes == Spec => []TypeOK
<1> USE WarningAssumption, SensorAssumption
<1>1. Init => TypeOK
  BY DEF Init, FactoryWarnings, TypeOK
<1>2. TypeOK /\ [Next]_sensorVars => TypeOK'
  <2> SUFFICES ASSUME TypeOK, [Next]_sensorVars
               PROVE  TypeOK'
    OBVIOUS
  <2>1. ASSUME NEW w \in Warnings, raiseWarning(w)
        PROVE  localWarnings' \subseteq Warnings
    BY <2>1 DEF raiseWarning, WithWarning, TypeOK
  <2>2. ASSUME NEW w, clearWarning(w)
        PROVE  localWarnings' \subseteq Warnings
    BY <2>2 DEF clearWarning, TypeOK
  <2>3. TemperatureSensorFailure \in Warnings /\ LowVoltage \in Warnings /\ GpsFailure \in Warnings
    OBVIOUS
  <2>4. ASSUME NEW s \in Sensors, Dht11Update(s) \/ GpsUpdate(s)
        PROVE  TypeOK'
    BY <2>1, <2>2, <2>3, <2>4 DEF Dht11Update, GpsUpdate, Watch, FailureSeen, RecoverySeen, TypeOK
  <2>5. ASSUME NEW s \in Sensors, VoltageUpdate(s)
        PROVE  TypeOK'
    BY <2>1, <2>2, <2>3, <2>5 DEF VoltageUpdate, VoltageDrops, VoltageRecovers, TypeOK
  <2>6. ASSUME NEW s \in Sensors, Turn(s)
        PROVE  TypeOK'
    BY <2>6 DEF Turn, TypeOK
  <2>7. CASE WarningCommand
    BY <2>1, <2>2, <2>7 DEF WarningCommand, Command, clearAllWarnings, TypeOK
  <2>8. CASE UNCHANGED sensorVars
    BY <2>8 DEF sensorVars, TypeOK
  <2> QED
    BY <2>4, <2>5, <2>6, <2>7, <2>8 DEF Next, Poll
<1> QED
  BY <1>1, <1>2, PTL DEF Spec

-----------------------------------------------------------------------------
(* The table of remote sensors is a list.                                  *)

Entry == [name : Names \cup {NoName}, channel : {"none", "some"}]

(* The entries behind the count are zeroed: what comes into use is new.    *)
TableInv ==
    /\ entries \in [Places -> Entry]
    /\ count \in 0 .. MaxSensors
    /\ \A i \in Places : i > count => entries[i] = Empty

(* The zeroed entry is an entry, without a name and without a channel.     *)
LEMMA EmptyEntry == Empty \in Entry /\ Empty = [name |-> NoName, channel |-> "none"]
  BY DEF Empty, Promise!Empty, Entry

(* The array starts zeroed.                                                *)
LEMMA TableInvInit == TableInit => TableInv
  BY EmptyEntry, TableAssumption DEF TableInit, TableInv, Places

(* Every command, by any way in, leaves the rest of the array zeroed.      *)
LEMMA TableInvStep == TableInv /\ [TableNext]_tableVars => TableInv'
<1> SUFFICES ASSUME TableInv, [TableNext]_tableVars
             PROVE  TableInv'
  OBVIOUS
<1> USE TableAssumption DEF TableInv, Places
<1>1. ASSUME NEW i \in Places, NEW name \in Names \cup {NoName}, SetCore(i, name)
      PROVE  TableInv'
  <2>1. entries' \in [Places -> Entry]
    BY <1>1 DEF SetCore, Entry
  <2>2. count' \in 0 .. MaxSensors /\ count <= count' /\ i <= count'
    BY <1>1 DEF SetCore
  <2>3. \A j \in Places : j # i => entries'[j] = entries[j]
    BY <1>1 DEF SetCore
  <2>4. \A j \in Places : j > count' => j > count /\ j # i
    BY <2>2
  <2> QED
    BY <2>1, <2>2, <2>3, <2>4
<1>2. ASSUME NEW i \in Places, NEW name \in Names \cup {NoName}, RenameSensor(i, name)
      PROVE  TableInv'
  <2>1. entries' \in [Places -> Entry]
    BY <1>2 DEF RenameSensor, Entry
  <2> QED
    BY <1>2, <2>1 DEF RenameSensor
<1>3. ASSUME NEW i \in Places, NEW channel \in Promise!Channels, SetMqtt(i, channel)
      PROVE  TableInv'
  <2>1. entries' \in [Places -> Entry]
    BY <1>3 DEF SetMqtt, Entry, Promise!Channels
  <2> QED
    BY <1>3, <2>1 DEF SetMqtt
<1>4. ASSUME NEW i \in Places, RemoveSensor(i)
      PROVE  TableInv'
  <2>1. entries' \in [Places -> Entry]
    BY <1>4, EmptyEntry DEF RemoveSensor, Compacted
  <2>2. count' \in 0 .. MaxSensors /\ count' = count - 1
    BY <1>4 DEF RemoveSensor
  <2>3. \A j \in Places : j > count' => entries'[j] = Empty
    BY <1>4, <2>2 DEF RemoveSensor, Compacted
  <2> QED
    BY <2>1, <2>2, <2>3
<1>5. CASE UNCHANGED tableVars
  BY <1>5 DEF tableVars
<1> QED
  BY <1>1, <1>2, <1>3, <1>4, <1>5 DEF TableNext, SerialCommand, ExternalCommand,
     FileCommand, EntryCommand

-----------------------------------------------------------------------------
(* The used part of an array of entries, place by place.                   *)
LEMMA UsedPart ==
    ASSUME NEW a \in [Places -> Entry], NEW c \in 0 .. MaxSensors
    PROVE  /\ SubSeq(a, 1, c) \in Seq(Entry)
           /\ Len(SubSeq(a, 1, c)) = c
           /\ \A i \in 1 .. c : SubSeq(a, 1, c)[i] = a[i]
<1>1. \A i \in 1 .. c : a[i] \in Entry
  BY TableAssumption DEF Places
<1>2. c \in Int /\ 1 \in Int /\ c >= 0
  BY TableAssumption
<1>3. /\ SubSeq(a, 1, c) \in Seq(Entry)
      /\ Len(SubSeq(a, 1, c)) = IF 1 <= c THEN c - 1 + 1 ELSE 0
      /\ \A i \in 1 .. c - 1 + 1 : SubSeq(a, 1, c)[i] = a[1 + i - 1]
  BY <1>1, <1>2, SubSeqProperties
<1> QED
  BY <1>2, <1>3

(* A sequence that agrees with an array, place by place, is its used part. *)
LEMMA IsUsedPart ==
    ASSUME NEW a \in [Places -> Entry], NEW c \in 0 .. MaxSensors,
           NEW s \in Seq(Entry), Len(s) = c, \A i \in 1 .. c : s[i] = a[i]
    PROVE  SubSeq(a, 1, c) = s
  BY UsedPart, SeqEqual

(* The list as the client sees it, made longer with empty places.          *)
LEMMA PaddedPlaces ==
    ASSUME TableInv, NEW i \in Places
    PROVE  LET n == IF i > count THEN i ELSE count
           IN  /\ Promise!Padded(i) \in Seq(Entry)
               /\ Len(Promise!Padded(i)) = n
               /\ \A j \in 1 .. n : Promise!Padded(i)[j] = entries[j]
<1> DEFINE list == SubSeq(entries, 1, count)
           pad == [j \in 1 .. i - Len(list) |-> Promise!Empty]
<1> USE TableAssumption DEF Places
<1>1. /\ list \in Seq(Entry) /\ Len(list) = count
      /\ \A j \in 1 .. count : list[j] = entries[j]
  BY UsedPart DEF TableInv
<1>2. count \in Nat /\ count <= MaxSensors /\ i \in Nat /\ i <= MaxSensors
  BY DEF TableInv
<1>3. Promise!Empty \in Entry /\ Promise!Empty = Empty
  BY EmptyEntry DEF Empty
<1>4. Promise!Padded(i) = list \o pad
  BY DEF Promise!Padded
<1> HIDE DEF list
<1>5. CASE i > count
  <2>1. pad \in [1 .. i - count -> Entry] /\ i - count \in Nat
    BY <1>1, <1>2, <1>3, <1>5
  <2>2. pad \in Seq(Entry) /\ Len(pad) = i - count
    <3>1. pad \in Seq(Entry)
      BY <2>1, SeqDef
    <3>2. DOMAIN pad = 1 .. i - count
      BY <2>1
    <3> HIDE DEF pad
    <3>3. Len(pad) \in Nat /\ DOMAIN pad = 1 .. Len(pad)
      BY <3>1, LenProperties
    <3> QED
      BY <2>1, <3>1, <3>2, <3>3
  <2>3. \A j \in 1 .. i - count : pad[j] = Empty
    BY <1>1, <1>3
  <2> HIDE DEF pad
  <2>4. /\ list \o pad \in Seq(Entry)
        /\ Len(list \o pad) = count + (i - count)
        /\ \A j \in 1 .. count + (i - count) :
              (list \o pad)[j] = IF j <= count THEN list[j] ELSE pad[j - count]
    BY <1>1, <2>2, ConcatProperties
  <2>5. \A j \in 1 .. i : (list \o pad)[j] = entries[j]
    <3> SUFFICES ASSUME NEW j \in 1 .. i
                 PROVE  (list \o pad)[j] = entries[j]
      OBVIOUS
    <3>1. CASE j <= count
      BY <1>1, <1>2, <1>5, <2>4, <3>1
    <3>2. CASE j > count
      <4>1. (list \o pad)[j] = pad[j - count] /\ j - count \in 1 .. i - count
        BY <1>2, <1>5, <2>4, <3>2
      <4>2. entries[j] = Empty
        BY <1>2, <3>2 DEF TableInv
      <4> QED
        BY <2>3, <4>1, <4>2
    <3>3. j <= count \/ j > count
      BY <1>2
    <3> QED
      BY <3>1, <3>2, <3>3
  <2> QED
    BY <1>2, <1>4, <1>5, <2>4, <2>5
<1>6. CASE i <= count
  <2>1. pad = << >>
    <3>1. 1 .. i - count = {}
      BY <1>2, <1>6
    <3> QED
      BY <1>1, <3>1
  <2> HIDE DEF pad
  <2>2. list \o pad = list
    BY <1>1, <2>1, ConcatEmptySeq
  <2>3. Promise!Padded(i) = list /\ ~(i > count)
    BY <1>2, <1>4, <1>6, <2>2
  <2> QED
    BY <1>1, <2>3
<1> QED
  BY <1>2, <1>5, <1>6

-----------------------------------------------------------------------------
(* Each command on the array is the command on the list.                   *)
LEMMA SetIsSet ==
    ASSUME TableInv, TableInv', NEW i \in Places, NEW name \in Names \cup {NoName},
           SetCore(i, name)
    PROVE  Promise!Set(i, name)
<1> DEFINE wide == Promise!Padded(i)
           set == IF name = NoName THEN wide ELSE [wide EXCEPT ![i].name = name]
<1>1. count' = (IF i > count THEN i ELSE count) /\ i \in 1 .. count'
  BY TableAssumption DEF SetCore, TableInv, Places
<1>2. /\ wide \in Seq(Entry) /\ Len(wide) = count'
      /\ \A j \in 1 .. count' : wide[j] = entries[j]
  BY <1>1, PaddedPlaces
<1> HIDE DEF wide
<1>3. /\ set \in Seq(Entry) /\ Len(set) = count'
      /\ \A j \in 1 .. count' : set[j] = entries'[j]
  <2>1. CASE name = NoName
    BY <1>2, <2>1 DEF SetCore
  <2>2. CASE name # NoName
    <3>1. [wide[i] EXCEPT !.name = name] \in Entry
      BY <1>1, <1>2 DEF Entry, TableInv, Places
    <3>2. set = [wide EXCEPT ![i] = [wide[i] EXCEPT !.name = name]]
      BY <2>2
    <3>3. /\ set \in Seq(Entry) /\ Len(set) = Len(wide)
          /\ \A j \in 1 .. Len(wide) :
                set[j] = IF j = i THEN [wide[i] EXCEPT !.name = name] ELSE wide[j]
      BY <1>1, <1>2, <3>1, <3>2, ExceptSeq
    <3>4. \A j \in 1 .. count' : j \in Places
      BY TableAssumption DEF TableInv, Places
    <3>5. \A j \in Places :
              entries'[j] = IF j = i THEN [entries[i] EXCEPT !.name = name] ELSE entries[j]
      BY <2>2 DEF SetCore, TableInv
    <3> QED
      BY <1>1, <1>2, <3>3, <3>4, <3>5
  <2> QED
    BY <2>1, <2>2
<1> HIDE DEF set
<1>4. SubSeq(entries', 1, count') = set
  BY <1>3, IsUsedPart DEF TableInv
<1> QED
  BY <1>4 DEF Promise!Set, set, wide

(* A change of one place within the list is that change of the list.       *)
LEMMA ChangeOfPlace ==
    ASSUME TableInv, TableInv', NEW i \in Places, NEW e \in Entry, i <= count,
           entries' = [entries EXCEPT ![i] = e], UNCHANGED count
    PROVE  /\ SubSeq(entries', 1, count') = [SubSeq(entries, 1, count) EXCEPT ![i] = e]
           /\ i <= Len(SubSeq(entries, 1, count))
           /\ SubSeq(entries, 1, count)[i] = entries[i]
<1> DEFINE list == SubSeq(entries, 1, count)
<1>1. /\ list \in Seq(Entry) /\ Len(list) = count
      /\ \A j \in 1 .. count : list[j] = entries[j]
  BY UsedPart DEF TableInv
<1> HIDE DEF list
<1>2. i \in 1 .. count /\ \A j \in 1 .. count : j \in Places
  BY TableAssumption DEF TableInv, Places
<1>3. /\ [list EXCEPT ![i] = e] \in Seq(Entry)
      /\ Len([list EXCEPT ![i] = e]) = count
      /\ \A j \in 1 .. count : [list EXCEPT ![i] = e][j] = IF j = i THEN e ELSE list[j]
  BY <1>1, <1>2, ExceptSeq
<1>4. \A j \in 1 .. count : [list EXCEPT ![i] = e][j] = entries'[j]
  BY <1>1, <1>2, <1>3 DEF TableInv
<1>5. SubSeq(entries', 1, count') = [list EXCEPT ![i] = e]
  BY <1>3, <1>4, IsUsedPart DEF TableInv
<1> QED
  BY <1>1, <1>2, <1>5 DEF list

(* Moving the later entries up takes one out of the list.                  *)
LEMMA RemoveIsTakeOut ==
    ASSUME TableInv, TableInv', NEW i \in Places, RemoveSensor(i)
    PROVE  Promise!TakeOut(i)
<1> DEFINE list == SubSeq(entries, 1, count)
           before == SubSeq(list, 1, i - 1)
           behind == SubSeq(list, i + 1, Len(list))
<1>1. /\ list \in Seq(Entry) /\ Len(list) = count
      /\ \A j \in 1 .. count : list[j] = entries[j] /\ list[j] \in Entry
  BY UsedPart, TableAssumption DEF TableInv, Places
<1> HIDE DEF list
<1>2. /\ i \in 1 .. count /\ count \in Nat /\ count' = count - 1 /\ i \in Nat
      /\ \A j \in 1 .. count - 1 :
            entries'[j] = IF j < i THEN entries[j] ELSE entries[j + 1]
  <2>1. /\ i \in 1 .. count /\ count \in Nat /\ count' = count - 1 /\ i \in Nat
        /\ count <= MaxSensors
    BY TableAssumption DEF RemoveSensor, TableInv, Places
  <2>2. ASSUME NEW j \in 1 .. count - 1
        PROVE  entries'[j] = IF j < i THEN entries[j] ELSE entries[j + 1]
    <3>1. j \in Places /\ j # count /\ (j \in i .. count - 1 <=> ~(j < i))
      BY <2>1, TableAssumption DEF Places
    <3> QED
      BY <3>1 DEF RemoveSensor, Compacted
  <2> QED
    BY <2>1, <2>2
<1>3. /\ before \in Seq(Entry) /\ Len(before) = i - 1
      /\ \A j \in 1 .. i - 1 : before[j] = list[j]
  <2>1. \A j \in 1 .. i - 1 : list[j] \in Entry
    BY <1>1, <1>2
  <2>2. /\ before \in Seq(Entry)
        /\ Len(before) = IF 1 <= i - 1 THEN (i - 1) - 1 + 1 ELSE 0
        /\ \A j \in 1 .. (i - 1) - 1 + 1 : before[j] = list[1 + j - 1]
    BY <1>2, <2>1, SubSeqProperties
  <2> HIDE DEF before
  <2> QED
    BY <1>2, <2>2
<1>4. /\ behind \in Seq(Entry) /\ Len(behind) = count - i
      /\ \A j \in 1 .. count - i : behind[j] = list[i + j]
  <2>1. \A j \in i + 1 .. count : list[j] \in Entry
    BY <1>1, <1>2
  <2>2. /\ behind \in Seq(Entry)
        /\ Len(behind) = IF i + 1 <= count THEN count - (i + 1) + 1 ELSE 0
        /\ \A j \in 1 .. count - (i + 1) + 1 : behind[j] = list[(i + 1) + j - 1]
    BY <1>1, <1>2, <2>1, SubSeqProperties
  <2> HIDE DEF behind
  <2> QED
    BY <1>2, <2>2
<1>5. Promise!RemoveAt(list, i) = before \o behind
  BY DEF Promise!RemoveAt
<1> HIDE DEF before, behind
<1>6. /\ before \o behind \in Seq(Entry)
      /\ Len(before \o behind) = (i - 1) + (count - i)
      /\ \A j \in 1 .. (i - 1) + (count - i) :
            (before \o behind)[j] = IF j <= i - 1 THEN before[j] ELSE behind[j - (i - 1)]
  <2>1. before \in Seq(Entry) /\ behind \in Seq(Entry)
    BY <1>3, <1>4
  <2>2. /\ before \o behind \in Seq(Entry)
        /\ Len(before \o behind) = Len(before) + Len(behind)
        /\ \A j \in 1 .. Len(before) + Len(behind) :
              (before \o behind)[j] = IF j <= Len(before) THEN before[j]
                                      ELSE behind[j - Len(before)]
    BY <2>1, ConcatProperties
  <2>3. Len(before) = i - 1 /\ Len(behind) = count - i
    BY <1>3, <1>4
  <2> QED
    BY <2>2, <2>3
<1>7. Len(before \o behind) = count'
  BY <1>2, <1>6
<1>8. ASSUME NEW j \in 1 .. count'
      PROVE  (before \o behind)[j] = entries'[j]
  <2>1. j \in 1 .. (i - 1) + (count - i) /\ j \in 1 .. count - 1
    BY <1>2
  <2>2. CASE j < i
    <3>1. (before \o behind)[j] = before[j] /\ j \in 1 .. i - 1 /\ j \in 1 .. count
      BY <1>2, <1>6, <2>1, <2>2
    <3> QED
      BY <1>1, <1>2, <1>3, <2>1, <2>2, <3>1
  <2>3. CASE ~(j < i)
    <3>1. /\ (before \o behind)[j] = behind[j - (i - 1)]
          /\ j - (i - 1) \in 1 .. count - i /\ i + (j - (i - 1)) = j + 1
          /\ j + 1 \in 1 .. count
      BY <1>2, <1>6, <2>1, <2>3
    <3>2. behind[j - (i - 1)] = list[j + 1]
      BY <1>4, <3>1
    <3> QED
      BY <1>1, <1>2, <2>1, <2>3, <3>1, <3>2
  <2> QED
    BY <2>2, <2>3
<1>9. SubSeq(entries', 1, count') = before \o behind
  BY <1>6, <1>7, <1>8, IsUsedPart DEF TableInv
<1>10. i <= Len(list)
  BY <1>1, <1>2
<1> QED
  BY <1>5, <1>9, <1>10 DEF Promise!TakeOut, list

-----------------------------------------------------------------------------
(* Whatever command is given at an index, the list sees what was promised. *)
LEMMA EntryCommandIsPromised ==
    ASSUME TableInv, TableInv', NEW i \in Places, EntryCommand(i)
    PROVE  Promise!Next
<1>1. ASSUME NEW name \in Names \cup {NoName}, SetCore(i, name)
      PROVE  Promise!Next
  BY <1>1, SetIsSet DEF Promise!Next, Promise!Cores, Places
<1>2. ASSUME NEW name \in Names \cup {NoName}, RenameSensor(i, name)
      PROVE  Promise!Next
  <2> DEFINE e == [entries[i] EXCEPT !.name = name]
  <2>1. e \in Entry /\ entries' = [entries EXCEPT ![i] = e]
    BY <1>2 DEF RenameSensor, TableInv, Entry
  <2>2. i <= count /\ UNCHANGED count
    BY <1>2 DEF RenameSensor
  <2>3. Promise!Rename(i, name)
    BY <2>1, <2>2, ChangeOfPlace DEF Promise!Rename
  <2> QED
    BY <1>2, <2>3 DEF Promise!Next, Places, RenameSensor
<1>3. ASSUME NEW channel \in Promise!Channels, SetMqtt(i, channel)
      PROVE  Promise!Next
  <2> DEFINE e == [entries[i] EXCEPT !.channel = channel]
  <2>1. e \in Entry /\ entries' = [entries EXCEPT ![i] = e]
    BY <1>3 DEF SetMqtt, TableInv, Entry, Promise!Channels
  <2>2. i <= count /\ UNCHANGED count
    BY <1>3 DEF SetMqtt
  <2>3. Promise!SetChannel(i, channel)
    BY <2>1, <2>2, ChangeOfPlace DEF Promise!SetChannel
  <2> QED
    BY <2>3 DEF Promise!Next, Places
<1>4. CASE RemoveSensor(i)
  BY <1>4, RemoveIsTakeOut DEF Promise!Next, Places
<1> QED
  BY <1>1, <1>2, <1>3, <1>4 DEF EntryCommand

(* Whatever is set, renamed and removed, through whichever front end, the  *)
(* table is the list a client thinks it is.                                *)
THEOREM TableIsAList == TableSpec => ImplementsList
<1>1. TableInit => Promise!Init
  <2> SUFFICES ASSUME TableInit
               PROVE  SubSeq(entries, 1, count) = << >>
    BY DEF Promise!Init
  <2>1. count = 0
    BY DEF TableInit
  <2> QED
    BY <2>1, SubSeqEmpty
<1>2. TableInv /\ [TableNext]_tableVars => [Promise!Next]_(SubSeq(entries, 1, count))
  <2> SUFFICES ASSUME TableInv, [TableNext]_tableVars
               PROVE  Promise!Next \/ UNCHANGED SubSeq(entries, 1, count)
    OBVIOUS
  <2>1. TableInv'
    BY TableInvStep
  <2>2. CASE UNCHANGED tableVars
    BY <2>2 DEF tableVars
  <2> QED
    BY <2>1, <2>2, EntryCommandIsPromised DEF TableNext, SerialCommand, ExternalCommand,
       FileCommand
<1> QED
  BY <1>1, <1>2, TableInvInit, TableInvStep, PTL
     DEF TableSpec, ImplementsList, Promise!Spec

-----------------------------------------------------------------------------
(* The files of the SD card: the records go to the log.                    *)

FileName == Date \cup {ConfigFile, Invalid}
FileRec  == [handle : Handle \cup {Invalid}, open : BOOLEAN, name : FileName]
Table    == [Slot -> FileRec]

OneSlotEach(fs) ==
    \A i, j \in Slot :
        (fs[i].handle = fs[j].handle /\ fs[i].handle \in Handle) => i = j

OnlyOpen(fs, h) == \A i \in Slot : fs[i].open => fs[i].handle = h
NoneOpen(fs)    == \A i \in Slot : ~fs[i].open

SlotsOK(fs) == fs \in Table /\ OneSlotEach(fs)

(* Slots are numbered from one.                                            *)
LEMMA SlotNumbers == /\ 1 \in Slot
                     /\ \A i \in Slot : i \in Nat /\ 1 <= i /\ i <= i
<1>1. Cardinality(Slot) \in Nat /\ Slot = 1 .. Cardinality(Slot) /\ Slot # {}
  BY DriverAssumption, FS_CardinalityType
<1> DEFINE n == Cardinality(Slot)
<1>2. n \in Nat /\ Slot = 1 .. n /\ Slot # {}
  BY <1>1
<1> HIDE DEF n
<1> QED
  BY <1>2

(* A handle that is in the table is found, at the slot that has it.        *)
LEMMA SlotOfHandle ==
    ASSUME NEW fs, SlotsOK(fs), NEW h \in Handle, HasHandle(fs, h)
    PROVE  SlotOf(fs, h) \in Slot /\ fs[SlotOf(fs, h)].handle = h
<1>1. PICK i \in Slot : fs[i].handle = h
  BY DEF HasHandle
<1>2. \A j \in Slot : fs[j].handle = h => j = i
  BY <1>1 DEF SlotsOK, OneSlotEach
<1>3. i <= i
  BY SlotNumbers
<1>4. \A j \in Slot : fs[j].handle = h => i <= j
  BY <1>2, <1>3
<1> QED
  BY <1>1, <1>4 DEF SlotOf

(* While no file is open there is a slot to open one in.                   *)
LEMMA FirstOfClosed ==
    ASSUME NEW fs, NoneOpen(fs)
    PROVE  FirstClosed(fs) \in Slot
<1>1. 1 \in Slot /\ \A j \in Slot : 1 <= j
  BY SlotNumbers
<1>2. ~fs[1].open /\ \A j \in Slot : ~fs[j].open => 1 <= j
  BY <1>1 DEF NoneOpen
<1> QED
  BY <1>1, <1>2 DEF FirstClosed

(* Closing the only file that may be open leaves none.                     *)
LEMMA ClosedFileClosed ==
    ASSUME NEW fs, SlotsOK(fs), NEW h \in Handle, OnlyOpen(fs, h)
    PROVE  SlotsOK(ClosedFile(fs, h)) /\ NoneOpen(ClosedFile(fs, h))
<1>1. Invalid \notin Handle
  BY DriverAssumption DEF Handle
<1>2. CASE ~IsOpen(fs, h)
  BY <1>2 DEF IsOpen, ClosedFile, OnlyOpen, NoneOpen
<1>3. CASE IsOpen(fs, h)
  <2> DEFINE k == SlotOf(fs, h)
  <2>1. k \in Slot /\ fs[k].handle = h
    BY <1>3, SlotOfHandle DEF IsOpen, HasHandle
  <2>2. \A j \in Slot : fs[j].handle = h => j = k
    BY <2>1 DEF SlotsOK, OneSlotEach
  <2>3. ClosedFile(fs, h) = [fs EXCEPT ![k] = Closed]
    BY <1>3 DEF ClosedFile
  <2> HIDE DEF k
  <2>4. Closed \in FileRec
    BY DEF Closed, FileRec, FileName
  <2>5. ClosedFile(fs, h) \in Table
    BY <2>1, <2>3, <2>4 DEF SlotsOK, Table
  <2>6. \A j \in Slot : ClosedFile(fs, h)[j] = IF j = k THEN Closed ELSE fs[j]
    BY <2>1, <2>3 DEF SlotsOK, Table
  <2>7. NoneOpen(ClosedFile(fs, h))
    BY <2>2, <2>6 DEF NoneOpen, OnlyOpen, Closed
  <2>8. OneSlotEach(ClosedFile(fs, h))
    BY <1>1, <2>6 DEF OneSlotEach, SlotsOK, Closed
  <2> QED
    BY <2>5, <2>7, <2>8 DEF SlotsOK
<1> QED
  BY <1>2, <1>3

(* Opening closes the file the handle had and uses one slot; after it that *)
(* slot alone may be open, with the name it was opened by.                 *)
LEMMA OpenedFileOpens ==
    ASSUME NEW fs, SlotsOK(fs), NEW h \in Handle, OnlyOpen(fs, h),
           NEW name \in FileName, NEW opens \in BOOLEAN
    PROVE  LET free == ClosedFile(fs, h)
               i    == SlotFor(free, h)
               fs2  == OpenedFile(fs, h, name, opens)
           IN  /\ i \in Slot
               /\ SlotsOK(fs2)
               /\ fs2[i].handle = h /\ fs2[i].open = opens
               /\ opens => fs2[i].name = name
               /\ \A j \in Slot : fs2[j].open => j = i
<1> DEFINE free == ClosedFile(fs, h)
           i    == SlotFor(free, h)
           rec  == [handle |-> h, open |-> opens,
                    name |-> IF opens THEN name ELSE free[i].name]
           fs2  == OpenedFile(fs, h, name, opens)
<1>1. SlotsOK(free) /\ NoneOpen(free)
  BY ClosedFileClosed
<1> HIDE DEF free
<1>2. i \in Slot
  BY <1>1, SlotOfHandle, FirstOfClosed DEF SlotFor
<1>3. HasHandle(free, h) => free[i].handle = h
  BY <1>1, SlotOfHandle DEF SlotFor
<1>4. \A j \in Slot : free[j].handle = h => j = i
  BY <1>1, <1>2, <1>3 DEF SlotsOK, OneSlotEach, HasHandle
<1>5. fs2 = [free EXCEPT ![i] = rec]
  BY DEF OpenedFile, free
<1> HIDE DEF i, fs2
<1>6. rec \in FileRec
  BY <1>1, <1>2 DEF FileRec, SlotsOK, Table
<1>7. rec.handle = h /\ rec.open = opens /\ (opens => rec.name = name)
  OBVIOUS
<1> HIDE DEF rec
<1>8. fs2 \in Table /\ \A j \in Slot : fs2[j] = IF j = i THEN rec ELSE free[j]
  BY <1>1, <1>2, <1>5, <1>6 DEF SlotsOK, Table
<1>9. OneSlotEach(fs2)
  BY <1>1, <1>4, <1>7, <1>8 DEF OneSlotEach, SlotsOK
<1>10. \A j \in Slot : fs2[j].open => j = i
  BY <1>1, <1>8 DEF NoneOpen
<1> QED
  BY <1>2, <1>7, <1>8, <1>9, <1>10 DEF SlotsOK, i, fs2, free

(* Closing all files leaves none open and no handle twice.                 *)
LEMMA AllClosedClosed ==
    ASSUME NEW fs, SlotsOK(fs)
    PROVE  SlotsOK(AllClosed(fs)) /\ NoneOpen(AllClosed(fs))
<1>1. Invalid \notin Handle /\ Closed \in FileRec /\ Closed.handle = Invalid /\ ~Closed.open
  BY DriverAssumption DEF Handle, Closed, FileRec, FileName
<1>2. \A i \in Slot : AllClosed(fs)[i] = IF fs[i].open THEN Closed ELSE fs[i]
  BY DEF AllClosed
<1>3. AllClosed(fs) \in Table
  BY <1>1 DEF AllClosed, SlotsOK, Table
<1>4. OneSlotEach(AllClosed(fs))
  BY <1>1, <1>2 DEF SlotsOK, OneSlotEach
<1>5. NoneOpen(AllClosed(fs))
  BY <1>1, <1>2 DEF NoneOpen
<1> QED
  BY <1>3, <1>4, <1>5 DEF SlotsOK

-----------------------------------------------------------------------------
(* The driver never leaves a file open but the one the logger opened.      *)
FilesOK == SlotsOK(files) /\ OnlyOpen(files, "Logger")

(* The loader of the configuration file closes what it finds and leaves    *)
(* nothing open.                                                           *)
LEMMA LoaderLeavesNoneOpen ==
    ASSUME FilesOK, NEW error, NEW found, NEW opens \in BOOLEAN, NEW w,
           UseConfigFile(error, found, opens, w)
    PROVE  SlotsOK(files') /\ NoneOpen(files')
<1>1. SlotsOK(AllClosed(files)) /\ NoneOpen(AllClosed(files))
  BY AllClosedClosed DEF FilesOK
<1>2. CASE files' = AllClosed(files)
  BY <1>1, <1>2
<1>3. CASE files' = LoaderFiles(opens)
  <2> DEFINE all  == AllClosed(files)
             h    == "ConfigLoader"
             fs   == OpenedFile(all, h, ConfigFile, opens)
  <2>1. OnlyOpen(all, h) /\ h \in Handle /\ ConfigFile \in FileName
    BY <1>1 DEF OnlyOpen, NoneOpen, Handle, FileName
  <2> HIDE DEF all, h
  <2>2. SlotsOK(fs) /\ OnlyOpen(fs, h) /\ (~opens => NoneOpen(fs))
    BY <1>1, <2>1, OpenedFileOpens DEF OnlyOpen, NoneOpen, all
  <2> HIDE DEF fs
  <2>3. SlotsOK(ClosedFile(fs, h)) /\ NoneOpen(ClosedFile(fs, h))
    BY <2>1, <2>2, ClosedFileClosed
  <2>4. files' = IF opens THEN ClosedFile(fs, h) ELSE fs
    BY <1>3 DEF LoaderFiles, all, h, fs
  <2> QED
    BY <2>2, <2>3, <2>4
<1> QED
  BY <1>2, <1>3 DEF UseConfigFile

(* The driver leaves the files as they are, or closes them all.            *)
LEMMA DriverClosesOrKeeps ==
    ASSUME FilesOK, DriverUpdate \/ ConfigCommand
    PROVE  files' = files \/ (SlotsOK(files') /\ NoneOpen(files'))
<1>1. SlotsOK(AllClosed(files)) /\ NoneOpen(AllClosed(files))
  BY AllClosedClosed DEF FilesOK
<1>2. CASE Begin \/ SameCard \/ NotDue
  BY <1>2 DEF Begin, SameCard, NotDue, driverVars
<1>3. CASE Retry \/ Lost
  BY <1>1, <1>3 DEF Retry, Lost
<1>4. CASE Settled \/ OtherCard
  BY <1>4, LoaderLeavesNoneOpen DEF Settled, OtherCard, LoadOnReady
<1>5. CASE ConfigCommand
  BY <1>5, LoaderLeavesNoneOpen DEF ConfigCommand
<1> QED
  BY <1>2, <1>3, <1>4, <1>5 DEF DriverUpdate

-----------------------------------------------------------------------------
(* The pointer of the logger may be stale, but a file that is open where   *)
(* it points is the log of the day that the logger knows.  Between the     *)
(* driver's step and the writing nothing counts as written.                *)
PointsToLog ==
    HasLog => /\ files[currentFile].handle = "Logger"
              /\ files[currentFile].name.day = currentDay

LogInv ==
    /\ FilesOK
    /\ today \in Date
    /\ currentFile \in Slot \cup {0}
    /\ PointsToLog
    /\ phase # "driver" => taken = 0

(* At boot no slot is in use and the logger points to none.                *)
LEMMA LogInvInit == LoggerInit => LogInv
<1> SUFFICES ASSUME LoggerInit
             PROVE  LogInv
  OBVIOUS
<1>1. Invalid \notin Handle /\ Closed \in FileRec /\ Closed.handle = Invalid /\ ~Closed.open
  BY DriverAssumption DEF Handle, Closed, FileRec, FileName
<1>2. files \in Table /\ \A i \in Slot : files[i] = Closed
  BY <1>1 DEF LoggerInit, DriverInit, Table
<1>3. FilesOK
  BY <1>1, <1>2 DEF FilesOK, SlotsOK, OneSlotEach, OnlyOpen
<1> QED
  BY <1>3 DEF LoggerInit, LogInv, PointsToLog, HasLog

(* Opening today's file, when the logger has dropped or closed its own.    *)
LEMMA OpenedLog ==
    ASSUME NEW fs, SlotsOK(fs), OnlyOpen(fs, "Logger"), today \in Date,
           NEW opens \in BOOLEAN, OpenOrCreate(fs, opens)
    PROVE  /\ FilesOK'
           /\ currentFile' \in Slot \cup {0}
           /\ PointsToLog'
           /\ opens => HasLog'
<1> DEFINE h == "Logger"
           i == SlotFor(ClosedFile(fs, h), h)
<1>1. h \in Handle /\ today \in FileName
  BY DEF Handle, FileName
<1>2. files' = OpenedFile(fs, h, today, opens)
  BY DEF OpenOrCreate
<1>3. /\ currentFile' = IF opens THEN i ELSE 0
      /\ fileOpen' = opens /\ currentDay' = today.day
  BY DEF OpenOrCreate
<1>4. /\ i \in Slot /\ SlotsOK(files')
      /\ files'[i].handle = h /\ files'[i].open = opens
      /\ opens => files'[i].name = today
      /\ \A j \in Slot : files'[j].open => j = i
  BY <1>1, <1>2, OpenedFileOpens
<1>5. i # 0
  BY <1>4, SlotNumbers
<1> HIDE DEF i
<1> QED
  BY <1>3, <1>4, <1>5 DEF FilesOK, OnlyOpen, PointsToLog, HasLog

(* A log that is closed is not pointed to.                                 *)
LEMMA LogDropped ==
    ASSUME LogInv
    PROVE  SlotsOK(FilesWithoutLog) /\ OnlyOpen(FilesWithoutLog, "Logger")
<1>1. "Logger" \in Handle
  BY DEF Handle
<1>2. SlotsOK(ClosedFile(files, "Logger")) /\ NoneOpen(ClosedFile(files, "Logger"))
  BY <1>1, ClosedFileClosed DEF LogInv, FilesOK
<1> QED
  BY <1>2 DEF FilesWithoutLog, NoneOpen, OnlyOpen, LogInv, FilesOK

(* The look at the card closes the log, opens it again or leaves it.       *)
LEMMA StatusKeepsLog ==
    ASSUME LogInv, Status
    PROVE  LogInv'
<1>1. today' = today /\ taken' = taken /\ phase = "status"
  BY DEF Status
<1>2. CASE UNCHANGED <<files, fileVars>>
  BY <1>1, <1>2 DEF LogInv, FilesOK, PointsToLog, HasLog, fileVars
<1>3. CASE files' = FilesWithoutLog /\ fileOpen' = FALSE
           /\ currentFile' = IF fileOpen THEN 0 ELSE currentFile
  BY <1>1, <1>3, LogDropped DEF LogInv, FilesOK, PointsToLog, HasLog
<1> QED
  BY <1>2, <1>3 DEF Status, checkSdCardStatus

(* A new date closes the log of the day before and opens the one of today. *)
LEMMA DateCheckKeepsLog ==
    ASSUME LogInv, DateCheck
    PROVE  LogInv'
<1>1. today' = today /\ taken' = taken /\ phase = "date"
  BY DEF DateCheck
<1>2. CASE UNCHANGED <<files, fileVars>>
  BY <1>1, <1>2 DEF LogInv, FilesOK, PointsToLog, HasLog, fileVars
<1>3. ASSUME NEW opens \in Answers, OpenOrCreate(FilesWithoutLog, opens)
      PROVE  LogInv'
  <2>1. opens \in BOOLEAN
    BY DEF Answers
  <2> QED
    BY <1>1, <1>3, <2>1, LogDropped, OpenedLog DEF LogInv
<1> QED
  BY <1>2, <1>3 DEF DateCheck, checkForDateChange

(* Writing: what leaves the ring goes to the open log.                     *)
LEMMA WriteGoesToLog ==
    ASSUME LogInv, Write
    PROVE  LogInv' /\ (taken' > 0 => HasLog')
<1>1. today' = today /\ phase' = "driver"
  BY DEF Write
<1>2. CASE UNCHANGED <<files, fileVars>> /\ taken' = 0
  BY <1>1, <1>2 DEF LogInv, FilesOK, PointsToLog, HasLog, fileVars
<1>3. CASE UNCHANGED <<files, fileVars>> /\ HasLog
  BY <1>1, <1>3 DEF LogInv, FilesOK, PointsToLog, HasLog, fileVars
<1>4. ASSUME NEW opens \in Answers, OpenOrCreate(files, opens), ~opens => taken' = 0
      PROVE  LogInv' /\ (taken' > 0 => HasLog')
  <2>1. opens \in BOOLEAN
    BY DEF Answers
  <2> QED
    BY <1>1, <1>4, <2>1, OpenedLog DEF LogInv, FilesOK
<1>5. ASSUME NEW ring, WriteToOpen(ring) \/ OpenAndWrite(ring)
      PROVE  LogInv' /\ (taken' > 0 => HasLog')
  <2>1. CASE WriteToOpen(ring)
    BY <1>3, <2>1 DEF WriteToOpen
  <2>2. CASE OpenAndWrite(ring)
    BY <1>4, <2>2 DEF OpenAndWrite, SetRing
  <2> QED
    BY <1>5, <2>1, <2>2
<1> QED
  BY <1>2, <1>5 DEF Write

(* Every step of the loop, of a command and of the world keeps the         *)
(* pointer to the log true where it counts.                                *)
LEMMA LogInvStep == LogInv /\ [LoggerNext]_sdCardVars => LogInv'
<1> SUFFICES ASSUME LogInv, [LoggerNext]_sdCardVars
             PROVE  LogInv'
  OBVIOUS
<1>1. ASSUME UNCHANGED <<files, fileVars, phase, taken>>, today' \in Date
      PROVE  LogInv'
  BY <1>1 DEF LogInv, FilesOK, PointsToLog, HasLog, fileVars
<1>2. ASSUME DriverUpdate \/ ConfigCommand, UNCHANGED <<fileVars, today>>,
             phase' # "driver" => taken' = 0
      PROVE  LogInv'
  <2>1. CASE files' = files
    BY <1>2, <2>1 DEF LogInv, FilesOK, PointsToLog, HasLog, fileVars
  <2>2. CASE SlotsOK(files') /\ NoneOpen(files')
    BY <1>2, <2>2 DEF LogInv, FilesOK, OnlyOpen, NoneOpen, PointsToLog, HasLog, fileVars
  <2> QED
    BY <1>2, <2>1, <2>2, DriverClosesOrKeeps DEF LogInv
<1>3. CASE Driver
  BY <1>2, <1>3 DEF Driver
<1>4. CASE CardCommand
  BY <1>2, <1>4 DEF CardCommand, loggerVars
<1>5. CASE Status
  BY <1>5, StatusKeepsLog
<1>6. CASE DateCheck
  BY <1>6, DateCheckKeepsLog
<1>7. CASE Write
  BY <1>7, WriteGoesToLog
<1>8. CASE Tick
  BY <1>1, <1>8 DEF Tick, DriverAges, LogInv
<1>9. CASE SetClock
  BY <1>1, <1>9 DEF SetClock, driverVars
<1>10. CASE HolderChanges
  BY <1>1, <1>10 DEF HolderChanges, Holder, driverVars, loggerVars, LogInv
<1>11. CASE UNCHANGED sdCardVars
  BY <1>1, <1>11 DEF sdCardVars, driverVars, loggerVars, LogInv
<1> QED
  BY <1>3, <1>4, <1>5, <1>6, <1>7, <1>8, <1>9, <1>10, <1>11 DEF LoggerNext, Loop

(* Whatever happens to the card, and whatever else was opened on it, the   *)
(* records go to the open log of the day that the logger knows.            *)
THEOREM RecordsGoToTheLog == LoggerSpec => LogGoesToTheLog
<1> DEFINE Logged ==
        phase = "write" /\ taken' > 0
          => /\ files'[currentFile'].open
             /\ files'[currentFile'].handle = "Logger"
             /\ files'[currentFile'].name.day = currentDay'
<1>1. LogInv /\ [LoggerNext]_sdCardVars => [Logged]_sdCardVars
  <2> SUFFICES ASSUME LogInv, LoggerNext, phase = "write", taken' > 0
               PROVE  /\ files'[currentFile'].open
                      /\ files'[currentFile'].handle = "Logger"
                      /\ files'[currentFile'].name.day = currentDay'
    OBVIOUS
  <2>1. CASE Write
    <3>1. LogInv' /\ HasLog'
      BY <2>1, WriteGoesToLog
    <3> QED
      BY <3>1 DEF LogInv, PointsToLog, HasLog
  <2>2. CASE HolderChanges
    <3>1. taken' = 0
      BY <2>2 DEF HolderChanges, loggerVars, LogInv
    <3> QED
      BY <3>1
  <2> QED
    BY <2>1, <2>2 DEF LoggerNext, Loop, Driver, Status, DateCheck, CardCommand, Tick, SetClock
<1> QED
  BY <1>1, LogInvInit, LogInvStep, PTL DEF LoggerSpec, LogGoesToTheLog
-----------------------------------------------------------------------------
(* The ring buffer.                                                        *)

(* One turn around the ring at most: the modulus subtracts its size once.  *)
LEMMA Wrap ==
    ASSUME NEW x \in Nat, x < 2 * BufferSize
    PROVE  x % BufferSize = IF x < BufferSize THEN x ELSE x - BufferSize
<1>1. BufferSize \in Nat /\ BufferSize > 0
  BY LoggerAssumption
<1>2. CASE x < BufferSize
  BY <1>1, <1>2
<1>3. CASE ~(x < BufferSize)
  BY <1>1, <1>3
<1> QED
  BY <1>2, <1>3

(* The same for a sum.                                                     *)
LEMMA WrapSum ==
    ASSUME NEW x \in Nat, NEW y \in Nat, x + y < 2 * BufferSize
    PROVE  (x + y) % BufferSize = IF x + y < BufferSize THEN x + y ELSE x + y - BufferSize
<1>1. BufferSize \in Nat /\ BufferSize > 0
  BY LoggerAssumption
<1>2. PICK z \in Nat : z = x + y
  OBVIOUS
<1>3. z < 2 * BufferSize
  BY <1>2
<1>4. z % BufferSize = IF z < BufferSize THEN z ELSE z - BufferSize
  BY <1>3, Wrap
<1> QED
  BY <1>1, <1>2, <1>4

RingPlaces  == 0 .. BufferSize - 1
Content == Snapshot \cup {CHOOSE s \in Snapshot : TRUE}

\* The place of the i-th record behind the tail, and all records in order.
At(tail, i) == IF tail + i - 1 < BufferSize THEN tail + i - 1 ELSE tail + i - 1 - BufferSize
Held(b, tail, held) == [i \in 1 .. held |-> b[(tail + i - 1) % BufferSize]]

RingOK(b, head, tail, held) ==
    /\ b \in [RingPlaces -> Content]
    /\ tail \in RingPlaces
    /\ held \in 0 .. BufferSize
    /\ head = (tail + held) % BufferSize

RingInv == RingOK(buffer, bufferHead, bufferTail, bufferCount)

(* The i-th record behind the tail is in the ring, at that place.          *)
LEMMA AtPlace ==
    ASSUME NEW tail \in RingPlaces, NEW i \in 1 .. BufferSize + 1
    PROVE  /\ At(tail, i) \in RingPlaces
           /\ (tail + i - 1) % BufferSize = At(tail, i)
<1>1. BufferSize \in Nat /\ BufferSize > 0
  BY LoggerAssumption
<1>2. tail + i - 1 \in Nat /\ tail + i - 1 < 2 * BufferSize
  BY <1>1 DEF RingPlaces
<1> QED
  BY <1>1, <1>2, Wrap DEF At, RingPlaces

(* The records that are held are a sequence, as long as the count says.    *)
LEMMA HeldRecords ==
    ASSUME NEW b \in [RingPlaces -> Content], NEW tail \in RingPlaces,
           NEW held \in 0 .. BufferSize
    PROVE  /\ Held(b, tail, held) \in Seq(Content)
           /\ Len(Held(b, tail, held)) = held
           /\ \A i \in 1 .. held : Held(b, tail, held)[i] = b[At(tail, i)]
<1>1. BufferSize \in Nat /\ held \in Nat /\ held <= BufferSize
  BY LoggerAssumption
<1>2. \A i \in 1 .. held : /\ (tail + i - 1) % BufferSize = At(tail, i)
                            /\ At(tail, i) \in RingPlaces
  BY <1>1, AtPlace
<1>3. \A i \in 1 .. held : b[(tail + i - 1) % BufferSize] \in Content
  BY <1>2
<1> DEFINE q == Held(b, tail, held)
<1>4. q \in [1 .. held -> Content] /\ DOMAIN q = 1 .. held
  BY <1>3 DEF Held
<1>5. \A i \in 1 .. held : q[i] = b[At(tail, i)]
  BY <1>2 DEF Held
<1> HIDE DEF q
<1>6. q \in Seq(Content)
  BY <1>1, <1>4, SeqDef
<1>7. Len(q) \in Nat /\ DOMAIN q = 1 .. Len(q)
  BY <1>6, LenProperties
<1>8. Len(q) = held
  BY <1>1, <1>4, <1>7
<1> QED
  BY <1>5, <1>6, <1>8 DEF q

(* Records taken from the front leave the others in their order.           *)
LEMMA TakenFromFront ==
    ASSUME NEW b, NEW head, NEW tail, NEW held, RingOK(b, head, tail, held),
           NEW n \in 0 .. held
    PROVE  /\ RingOK(b, head, (tail + n) % BufferSize, held - n)
           /\ Held(b, (tail + n) % BufferSize, held - n)
                 = SubSeq(Held(b, tail, held), n + 1, Len(Held(b, tail, held)))
<1> DEFINE t == (tail + n) % BufferSize
           q == Held(b, tail, held)
           r == Held(b, t, held - n)
           u == SubSeq(q, n + 1, Len(q))
<1>1. /\ BufferSize \in Nat /\ BufferSize > 0 /\ held \in Nat /\ held <= BufferSize
      /\ tail \in Nat /\ tail < BufferSize /\ n \in Nat /\ n <= held
      /\ tail \in RingPlaces /\ b \in [RingPlaces -> Content]
  BY LoggerAssumption DEF RingOK, RingPlaces
<1>2. t = (IF tail + n < BufferSize THEN tail + n ELSE tail + n - BufferSize) /\ t \in RingPlaces
  BY <1>1, Wrap DEF RingPlaces
<1>3. RingOK(b, head, t, held - n)
  <2>1. (t + (held - n)) % BufferSize = (tail + held) % BufferSize
    <3>1. /\ t \in Nat /\ held - n \in Nat /\ t + (held - n) < 2 * BufferSize
          /\ tail + held < 2 * BufferSize
      BY <1>1, <1>2 DEF RingPlaces
    <3> HIDE DEF t
    <3>2. (t + (held - n)) % BufferSize =
              IF t + (held - n) < BufferSize THEN t + (held - n)
              ELSE t + (held - n) - BufferSize
      BY <3>1, WrapSum
    <3>3. (tail + held) % BufferSize =
              IF tail + held < BufferSize THEN tail + held
              ELSE tail + held - BufferSize
      BY <1>1, <3>1, WrapSum
    <3> QED
      BY <1>1, <1>2, <3>2, <3>3 DEF RingPlaces
  <2> HIDE DEF t
  <2> QED
    BY <1>1, <1>2, <2>1 DEF RingOK
<1> HIDE DEF t
<1>4. /\ q \in Seq(Content) /\ Len(q) = held
      /\ \A i \in 1 .. held : q[i] = b[At(tail, i)] /\ q[i] \in Content
  BY <1>1, HeldRecords, ElementOfSeq
<1>5. /\ r \in Seq(Content) /\ Len(r) = held - n
      /\ \A i \in 1 .. held - n : r[i] = b[At(t, i)]
  <2>1. held - n \in 0 .. BufferSize
    BY <1>1
  <2> QED
    BY <1>1, <1>2, <2>1, HeldRecords
<1> HIDE DEF q, r
<1>6. /\ u \in Seq(Content) /\ Len(u) = held - n
      /\ \A i \in 1 .. held - n : u[i] = q[n + i]
  <2>1. \A i \in n + 1 .. held : q[i] \in Content
    BY <1>1, <1>4
  <2>2. /\ u \in Seq(Content)
        /\ Len(u) = IF n + 1 <= held THEN held - (n + 1) + 1 ELSE 0
        /\ \A i \in 1 .. held - (n + 1) + 1 : u[i] = q[n + 1 + i - 1]
    BY <1>1, <1>4, <2>1, SubSeqProperties
  <2> HIDE DEF u
  <2> QED
    BY <1>1, <2>2
<1> HIDE DEF u
<1>7. \A i \in 1 .. held - n : r[i] = u[i]
  <2> SUFFICES ASSUME NEW i \in 1 .. held - n
               PROVE  r[i] = u[i]
    OBVIOUS
  <2>1. n + i \in 1 .. held /\ At(t, i) = At(tail, n + i)
    BY <1>1, <1>2 DEF At
  <2> QED
    BY <1>4, <1>5, <1>6, <2>1
<1>8. r = u
  BY <1>5, <1>6, <1>7, SeqEqual
<1> QED
  BY <1>3, <1>8 DEF t, q, r, u

(* A record that comes in is the newest; a full ring drops its oldest.     *)
LEMMA AddedIsNewest ==
    ASSUME RingInv, NEW s \in Snapshot
    PROVE  LET ring == AddSnapshot(s)
           IN  /\ RingOK(ring.buffer, ring.head, ring.tail, ring.count)
               /\ Held(ring.buffer, ring.tail, ring.count) =
                     Queue!Newest(Append(Held(buffer, bufferTail, bufferCount), s))
<1> DEFINE b == [buffer EXCEPT ![bufferHead] = s]
           t == IF isBufferFull THEN Behind(bufferTail) ELSE bufferTail
           c == IF isBufferFull THEN bufferCount ELSE bufferCount + 1
           q == Held(buffer, bufferTail, bufferCount)
           r == Held(b, t, c)
           a == Append(q, s)
<1>1. /\ BufferSize \in Nat /\ BufferSize > 0
      /\ bufferCount \in Nat /\ bufferCount <= BufferSize
      /\ bufferTail \in Nat /\ bufferTail < BufferSize /\ bufferTail \in RingPlaces
      /\ buffer \in [RingPlaces -> Content] /\ s \in Content
  BY LoggerAssumption DEF RingInv, RingOK, RingPlaces, Content
<1>2. bufferHead = At(bufferTail, bufferCount + 1) /\ bufferHead \in RingPlaces
  <2>1. bufferCount + 1 \in 1 .. BufferSize + 1
    BY <1>1
  <2>2. /\ At(bufferTail, bufferCount + 1) \in RingPlaces
        /\ (bufferTail + (bufferCount + 1) - 1) % BufferSize = At(bufferTail, bufferCount + 1)
    BY <1>1, <2>1, AtPlace
  <2>3. bufferTail + (bufferCount + 1) - 1 = bufferTail + bufferCount
    BY <1>1
  <2> QED
    BY <2>2, <2>3 DEF RingInv, RingOK
<1>3. isBufferFull <=> bufferCount = BufferSize
  BY <1>1 DEF isBufferFull
<1>4. b \in [RingPlaces -> Content] /\ \A p \in RingPlaces : b[p] = IF p = bufferHead THEN s ELSE buffer[p]
  BY <1>1, <1>2
<1>5. t = (IF ~isBufferFull THEN bufferTail
           ELSE IF bufferTail + 1 < BufferSize THEN bufferTail + 1 ELSE 0) /\ t \in RingPlaces
  <2>1. Behind(bufferTail) = IF bufferTail + 1 < BufferSize THEN bufferTail + 1 ELSE 0
    BY <1>1, Wrap DEF Behind
  <2> QED
    BY <1>1, <2>1 DEF RingPlaces
<1>6. c \in 0 .. BufferSize /\ c = IF bufferCount = BufferSize THEN BufferSize ELSE bufferCount + 1
  BY <1>1, <1>3
<1>7. Behind(bufferHead) = (t + c) % BufferSize
  <2>1. Behind(bufferHead) = IF bufferHead + 1 < BufferSize THEN bufferHead + 1 ELSE 0
    BY <1>1, <1>2, Wrap DEF Behind, RingPlaces
  <2>2. t \in Nat /\ c \in Nat /\ t + c < 2 * BufferSize
    BY <1>1, <1>5, <1>6 DEF RingPlaces
  <2> HIDE DEF t, c
  <2>3. (t + c) % BufferSize = IF t + c < BufferSize THEN t + c ELSE t + c - BufferSize
    BY <2>2, WrapSum
  <2> QED
    BY <1>1, <1>2, <1>3, <1>5, <1>6, <2>1, <2>3 DEF At
<1> HIDE DEF b, t, c
<1>8. RingOK(b, Behind(bufferHead), t, c)
  BY <1>4, <1>5, <1>6, <1>7 DEF RingOK
<1>9. /\ q \in Seq(Content) /\ Len(q) = bufferCount
      /\ \A i \in 1 .. bufferCount : q[i] = buffer[At(bufferTail, i)]
  BY <1>1, HeldRecords
<1>10. /\ r \in Seq(Content) /\ Len(r) = c
       /\ \A i \in 1 .. c : r[i] = b[At(t, i)]
  BY <1>4, <1>5, <1>6, HeldRecords
<1> HIDE DEF q, r
<1>11. /\ a \in Seq(Content) /\ Len(a) = bufferCount + 1
       /\ \A i \in 1 .. bufferCount : a[i] = q[i]
       /\ a[bufferCount + 1] = s
  BY <1>1, <1>9, AppendProperties
<1> HIDE DEF a
<1>12. r = Queue!Newest(a)
  <2>1. CASE ~isBufferFull
    <3>1. Queue!Newest(a) = a /\ c = bufferCount + 1 /\ t = bufferTail
      BY <1>1, <1>3, <1>5, <1>6, <1>11, <2>1 DEF Queue!Newest
    <3>2. \A i \in 1 .. c : r[i] = a[i]
      <4> SUFFICES ASSUME NEW i \in 1 .. c
                   PROVE  r[i] = a[i]
        OBVIOUS
      <4>1. CASE i = bufferCount + 1
        BY <1>2, <1>4, <1>5, <1>10, <1>11, <3>1, <4>1
      <4>2. CASE i # bufferCount + 1
        <5>1. i \in 1 .. bufferCount
          BY <1>1, <3>1, <4>2
        <5>2. At(bufferTail, i) \in RingPlaces /\ At(bufferTail, i) # bufferHead
          BY <1>1, <1>2, <1>3, <2>1, <5>1 DEF At, RingPlaces
        <5> QED
          BY <1>4, <1>9, <1>10, <1>11, <3>1, <5>1, <5>2
      <4> QED
        BY <4>1, <4>2
    <3> QED
      BY <1>10, <1>11, <3>1, <3>2, SeqEqual
  <2>2. CASE isBufferFull
    <3>1. Queue!Newest(a) = Tail(a) /\ c = BufferSize /\ bufferCount = BufferSize
      BY <1>1, <1>3, <1>6, <1>11, <2>2 DEF Queue!Newest
    <3>2. /\ Tail(a) \in Seq(Content) /\ Len(Tail(a)) = BufferSize
          /\ \A i \in 1 .. BufferSize : Tail(a)[i] = a[i + 1]
      <4>1. a # << >>
        BY <1>1, <1>11, EmptySeq
      <4>2. /\ Tail(a) \in Seq(Content) /\ Len(Tail(a)) = Len(a) - 1
            /\ \A i \in 1 .. Len(Tail(a)) : Tail(a)[i] = a[i + 1]
        BY <1>11, <4>1, HeadTailProperties
      <4> QED
        BY <1>1, <1>11, <3>1, <4>2
    <3>3. \A i \in 1 .. BufferSize : r[i] = Tail(a)[i]
      <4> SUFFICES ASSUME NEW i \in 1 .. BufferSize
                   PROVE  r[i] = a[i + 1]
        BY <3>2
      <4>1. CASE i = BufferSize
        <5>1. At(t, i) = bufferHead
          BY <1>1, <1>2, <1>5, <2>2, <3>1, <4>1 DEF At
        <5> QED
          BY <1>2, <1>4, <1>10, <1>11, <3>1, <4>1, <5>1
      <4>2. CASE i # BufferSize
        <5>1. i \in 1 .. bufferCount /\ i + 1 \in 1 .. bufferCount /\ i \in 1 .. c
          BY <1>1, <3>1, <4>2
        <5>2. /\ At(t, i) = At(bufferTail, i + 1)
              /\ At(t, i) \in RingPlaces /\ At(t, i) # bufferHead
          BY <1>1, <1>2, <1>5, <2>2, <3>1, <5>1 DEF At, RingPlaces
        <5> QED
          BY <1>4, <1>9, <1>10, <1>11, <5>1, <5>2
      <4> QED
        BY <4>1, <4>2
    <3> QED
      BY <1>10, <3>1, <3>2, <3>3, SeqEqual
  <2> QED
    BY <2>1, <2>2
<1> QED
  BY <1>8, <1>12 DEF AddSnapshot, b, t, c, q, r, a

-----------------------------------------------------------------------------
(* What SetRing does to the ring is one step of the queue.                 *)
LEMMA SetRingIsLog ==
    ASSUME RingInv, NEW s \in Snapshot, NEW n \in 0 .. MaxWrites,
           n <= AddSnapshot(s).count, SetRing(AddSnapshot(s), n)
    PROVE  RingInv' /\ Queue!Log(s, n)
<1> DEFINE ring == AddSnapshot(s)
           kept == Held(ring.buffer, ring.tail, ring.count)
<1>1. /\ RingOK(ring.buffer, ring.head, ring.tail, ring.count)
      /\ kept = Queue!Newest(Append(Held(buffer, bufferTail, bufferCount), s))
  BY AddedIsNewest
<1>2. /\ buffer' = ring.buffer /\ bufferHead' = ring.head
      /\ bufferTail' = (ring.tail + n) % BufferSize
      /\ bufferCount' = ring.count - n
  BY DEF SetRing
<1> HIDE DEF ring
<1>3. n \in 0 .. ring.count
  BY <1>1, LoggerAssumption DEF RingOK, ring
<1>4. /\ RingOK(buffer', bufferHead', bufferTail', bufferCount')
      /\ Held(buffer', bufferTail', bufferCount') = SubSeq(kept, n + 1, Len(kept))
  BY <1>1, <1>2, <1>3, TakenFromFront
<1>5. n <= Len(kept)
  BY <1>1, <1>3, HeldRecords DEF RingOK
<1> HIDE DEF kept
<1>6. n <= MaxWrites
  BY LoggerAssumption
<1>7. Queue!Log(s, n)
  BY <1>1, <1>4, <1>5, <1>6 DEF Queue!Log, Held
<1> QED
  BY <1>4, <1>7 DEF RingInv

(* A turn of the writer is a step of the queue, or none.                   *)
LEMMA WriteIsALog ==
    ASSUME RingInv, Write
    PROVE  RingInv' /\ [Queue!Next]_(Held(buffer, bufferTail, bufferCount))
<1>1. CASE UNCHANGED bufferVars
  BY <1>1 DEF bufferVars, RingInv, Held
<1>2. ASSUME NEW s \in Snapshot,
             WriteToOpen(AddSnapshot(s)) \/ OpenAndWrite(AddSnapshot(s))
      PROVE  RingInv' /\ Queue!Next
  <2> DEFINE ring == AddSnapshot(s)
             n == IF ring.count < MaxWrites THEN ring.count ELSE MaxWrites
  <2>1. ring.count \in Nat
    BY AddedIsNewest, LoggerAssumption DEF RingOK
  <2>2. SetRing(ring, 0) \/ SetRing(ring, n)
    BY <1>2 DEF WriteToOpen, OpenAndWrite, WriteOut
  <2> HIDE DEF ring
  <2>3. n \in 0 .. MaxWrites /\ n <= ring.count /\ 0 \in 0 .. MaxWrites /\ 0 <= ring.count
    BY <2>1, LoggerAssumption
  <2> HIDE DEF n
  <2>4. PICK k \in 0 .. MaxWrites : k <= ring.count /\ SetRing(ring, k)
    BY <2>2, <2>3
  <2>5. RingInv' /\ Queue!Log(s, k)
    BY <2>4, SetRingIsLog DEF ring
  <2> QED
    BY <2>5 DEF Queue!Next
<1> QED
  BY <1>1, <1>2 DEF Write

(* Nothing but the writer moves the ring.                                  *)
LEMMA RingStep ==
    RingInv /\ [LoggerNext]_sdCardVars
        => RingInv' /\ [Queue!Next]_(Held(buffer, bufferTail, bufferCount))
<1> SUFFICES ASSUME RingInv, [LoggerNext]_sdCardVars
             PROVE  RingInv' /\ [Queue!Next]_(Held(buffer, bufferTail, bufferCount))
  OBVIOUS
<1>1. CASE UNCHANGED bufferVars
  BY <1>1 DEF bufferVars, RingInv, Held
<1>2. CASE Write
  BY <1>2, WriteIsALog
<1> QED
  BY <1>1, <1>2 DEF LoggerNext, Loop, Driver, Status, DateCheck, CardCommand, Tick, SetClock,
     HolderChanges, sdCardVars, loggerVars

(* The ring starts empty.                                                  *)
LEMMA RingInit == LoggerInit => RingInv /\ Queue!Init
<1> SUFFICES ASSUME LoggerInit
             PROVE  RingInv /\ Queue!Init
  OBVIOUS
<1>1. /\ bufferCount = 0 /\ bufferTail = 0 /\ bufferHead = 0
      /\ buffer = [i \in RingPlaces |-> CHOOSE s \in Snapshot : TRUE]
  BY DEF LoggerInit, RingPlaces
<1>2. 0 \in RingPlaces /\ 0 \in 0 .. BufferSize /\ (0 + 0) % BufferSize = 0
  BY LoggerAssumption, Wrap DEF RingPlaces
<1>3. buffer \in [RingPlaces -> Content]
  BY <1>1 DEF Content
<1>4. Held(buffer, bufferTail, bufferCount) = << >>
  <2>1. 1 .. bufferCount = {}
    BY <1>1
  <2> QED
    BY <2>1 DEF Held
<1> QED
  BY <1>1, <1>2, <1>3, <1>4 DEF RingInv, RingOK, Queue!Init, Held

(* The ring keeps the newest records in their order and lets go of them    *)
(* from the front, for any size and any number of records a turn.          *)
THEOREM RingIsAQueue == LoggerSpec => ImplementsQueue
<1>1. RingInv /\ [LoggerNext]_sdCardVars
        => [Queue!Next]_([i \in 1 .. bufferCount |->
                             buffer[(bufferTail + i - 1) % BufferSize]])
  BY RingStep DEF Held
<1> QED
  BY <1>1, RingInit, RingStep, PTL DEF LoggerSpec, ImplementsQueue, Queue!Spec

-----------------------------------------------------------------------------
(* The presence sensor.  With pulses on one relay only, the relay that is  *)
(* on is the one of its reactions, so that the next pulse starts the timer *)
(* of the same relay anew and none is left behind.                         *)
Reactions == {"detected", "clear"}

FeedInv ==
    /\ reactions \in [Reactions -> Actions \cup {Action("None", 0)}]
    /\ relayOn \in [Relays -> BOOLEAN]
    /\ pulse \in [relay : Relays \cup {0}, left : 0 .. PulseSeconds]
    /\ OnlyPulses => \A r \in Relays : relayOn[r] =>
           pulse.relay = r /\ \E e \in Reactions : reactions[e] = Action("Pulse", r)

(* What a reaction is: it names a relay of the hub if its action needs one.*)
LEMMA ReactionNamesRelay ==
    ASSUME FeedInv, NEW e \in Reactions
    PROVE  /\ reactions[e] = Action(reactions[e].type, reactions[e].relay)
           /\ reactions[e].type \in {"On", "Off", "Toggle", "Pulse"}
                  => reactions[e].relay \in Relays
           /\ reactions[e].type \in {"On", "Off", "Toggle", "Pulse", "AllOn", "AllOff", "None"}
<1>1. reactions[e] \in Actions \cup {Action("None", 0)}
  BY DEF FeedInv
<1> QED
  BY <1>1 DEF Actions, Action

(* Of a step that leaves reactions, relays and pulse as they are.          *)
LEMMA FeedStands ==
    ASSUME FeedInv, UNCHANGED <<kind, reactions, relayOn, pulse>>
    PROVE  FeedInv'
BY DEF FeedInv, OnlyPulses

(* The reaction to a change of the pin, for each thing it may be.          *)
LEMMA ReactionKeepsTimed ==
    ASSUME FeedInv, NEW e \in Reactions, UNCHANGED <<kind, reactions>>,
           relayOn' = ExecutedOn(relayOn, reactions[e]), pulse' = PulseAfter(reactions[e])
    PROVE  FeedInv'
<1> DEFINE action == reactions[e]
<1>1. /\ action = Action(action.type, action.relay)
      /\ action.type \in {"On", "Off", "Toggle", "Pulse"} => action.relay \in Relays
      /\ action.type \in {"On", "Off", "Toggle", "Pulse", "AllOn", "AllOff", "None"}
  BY ReactionNamesRelay, Zenon
<1> HIDE DEF action
<1>2. relayOn' \in [Relays -> BOOLEAN]
  <2>1. relayOn' = ExecutedOn(relayOn, action) /\ relayOn \in [Relays -> BOOLEAN]
    BY DEF FeedInv, action
  <2> QED
    BY <1>1, <2>1 DEF ExecutedOn, Switched
<1>3. pulse' \in [relay : Relays \cup {0}, left : 0 .. PulseSeconds]
  BY <1>1, FeedAssumption DEF PulseAfter, FeedInv, action
<1>4. ASSUME OnlyPulses, NEW r \in Relays, relayOn'[r]
      PROVE  pulse'.relay = r /\ \E d \in Reactions : reactions[d] = Action("Pulse", r)
  <2>1. action.type \in {"Pulse", "Off", "AllOff", "None"}
    BY <1>4 DEF OnlyPulses, FeedInv, Reactions, action
  <2>2. relayOn[r] => pulse.relay = r /\ \E d \in Reactions : reactions[d] = Action("Pulse", r)
    BY <1>4 DEF FeedInv
  <2>3. relayOn' = ExecutedOn(relayOn, action) /\ relayOn \in [Relays -> BOOLEAN]
        /\ pulse' = PulseAfter(action)
    BY DEF FeedInv, action
  <2>4. CASE action.type = "Pulse" /\ PulseSeconds > 0
    <3>0. ExecutedOn(relayOn, action) = Switched(relayOn, action.relay, TRUE)
      BY <2>4 DEF ExecutedOn
    <3>1. pulse'.relay = action.relay /\ relayOn' = [relayOn EXCEPT ![action.relay] = TRUE]
      BY <2>3, <2>4, <3>0 DEF PulseAfter, Switched
    <3>2. reactions[e] = Action("Pulse", action.relay)
      BY <1>1, <2>4 DEF action
    <3>3. CASE r = action.relay
      BY <3>1, <3>2, <3>3
    <3>4. CASE r # action.relay
      <4>1. relayOn[r]
        BY <1>4, <2>3, <3>1, <3>4
      <4>2. PICK d \in Reactions : reactions[d] = Action("Pulse", r)
        BY <2>2, <4>1
      <4>3. d # e
        BY <3>2, <3>4, <4>2 DEF Action
      <4> QED
        BY <1>4, <3>2, <3>4, <4>2, <4>3 DEF OnlyPulses, Reactions, Action
    <3> QED
      BY <3>3, <3>4
  <2>5. CASE ~(action.type = "Pulse" /\ PulseSeconds > 0)
    <3>1. pulse' = pulse
      BY <2>3, <2>5 DEF PulseAfter
    <3>2. relayOn[r]
      BY <1>1, <1>4, <2>1, <2>3, <2>5 DEF ExecutedOn, Switched
    <3> QED
      BY <2>2, <3>1, <3>2
  <2> QED
    BY <2>4, <2>5
<1> QED
  BY <1>2, <1>3, <1>4 DEF FeedInv, OnlyPulses

LEMMA FeedInvStep == FeedInv /\ [FeedNext]_feedVars => FeedInv'
<1> SUFFICES ASSUME FeedInv, [FeedNext]_feedVars PROVE FeedInv'
  OBVIOUS
<1>1. CASE EndPulse
  <2>1. /\ relayOn' = [relayOn EXCEPT ![pulse.relay] = FALSE] /\ pulse' = [relay |-> 0, left |-> 0]
        /\ UNCHANGED <<kind, reactions>>
    BY <1>1 DEF EndPulse, Switched, Idle, worldVars
  <2>2. relayOn' \in [Relays -> BOOLEAN]
    BY <2>1 DEF FeedInv
  <2>3. pulse' \in [relay : Relays \cup {0}, left : 0 .. PulseSeconds]
    BY <2>1, FeedAssumption
  <2>4. OnlyPulses => \A r \in Relays : ~relayOn'[r]
    BY <2>1 DEF FeedInv
  <2> QED
    BY <2>1, <2>2, <2>3, <2>4 DEF FeedInv, OnlyPulses
<1>2. CASE PollPresence
  <2>1. PICK e \in Reactions : /\ relayOn' = ExecutedOn(relayOn, reactions[e])
                               /\ pulse' = PulseAfter(reactions[e])
    BY <1>2 DEF PollPresence, Reactions
  <2>2. UNCHANGED <<kind, reactions>>
    BY <1>2 DEF PollPresence, worldVars
  <2> QED
    BY <2>1, <2>2, ReactionKeepsTimed
<1>3. CASE Second
  <2>1. /\ UNCHANGED <<kind, reactions, relayOn>>
        /\ pulse' = IF pulse # Idle /\ pulse.left > 0 THEN [pulse EXCEPT !.left = @ - 1] ELSE pulse
    BY <1>3 DEF Second, worldVars
  <2>2. pulse' \in [relay : Relays \cup {0}, left : 0 .. PulseSeconds] /\ pulse'.relay = pulse.relay
    BY <2>1, FeedAssumption DEF FeedInv
  <2> QED
    BY <2>1, <2>2 DEF FeedInv, OnlyPulses
<1>4. CASE WorldTurns
  BY <1>4, FeedStands DEF WorldTurns, sensedVars
<1>5. CASE PollDht \/ PollLight \/ PollVoltage \/ PowerUp \/ ReadWater \/ PollReed
  BY <1>5, FeedStands
  DEF PollDht, PollLight, PollVoltage, PowerUp, ReadWater, PollReed, RestUnchanged, worldVars
<1>6. CASE SensorCommand \/ RemoteCommand \/ RemoteMessage
  BY <1>6, FeedStands DEF SensorCommand, RemoteCommand, RemoteMessage, RestUnchanged, worldVars
<1>7. CASE MetricsUpdated \/ Connect \/ PublishDiscovery \/ LoseLink
  BY <1>7, FeedStands
  DEF MetricsUpdated, Connect, PublishDiscovery, LoseLink, worldVars, sensedVars
<1>8. CASE UNCHANGED feedVars
  BY <1>8, FeedStands DEF feedVars, worldVars, sensedVars
<1> QED
  BY <1>1, <1>2, <1>3, <1>4, <1>5, <1>6, <1>7, <1>8 DEF FeedNext, Sense

(* Whatever the pin does and however long a pulse is, a relay that only    *)
(* pulses switch on is on with the timer running that will switch it off.  *)
THEOREM PulsesAreTimed == FeedSpec => []PulsedRelayIsTimed
<1>1. FeedInit => FeedInv
  <2> SUFFICES ASSUME FeedInit PROVE FeedInv
    OBVIOUS
  <2>1. reactions \in [Reactions -> Actions \cup {Action("None", 0)}]
    BY DEF FeedInit, Reactions
  <2>2. /\ relayOn = [r \in Relays |-> FALSE]
        /\ pulse \in [relay : Relays \cup {0}, left : 0 .. PulseSeconds]
    BY FeedAssumption DEF FeedInit, Idle
  <2> QED
    BY <2>1, <2>2 DEF FeedInv
<1>2. FeedInv => PulsedRelayIsTimed
  BY DEF FeedInv, PulsedRelayIsTimed
<1> QED
  BY <1>1, <1>2, FeedInvStep, PTL DEF FeedSpec
=============================================================================
