--------------------------- MODULE Settings_proofs ---------------------------
(***************************************************************************)
(* Settings, on the hub and in the app, for any relays, pins, board table, *)
(* sensors, values and bounds.                                             *)
(*                                                                         *)
(* HubPins: two devices never have the same pin, and no part takes a pin   *)
(* from a sensor.                                                          *)
(*                                                                         *)
(* HubSettings: the same when a file is loaded from the card, and what is  *)
(* read back changes nothing.  All follow from SettingsInv: the pins fit,  *)
(* every setting holds what can be stored for it, and the card what can    *)
(* stand there.  That the readers and setters keep to it is proved way by  *)
(* way and setting by setting; that a file does, line by line.             *)
(*                                                                         *)
(* AppClient: a save changes only what the user changed, and what the page *)
(* calls saved is in the hub.  Both follow from AppInv, which says of every*)
(* field how what the page shows, what it loaded and what the hub has are  *)
(* related, and of a save under way what its past requests have achieved.  *)
(***************************************************************************)
EXTENDS HubSettings, AppClient, SequenceTheorems, WellFoundedInduction, TLAPS

(* Every set of numbers that is not empty has a least one.  What follows by*)
(* induction follows from it: there is no least number without it.         *)
LEMMA LeastNumber ==
    ASSUME NEW S, S \subseteq Nat, S # {}
    PROVE  \E n \in S : \A m \in S : n <= m
<1>1. PICK n \in S : \A m \in S : <<m, n>> \notin OpToRel(<, Nat)
  BY NatLessThanWellFounded, WFMin
<1>2. \A m \in S : m \in Nat /\ ~(m < n)
  BY <1>1 DEF OpToRel
<1>3. n \in Nat
  OBVIOUS
<1>4. \A m \in S : n <= m
  BY <1>2, <1>3
<1> QED
  BY <1>4

-----------------------------------------------------------------------------
(* One way of writing every step: a refusal, pins given to the parts of one*)
(* device after each was looked at, a change of the table, or the reset.   *)
(* A relay gets a pin that can drive it, and never GPIO 0.                 *)
Drivable(p) == p # 0 /\ ~Forbidden(p, TRUE)

PinsGiven(F, new) ==
    /\ F \subseteq Part
    /\ \A f \in F : new[f] \in PinValue
    /\ \A f, g \in F : SameDevice(f, g)
    /\ \A r \in F \cap Relay : new[r] # PinDisabled => Drivable(new[r])
    /\ \A f \in F : new[f] # PinDisabled =>
          /\ \A g \in Part \ F : pin[g] # new[f]
          /\ \A i \in Index : i < count => \A s \in Slot : sensors[i].pins[s] # new[f]
    /\ Store(F, new)

TableStep == answer' = "ok" /\ UNCHANGED pin

StepOfKind ==
    \/ Refuse
    \/ \E F \in SUBSET Part : \E new \in [F -> PinValue] : PinsGiven(F, new)
    \/ TableStep
    \/ Reset

LEMMA SetPinsKind ==
    ASSUME NEW F \in SUBSET Part, NEW new \in [F -> PinValue],
           \A f, g \in F : SameDevice(f, g),
           \A r \in F \cap Relay : new[r] # 0,
           SetPins(F, new)
    PROVE  StepOfKind
<1>1. CASE \E f \in F : IsBlocked(new[f], RequiresOutput(f))
  BY <1>1 DEF SetPins, StepOfKind
<1>2. CASE ~(\E f \in F : IsBlocked(new[f], RequiresOutput(f)))
  <2>1. Store(F, new)
    BY <1>2 DEF SetPins
  <2>2. ASSUME NEW f \in F, new[f] # PinDisabled
        PROVE  /\ \A g \in Part \ F : pin[g] # new[f]
               /\ \A i \in Index : i < count =>
                     \A s \in Slot : sensors[i].pins[s] # new[f]
    BY <1>2, <2>2 DEF IsBlocked, InUse
  <2>3. ASSUME NEW r \in F \cap Relay, new[r] # PinDisabled
        PROVE  Drivable(new[r])
    <3>1. RequiresOutput(r) = TRUE
      BY PinsAssumption DEF RequiresOutput, Spi, Nextion
    <3> QED
      BY <1>2, <2>3, <3>1 DEF IsBlocked, Drivable
  <2>4. PinsGiven(F, new)
    BY <2>1, <2>2, <2>3 DEF PinsGiven
  <2> QED
    BY <2>4 DEF StepOfKind
<1> QED
  BY <1>1, <1>2

LEMMA SinglePinKind ==
    ASSUME NEW f \in Part, NEW p \in PinValue, f \in Relay => p # 0,
           SetPins({f}, [g \in {f} |-> p])
    PROVE  StepOfKind
<1>1. [g \in {f} |-> p] \in [{f} -> PinValue]
  OBVIOUS
<1>2. \A g, h \in {f} : SameDevice(g, h)
  BY DEF SameDevice
<1> QED
  BY <1>1, <1>2, SetPinsKind

LEMMA RtcKind ==
    ASSUME NEW new \in [Rtc -> PinValue], SetRtcPins(new)
    PROVE  StepOfKind
<1>1. CASE RtcBlocked(new)
  BY <1>1 DEF SetRtcPins, StepOfKind
<1>2. CASE ~RtcBlocked(new)
  <2>1. Store(Rtc, new)
    BY <1>2 DEF SetRtcPins
  <2>2. ASSUME NEW f \in Rtc, new[f] # PinDisabled
        PROVE  /\ \A g \in Part \ Rtc : pin[g] # new[f]
               /\ \A i \in Index : i < count =>
                     \A s \in Slot : sensors[i].pins[s] # new[f]
    BY <1>2, <2>2 DEF RtcBlocked, InUseBesidesRtc
  <2>3. Rtc \in SUBSET Part /\ \A f, g \in Rtc : SameDevice(f, g)
    BY DEF Part, SameDevice
  <2>4. Rtc \cap Relay = {}
    BY PinsAssumption
  <2>5. PinsGiven(Rtc, new)
    BY <2>1, <2>2, <2>3, <2>4 DEF PinsGiven
  <2> QED
    BY <2>3, <2>5 DEF StepOfKind
<1> QED
  BY <1>1, <1>2

LEMMA PinCommandKinds ==
    ASSUME \/ \E r \in Relay, p \in PinValue : SetRelayPin(r, p)
           \/ \E p \in PinValue : SetXpdzTonePin(p) \/ SetSdCardCsPin(p)
           \/ \E p \in PinValue : SetNextionRxPin(p) \/ SetNextionTxPin(p)
           \/ \E new \in [Spi -> PinValue] : SetSpiPins(new)
           \/ \E new \in [Rgb -> PinValue] : SetHw479RgbPins(new)
           \/ \E new \in [Rtc -> PinValue] : SetRtcPins(new)
    PROVE  StepOfKind
<1>1. CASE \E r \in Relay, p \in PinValue : SetRelayPin(r, p)
  <2>1. PICK r \in Relay, p \in PinValue : SetRelayPin(r, p)
    BY <1>1
  <2>2. r \in Part
    BY DEF Part
  <2>3. CASE p = 0
    BY <2>1, <2>3 DEF SetRelayPin, StepOfKind
  <2>4. CASE p # 0
    <3>1. SetPins({r}, [f \in {r} |-> p])
      BY <2>1, <2>4 DEF SetRelayPin
    <3> QED
      BY <2>2, <2>4, <3>1, SinglePinKind
  <2> QED
    BY <2>3, <2>4
<1>2. CASE \E p \in PinValue : SetXpdzTonePin(p) \/ SetSdCardCsPin(p)
  <2>1. {"xpdzTone", "sdCard.cs"} \subseteq Part \ Relay
    BY PinsAssumption DEF Part, Single
  <2> QED
    BY <1>2, <2>1, SinglePinKind DEF SetXpdzTonePin, SetSdCardCsPin
<1>3. CASE \E p \in PinValue : SetNextionRxPin(p) \/ SetNextionTxPin(p)
  <2>1. {"nextion.rx", "nextion.tx"} \subseteq Part \ Relay
    BY PinsAssumption DEF Part, Nextion
  <2> QED
    BY <1>3, <2>1, SinglePinKind DEF SetNextionRxPin, SetNextionTxPin
<1>4. CASE \E new \in [Spi -> PinValue] : SetSpiPins(new)
  <2>1. Spi \in SUBSET (Part \ Relay) /\ \A f, g \in Spi : SameDevice(f, g)
    BY PinsAssumption DEF Part, SameDevice
  <2> QED
    BY <1>4, <2>1, SetPinsKind DEF SetSpiPins
<1>5. CASE \E new \in [Rgb -> PinValue] : SetHw479RgbPins(new)
  <2>1. Rgb \in SUBSET (Part \ Relay) /\ \A f, g \in Rgb : SameDevice(f, g)
    BY PinsAssumption DEF Part, SameDevice
  <2> QED
    BY <1>5, <2>1, SetPinsKind DEF SetHw479RgbPins
<1>6. CASE \E new \in [Rtc -> PinValue] : SetRtcPins(new)
  BY <1>6, RtcKind
<1> QED
  BY <1>1, <1>2, <1>3, <1>4, <1>5, <1>6

LEMMA TableKinds ==
    ASSUME \/ SerialAddUpdate \/ HttpAddUpdate
           \/ \E i \in Index : \/ SerialRemove(i) \/ SerialDetail(i)
                               \/ HttpRemove(i) \/ HttpDetail(i)
           \/ \E i \in Index, s \in Slot, p \in PinValue :
                 SerialSetPin(i, s, p) \/ HttpSetPin(i, s, p)
    PROVE  StepOfKind
<1> USE DEF StepOfKind, TableStep, StoreSensors, NoEffect
<1>1. CASE SerialAddUpdate \/ HttpAddUpdate
  BY <1>1 DEF SerialAddUpdate, HttpAddUpdate, AddUpdate
<1>2. CASE \E i \in Index : \/ SerialRemove(i) \/ SerialDetail(i)
                            \/ HttpRemove(i) \/ HttpDetail(i)
  BY <1>2 DEF SerialRemove, SerialDetail, HttpRemove, HttpDetail
<1>3. CASE \E i \in Index, s \in Slot, p \in PinValue :
              SerialSetPin(i, s, p) \/ HttpSetPin(i, s, p)
  BY <1>3 DEF SerialSetPin, HttpSetPin, StorePin
<1> QED
  BY <1>1, <1>2, <1>3

LEMMA NextKinds == PinsNext => StepOfKind
<1> SUFFICES ASSUME PinsNext PROVE StepOfKind
  OBVIOUS
<1>1. CASE SerialCommand
  BY <1>1, PinCommandKinds, TableKinds
  DEF SerialCommand, SerialRelay, SerialToneSpi, SerialRgb, SerialRtc, SerialCs,
      SerialNextion, StepOfKind
<1>2. CASE HttpCommand
  <2>1. CASE HttpRelay /\ ~Refuse
    <3>1. PICK r \in Relay, p \in PinValue :
             IF p = 0 THEN answer' = "ok" /\ UNCHANGED <<pin, sensors, count>>
                      ELSE SetRelayPin(r, p)
      BY <2>1 DEF HttpRelay
    <3>2. CASE p = 0
      BY <3>1, <3>2 DEF StepOfKind, TableStep
    <3>3. CASE p # 0
      BY <3>1, <3>3, PinCommandKinds
    <3> QED
      BY <3>2, <3>3
  <2>2. CASE ~HttpRelay \/ Refuse
    BY <1>2, <2>2, PinCommandKinds, TableKinds
    DEF HttpCommand, HttpToneSpi, HttpRgb, HttpRtc, HttpCs, HttpNextion, StepOfKind
  <2> QED
    BY <2>1, <2>2
<1>3. CASE Reset
  BY <1>3 DEF StepOfKind
<1> QED
  BY <1>1, <1>2, <1>3 DEF PinsNext

-----------------------------------------------------------------------------
(* Pins that fit: two devices have none in common, and a relay can be      *)
(* driven by its own.                                                      *)
PinsFit(pins) ==
    /\ pins \in [Part -> PinValue]
    /\ \A f, g \in Part : pins[f] = pins[g] /\ pins[f] # PinDisabled => SameDevice(f, g)
    /\ \A r \in Relay : pins[r] # PinDisabled => Drivable(pins[r])

(* The defaults fit: what they hold is held by the Nextion panel alone.    *)
LEMMA DefaultPinsFit == PinsFit(DefaultPins)
<1>1. DefaultPins \in [Part -> PinValue]
  BY PinsAssumption DEF DefaultPins, PinValue
<1>2. \A f \in Part : DefaultPins[f] # PinDisabled => f \in Nextion
  BY DEF DefaultPins
<1>3. \A r \in Relay : r \in Part /\ r \notin Nextion
  BY PinsAssumption DEF Part
<1> QED
  BY <1>1, <1>2, <1>3 DEF PinsFit, SameDevice

(* Every pin command leaves pins that fit.                                 *)
LEMMA PinStepFits ==
    ASSUME PinsFit(pin), StepOfKind
    PROVE  PinsFit(pin')
<1>1. CASE Refuse \/ TableStep
  BY <1>1 DEF Refuse, TableStep
<1>2. CASE \E F \in SUBSET Part : \E new \in [F -> PinValue] : PinsGiven(F, new)
  <2>1. PICK F \in SUBSET Part : \E new \in [F -> PinValue] : PinsGiven(F, new)
    BY <1>2
  <2>2. PICK new \in [F -> PinValue] : PinsGiven(F, new)
    BY <2>1
  <2>3. pin' = [f \in Part |-> IF f \in F THEN new[f] ELSE pin[f]]
    BY <2>2 DEF PinsGiven, Store
  <2>4. ASSUME NEW f \in Part, NEW g \in Part, pin'[f] = pin'[g], pin'[f] # PinDisabled
        PROVE  SameDevice(f, g)
    <3>1. CASE f \in F /\ g \in F
      BY <2>2, <3>1 DEF PinsGiven
    <3>2. CASE f \notin F /\ g \notin F
      BY <2>3, <2>4, <3>2 DEF PinsFit
    <3>3. CASE f \in F /\ g \notin F
      BY <2>2, <2>3, <2>4, <3>3 DEF PinsGiven
    <3>4. CASE f \notin F /\ g \in F
      BY <2>2, <2>3, <2>4, <3>4 DEF PinsGiven
    <3> QED
      BY <3>1, <3>2, <3>3, <3>4
  <2>5. ASSUME NEW r \in Relay, pin'[r] # PinDisabled
        PROVE  Drivable(pin'[r])
    BY <2>2, <2>3, <2>5 DEF PinsGiven, PinsFit, Part
  <2>6. pin' \in [Part -> PinValue]
    BY <2>2, <2>3 DEF PinsFit
  <2> QED
    BY <2>4, <2>5, <2>6 DEF PinsFit
<1>3. CASE Reset
  <2>1. pin' = DefaultPins
    BY <1>3 DEF Reset
  <2> QED
    BY <2>1, DefaultPinsFit
<1> QED
  BY <1>1, <1>2, <1>3 DEF StepOfKind

LEMMA PinsFitFirst == PinsInit => PinsFit(pin)
<1>1. PinsFit([f \in Part |-> PinDisabled])
  BY DEF PinsFit, PinValue, Part
<1> QED
  BY <1>1, DefaultPinsFit DEF PinsInit

(* Two devices never have the same pin, whatever commands arrive from both *)
(* front ends and in whatever order: every command is compared with all    *)
(* that is stored, and a command names the pins of one device only.        *)
THEOREM DevicesStayApart == PinsSpec => []DevicesApart
<1>1. PinsFit(pin) /\ [PinsNext]_pinsVars => PinsFit(pin)'
  <2>1. CASE PinsNext
    BY <2>1, NextKinds, PinStepFits
  <2>2. CASE UNCHANGED pinsVars
    BY <2>2 DEF pinsVars
  <2> QED
    BY <2>1, <2>2
<1>2. PinsFit(pin) => DevicesApart
  BY DEF PinsFit, DevicesApart
<1> QED
  BY <1>1, <1>2, PinsFitFirst, PTL DEF PinsSpec

(* What a pin command gives a part no sensor of the table has.             *)
LEMMA PinTaken ==
    ASSUME PinsNext, NEW f \in Part, NEW i \in Index, NEW s \in Slot,
           pin'[f] # pin[f], pin'[f] # PinDisabled, i < count'
    PROVE  pin'[f] # sensors'[i].pins[s]
<1>1. CASE Refuse \/ TableStep
  BY <1>1 DEF Refuse, TableStep
<1>2. CASE \E F \in SUBSET Part : \E new \in [F -> PinValue] : PinsGiven(F, new)
  <2>1. PICK F \in SUBSET Part : \E new \in [F -> PinValue] : PinsGiven(F, new)
    BY <1>2
  <2>2. PICK new \in [F -> PinValue] : PinsGiven(F, new)
    BY <2>1
  <2>3. /\ pin'[f] = IF f \in F THEN new[f] ELSE pin[f]
        /\ sensors' = sensors /\ count' = count
    BY <2>2 DEF PinsGiven, Store, sensorVars
  <2>4. f \in F /\ pin'[f] = new[f]
    BY <2>3
  <2> QED
    BY <2>2, <2>3, <2>4 DEF PinsGiven
<1>3. CASE Reset
  BY <1>3, PinsAssumption DEF Reset, Index
<1> QED
  BY <1>1, <1>2, <1>3, NextKinds DEF StepOfKind

(* No part takes a pin that a sensor of the table has in a slot.           *)
THEOREM SensorsKeepTheirPins == PinsSpec => NoPinTakenFromSensor
<1>1. [PinsNext]_pinsVars =>
        [\A f \in Part, i \in Index, s \in Slot :
           /\ pin'[f] # pin[f]
           /\ pin'[f] # PinDisabled
           /\ i < count'
           => pin'[f] # sensors'[i].pins[s]]_pinsVars
  BY PinTaken
<1> QED
  BY <1>1, PTL DEF PinsSpec, NoPinTakenFromSensor

-----------------------------------------------------------------------------
(* HubSettings.  What the readers and the setters make of a value.         *)

Word16 == {n \in Nat : n < 65536}

(* What a cast to eight or sixteen bits leaves.                            *)
LEMMA Remainder ==
    ASSUME NEW n \in Int, NEW m \in Nat, m > 0
    PROVE  n % m \in 0 .. m - 1 /\ (n \in 0 .. m - 1 => n % m = n)
  OBVIOUS

(* What the readers give for what can be asked for.                        *)
LEMMA ReaderGives ==
    ASSUME NEW a \in Int, a >= TrueWord
    PROVE  /\ Atoi(a) \in Int
           /\ Cut8(Atoi(a)) \in 0 .. 255
           /\ Cut16(Atoi(a)) \in Word16
           /\ CutSigned8(Atoi(a)) \in -128 .. 127
           /\ Unsigned8(a) \in (0 .. 255) \cup {Refused}
           /\ Unsigned16(a) \in Word16 \cup {Refused}
           /\ Unsigned32(a) \in Nat \cup {Refused}
           /\ Signed8(a) \in (-128 .. 127) \cup {Refused}
           /\ Boolean(a) \in {0, 1}
           /\ NotZero(a) \in {0, 1}
<1>1. Atoi(a) \in Int
  BY DEF Atoi
<1>2. Cut8(Atoi(a)) \in 0 .. 255
  BY <1>1, Remainder DEF Cut8
<1>3. Cut16(Atoi(a)) \in Word16
  BY <1>1, Remainder DEF Cut16, Word16
<1>4. CutSigned8(Atoi(a)) \in -128 .. 127
  BY <1>1, Remainder DEF CutSigned8
<1>5. /\ Unsigned8(a) \in (0 .. 255) \cup {Refused}
      /\ Unsigned16(a) \in Word16 \cup {Refused}
      /\ Unsigned32(a) \in Nat \cup {Refused}
      /\ Signed8(a) \in (-128 .. 127) \cup {Refused}
  BY DEF Unsigned8, Unsigned16, Unsigned32, Signed8, Within, Word16
<1>6. Boolean(a) \in {0, 1} /\ NotZero(a) \in {0, 1}
  BY DEF Boolean, NotZero
<1> QED
  BY <1>1, <1>2, <1>3, <1>4, <1>5, <1>6

(* A number in range is read as it is.                                     *)
LEMMA ReaderKeeps ==
    ASSUME NEW v \in Int, v >= -128
    PROVE  /\ v \notin {NoNumber, Refused} /\ Atoi(v) = v
           /\ v \in 0 .. 255 => Cut8(v) = v /\ Unsigned8(v) = v
           /\ v \in Word16 => Cut16(v) = v /\ Unsigned16(v) = v
           /\ v \in -128 .. 127 => CutSigned8(v) = v /\ Signed8(v) = v
           /\ v \in {0, 1} => Boolean(v) = v /\ NotZero(v) = v
           /\ v \in Nat => Unsigned32(v) = v
<1>1. v \notin {NoNumber, Refused} /\ Atoi(v) = v
  BY DEF Atoi, Refused, NoNumber, TrueWord
<1>2. v \in 0 .. 255 => Cut8(v) = v
  BY Remainder DEF Cut8
<1>3. v \in Word16 => Cut16(v) = v
  BY Remainder DEF Cut16, Word16
<1>4. v \in -128 .. 127 => CutSigned8(v) = v
  BY Remainder DEF CutSigned8
<1>5. /\ v \in 0 .. 255 => Unsigned8(v) = v
      /\ v \in Word16 => Unsigned16(v) = v
      /\ v \in -128 .. 127 => Signed8(v) = v
      /\ v \in Nat => Unsigned32(v) = v
  BY DEF Unsigned8, Unsigned16, Unsigned32, Signed8, Within, Word16
<1>6. v \in {0, 1} => Boolean(v) = v /\ NotZero(v) = v
  BY <1>1 DEF Boolean, NotZero, TrueWord
<1> QED
  BY <1>1, <1>2, <1>3, <1>4, <1>5, <1>6

(* A byte is read as it is or refused.                                     *)
LEMMA ByteRead ==
    ASSUME NEW a \in Int
    PROVE  Unsigned8(a) = Refused \/ (Unsigned8(a) = a /\ a \in 0 .. 255)
  BY DEF Unsigned8, Within

(* A relay's two names are cut to their lengths, and not a second time.    *)
LEMMA RelayNames ==
    ASSUME NEW v \in Nat
    PROVE  /\ RenameRelay(v) \in Nat
           /\ RenameRelay(v) \div 100 < ShortLength /\ RenameRelay(v) % 100 < LongLength
           /\ v \div 100 < ShortLength /\ v % 100 < LongLength => RenameRelay(v) = v
  BY DEF RenameRelay, Names, Clip, ShortLength, LongLength

(* What can be stored for a setting.                                       *)
Storable(s) ==
    {v \in Int :
        /\ s = "relayName" => v \in Nat /\ v \div 100 < ShortLength /\ v % 100 < LongLength
        /\ s \in {"buttonImage", "locationType", "ledColor"} => v \in 0 .. 255
        /\ s \in Flags => v \in {0, 1}
        /\ s \in {"actionType", "uartNum"} => v \in 0 .. 2
        /\ s \in {"name", "homePort"} => v \in 0 .. 30
        /\ s = "homeButton" => v \in 0 .. RelayCount - 1
        /\ s = "startDelay" => v \in Word16
        /\ s = "ssid" => v \in 0 .. 32
        /\ s = "password" => v \in 0 .. 64
        /\ s \in {"port", "mqttPort", "keepAlive"} => v \in Word16 \ {0}
        /\ s \in {"ipAddress", "mmsi", "baudRate"} => v \in Nat
        /\ s = "timezone" => v \in -12 .. 14
        /\ s = "callSign" => v \in 0 .. 9
        /\ s = "brightness" => v >= 0 /\ v <= 100
        /\ s = "ledEnables" => v \in 0 .. 7
        /\ s \in {"goodTone", "badTone"} => v \in (0 .. 5) \cup {255}
        /\ s = "broker" => v \in 0 .. 63
        /\ s \in {"username", "mqttPassword", "deviceId", "prefix"} => v \in 0 .. 31
        /\ s = "sdSpeed" => v \in {4, 8, 12, 16, 20, 24}
        /\ s = "threshold" => v >= 0 /\ v < 1024}

(* A byte can be stored for an image, a colour or a type of location.      *)
LEMMA BytesStored ==
    ASSUME NEW s \in {"buttonImage", "locationType", "ledColor"}, NEW v \in 0 .. 255
    PROVE  v \in Storable(s)
  BY DEF Storable, Flags

(* What is asked for is a number the readers know.                         *)
LEMMA ReadableIs ==
    ASSUME NEW s, NEW a \in Readable(s)
    PROVE  a \in Int /\ a >= TrueWord
  BY DEF Readable

(* The reader and the setter of every setting, by way in.                  *)
LEMMA SerialIs ==
    ASSUME NEW a
    PROVE  /\ Serial("relayName", a) = SerialR6(a)
           /\ Serial("buttonImage", a) = SerialR7(a)
           /\ Serial("defaultState", a) = SerialR8(a)
           /\ Serial("actionType", a) = SerialR10(a)
           /\ Serial("name", a) = SerialC3(a)
           /\ Serial("homeButton", a) = SerialC5(a)
           /\ Serial("locationType", a) = SerialC7(a)
           /\ Serial("startDelay", a) = SerialC9(a)
           /\ Serial("bluetooth", a) = SerialC10(a)
           /\ Serial("wifi", a) = SerialC11(a)
           /\ Serial("accessMode", a) = SerialC12(a)
           /\ Serial("ssid", a) = SerialC13(a)
           /\ Serial("password", a) = SerialC14(a)
           /\ Serial("port", a) = SerialC15(a)
           /\ Serial("ipAddress", a) = SerialC17(a)
           /\ Serial("timezone", a) = SerialC20(a)
           /\ Serial("mmsi", a) = SerialC21(a)
           /\ Serial("callSign", a) = SerialC22(a)
           /\ Serial("homePort", a) = SerialC23(a)
           /\ Serial("ledColor", a) = SerialC24(a)
           /\ Serial("brightness", a) = SerialC25(a)
           /\ Serial("autoSwitch", a) = SerialC26(a)
           /\ Serial("ledEnables", a) = SerialC27(a)
           /\ Serial("goodTone", a) = SerialC28(a)
           /\ Serial("badTone", a) = SerialC28(a)
           /\ Serial("sdSpeed", a) = SerialC31(a)
           /\ Serial("threshold", a) = SerialC33(a)
           /\ Serial("panel", a) = SerialN1(a)
           /\ Serial("panelHardware", a) = SerialN2(a)
           /\ Serial("baudRate", a) = SerialN5(a)
           /\ Serial("uartNum", a) = SerialN6(a)
           /\ Serial("mqttEnabled", a) = SerialM0(a)
           /\ Serial("broker", a) = SerialM1(a)
           /\ Serial("mqttPort", a) = SerialM2(a)
           /\ Serial("username", a) = SerialM3(a)
           /\ Serial("mqttPassword", a) = SerialM4(a)
           /\ Serial("deviceId", a) = SerialM5(a)
           /\ Serial("discovery", a) = SerialM6(a)
           /\ Serial("keepAlive", a) = SerialM7(a)
           /\ Serial("prefix", a) = SerialM9(a)
  BY DEF Serial, SerialR, SerialC, SerialN, SerialM, Named, Mqtt, Panel

(* The same over HTTP.                                                     *)
LEMMA HttpIs ==
    ASSUME NEW a
    PROVE  /\ Http("relayName", a) = HttpR6(a)
           /\ Http("buttonImage", a) = HttpR7(a)
           /\ Http("defaultState", a) = HttpR8(a)
           /\ Http("actionType", a) = HttpR10(a)
           /\ Http("name", a) = HttpC3(a)
           /\ Http("homeButton", a) = HttpC5(a)
           /\ Http("locationType", a) = HttpC7(a)
           /\ Http("startDelay", a) = HttpC9(a)
           /\ Http("bluetooth", a) = HttpC10(a)
           /\ Http("wifi", a) = HttpC11(a)
           /\ Http("accessMode", a) = HttpC12(a)
           /\ Http("ssid", a) = HttpC13(a)
           /\ Http("password", a) = HttpC14(a)
           /\ Http("port", a) = HttpC15(a)
           /\ Http("ipAddress", a) = HttpC17(a)
           /\ Http("timezone", a) = HttpC20(a)
           /\ Http("mmsi", a) = HttpC21(a)
           /\ Http("callSign", a) = HttpC22(a)
           /\ Http("homePort", a) = HttpC23(a)
           /\ Http("ledColor", a) = HttpC24(a)
           /\ Http("brightness", a) = HttpC25(a)
           /\ Http("autoSwitch", a) = HttpC26(a)
           /\ Http("ledEnables", a) = HttpC27(a)
           /\ Http("goodTone", a) = HttpC28(a)
           /\ Http("badTone", a) = HttpC28(a)
           /\ Http("sdSpeed", a) = HttpC31(a)
           /\ Http("threshold", a) = Refused
           /\ Http("panel", a) = HttpN1(a)
           /\ Http("panelHardware", a) = HttpN2(a)
           /\ Http("baudRate", a) = HttpN5(a)
           /\ Http("uartNum", a) = HttpN6(a)
           /\ Http("mqttEnabled", a) = HttpM0(a)
           /\ Http("broker", a) = HttpM1(a)
           /\ Http("mqttPort", a) = HttpM2(a)
           /\ Http("username", a) = HttpM3(a)
           /\ Http("mqttPassword", a) = HttpM4(a)
           /\ Http("deviceId", a) = HttpM5(a)
           /\ Http("discovery", a) = HttpM6(a)
           /\ Http("keepAlive", a) = HttpM7(a)
           /\ Http("prefix", a) = HttpM9(a)
  BY DEF Http, HttpR, HttpC, HttpN, HttpM, Named, Mqtt, Panel

(* The same of a line of the file.                                         *)
LEMMA CardIs ==
    ASSUME NEW a
    PROVE  /\ Card("relayName", a) = CardR6(a)
           /\ Card("buttonImage", a) = CardR7(a)
           /\ Card("defaultState", a) = CardR8(a)
           /\ Card("actionType", a) = CardR10(a)
           /\ Card("name", a) = CardC3(a)
           /\ Card("homeButton", a) = CardC5(a)
           /\ Card("locationType", a) = CardC7(a)
           /\ Card("startDelay", a) = CardC9(a)
           /\ Card("bluetooth", a) = CardC10(a)
           /\ Card("wifi", a) = CardC11(a)
           /\ Card("accessMode", a) = CardC12(a)
           /\ Card("ssid", a) = CardC13(a)
           /\ Card("password", a) = CardC14(a)
           /\ Card("port", a) = CardC15(a)
           /\ Card("ipAddress", a) = CardC17(a)
           /\ Card("timezone", a) = CardC20(a)
           /\ Card("mmsi", a) = CardC21(a)
           /\ Card("callSign", a) = CardC22(a)
           /\ Card("homePort", a) = CardC23(a)
           /\ Card("ledColor", a) = CardC24(a)
           /\ Card("brightness", a) = CardC25(a)
           /\ Card("autoSwitch", a) = CardC26(a)
           /\ Card("ledEnables", a) = CardC27(a)
           /\ Card("goodTone", a) = CardC28(a)
           /\ Card("badTone", a) = CardC28(a)
           /\ Card("sdSpeed", a) = CardC31(a)
           /\ Card("threshold", a) = CardC33(a)
  BY DEF Card

(* What each way in gives for what can be asked for: what can be stored,  *)
(* or a refusal.                                                           *)
LEMMA SerialStores ==
    ASSUME NEW s \in Setting \ Auth, NEW a \in Readable(s)
    PROVE  Serial(s, a) \in Storable(s) \cup {Refused}
<1>1. CASE s = "relayName"
  BY <1>1, SerialIs, RelayNames
     DEF Storable, Readable, Texts, Flags, Word16, SerialR6
<1>2. CASE s = "buttonImage"
  <2>1. Serial(s, a) = SerialR7(a)
    BY <1>2, SerialIs
  <2>2. SerialR7(a) \in (0 .. 255) \cup {Refused}
    BY ReadableIs, ReaderGives DEF SerialR7, SetButtonColor, Within
  <2> QED
    BY <1>2, <2>1, <2>2, BytesStored
<1>3. CASE s \in {"locationType", "ledColor"}
  <2>1. Serial(s, a) \in {SerialC7(a), SerialC24(a)}
    BY <1>3, SerialIs
  <2>2. {SerialC7(a), SerialC24(a)} \subseteq (0 .. 255) \cup {Refused}
    BY ReadableIs, ReaderGives DEF SerialC7, SetLocationType, SerialC24, SetLedColor
  <2> QED
    BY <1>3, <2>1, <2>2, BytesStored
<1>4. CASE s \in {"defaultState", "bluetooth", "wifi", "autoSwitch", "mqttEnabled",
                  "discovery", "panel", "panelHardware"}
  BY <1>4, SerialIs, ReaderGives
     DEF Storable, Readable, Texts, Flags, Word16, SerialR8, SetRelayDefaultState,
      SerialC10, SerialC11, SerialC26, SetLedAutoSwitch, SerialM0, SerialM6, SerialN1,
      SetNextionEnabled, SerialN2, SetNextionHardwareSerial
<1>5. CASE s \in {"accessMode", "actionType"}
  BY <1>5, SerialIs, ReaderGives
     DEF Storable, Readable, Texts, Flags, Word16, SerialC12, SetWifiAccessMode, Within,
      SerialR10, SetRelayActionType
<1>6. CASE s \in {"name", "homePort", "callSign"}
  BY <1>6, SerialIs
     DEF Storable, Readable, Texts, Flags, Word16, SerialC3, Rename, NameLength, Clip,
      SerialC23, SetHomePort, HomePortLength, SerialC22, SetCallSign, CallSignLength
<1>7. CASE s = "homeButton"
  BY <1>7, SerialIs, ReaderGives
     DEF Storable, Readable, Texts, Flags, Word16, SerialC5, MapHomeButton, Within
<1>8. CASE s = "startDelay"
  BY <1>8, SerialIs, ReaderGives
     DEF Storable, Readable, Texts, Flags, Word16, SerialC9, SetSoundDelayStart
<1>9. CASE s \in {"ssid", "password"}
  BY <1>9, SerialIs
     DEF Storable, Readable, Texts, Flags, Word16, SerialC13, SetWifiSsid, Within,
      SerialC14, SetWifiPassword
<1>10. CASE s = "port"
  BY <1>10, SerialIs, ReaderGives
     DEF Storable, Readable, Texts, Flags, Word16, SerialC15, SetWifiPort
<1>11. CASE s \in {"mqttPort", "keepAlive"}
  BY <1>11, SerialIs, ReaderGives
     DEF Storable, Readable, Texts, Flags, Word16, SerialM2, MqttNumber, SerialM7
<1>12. CASE s \in {"ipAddress", "mmsi"}
  BY <1>12, SerialIs
     DEF Storable, Readable, Texts, Flags, Word16, SerialC17, SetWifiIpAddress,
      SerialC21, SetMmsi
<1>13. CASE s = "baudRate"
  BY <1>13, SerialIs, ReaderGives
     DEF Storable, Readable, Texts, Flags, Word16, SerialN5, SetNextionBaudRate
<1>14. CASE s = "timezone"
  BY <1>14, SerialIs, ReaderGives
     DEF Storable, Readable, Texts, Flags, Word16, SerialC20, SetTimezoneOffset, Within
<1>15. CASE s = "brightness"
  BY <1>15, SerialIs, ByteRead
     DEF Storable, Readable, Texts, Flags, Word16, SerialC25, SetLedBrightness
<1>16. CASE s = "ledEnables"
  BY <1>16, SerialIs
     DEF Storable, Readable, Texts, Flags, Word16, SerialC27, SetLedEnableStates
<1>17. CASE s \in {"goodTone", "badTone"}
  BY <1>17, SerialIs, ReaderGives
     DEF Storable, Readable, Texts, Flags, Word16, SerialC28, SetControlPanelTones,
      Within
<1>18. CASE s \in {"broker", "username", "mqttPassword", "deviceId", "prefix"}
  BY <1>18, SerialIs
     DEF Storable, Readable, Texts, Flags, Word16, SerialM1, MqttText, BrokerLength,
      Clip, SerialM3, MqttTextLength, SerialM4, SerialM5, SerialM9
<1>19. CASE s \in {"uartNum", "sdSpeed"}
  BY <1>19, SerialIs, ReaderGives
     DEF Storable, Readable, Texts, Flags, Word16, SerialN6, SetNextionUartNum, Within,
      SerialC31, SetSdCardInitializeSpeed
<1>20. CASE s = "threshold"
  BY <1>20, SerialIs, ReaderGives
     DEF Storable, Readable, Texts, Flags, Word16, SerialC33, SetLightSensorThreshold
<1> QED
  BY <1>1, <1>2, <1>3, <1>4, <1>5, <1>6, <1>7, <1>8, <1>9, <1>10, <1>11, <1>12,
      <1>13, <1>14, <1>15, <1>16, <1>17, <1>18, <1>19, <1>20
  DEF Setting, Exported, Named, Mqtt, Panel, Auth

LEMMA HttpStores ==
    ASSUME NEW s \in Setting \ Auth, NEW a \in Readable(s)
    PROVE  Http(s, a) \in Storable(s) \cup {Refused, Ignored}
<1>1. CASE s = "relayName"
  BY <1>1, HttpIs, RelayNames
     DEF Storable, Readable, Texts, Flags, Word16, HttpR6
<1>2. CASE s = "buttonImage"
  <2>1. Http(s, a) = HttpR7(a)
    BY <1>2, HttpIs
  <2>2. HttpR7(a) \in (0 .. 255) \cup {Refused}
    BY ReadableIs, ReaderGives DEF HttpR7, SetButtonColor
  <2> QED
    BY <1>2, <2>1, <2>2, BytesStored
<1>3. CASE s \in {"locationType", "ledColor"}
  <2>1. Http(s, a) \in {HttpC7(a), HttpC24(a)}
    BY <1>3, HttpIs
  <2>2. {HttpC7(a), HttpC24(a)} \subseteq (0 .. 255) \cup {Refused}
    BY ReadableIs, ReaderGives DEF HttpC7, SetLocationType, HttpC24, SetLedColor
  <2> QED
    BY <1>3, <2>1, <2>2, BytesStored
<1>4. CASE s \in {"defaultState", "bluetooth", "wifi", "autoSwitch", "mqttEnabled",
                  "discovery", "panel", "panelHardware"}
  BY <1>4, HttpIs, ReaderGives
     DEF Storable, Readable, Texts, Flags, Word16, HttpR8, SetRelayDefaultState,
      HttpC10, HttpC11, HttpC26, SetLedAutoSwitch, HttpM0, HttpM6, HttpN1,
      SetNextionEnabled, HttpN2, SetNextionHardwareSerial
<1>5. CASE s \in {"accessMode", "actionType"}
  BY <1>5, HttpIs, ReaderGives
     DEF Storable, Readable, Texts, Flags, Word16, HttpC12, SetWifiAccessMode, Within,
      HttpR10, SetRelayActionType
<1>6. CASE s \in {"name", "homePort", "callSign"}
  BY <1>6, HttpIs
     DEF Storable, Readable, Texts, Flags, Word16, HttpC3, Rename, NameLength, Clip,
      HttpC23, HomePortLength, SetHomePort, HttpC22, CallSignLength, SetCallSign
<1>7. CASE s = "homeButton"
  BY <1>7, HttpIs, ReaderGives
     DEF Storable, Readable, Texts, Flags, Word16, HttpC5, MapHomeButton, Within
<1>8. CASE s = "startDelay"
  BY <1>8, HttpIs, ReaderGives
     DEF Storable, Readable, Texts, Flags, Word16, HttpC9, SetSoundDelayStart
<1>9. CASE s \in {"ssid", "password"}
  BY <1>9, HttpIs
     DEF Storable, Readable, Texts, Flags, Word16, HttpC13, SetWifiSsid, Within,
      HttpC14, SetWifiPassword
<1>10. CASE s = "port"
  BY <1>10, HttpIs, ReaderGives
     DEF Storable, Readable, Texts, Flags, Word16, HttpC15, SetWifiPort
<1>11. CASE s \in {"mqttPort", "keepAlive"}
  BY <1>11, HttpIs, ReaderGives
     DEF Storable, Readable, Texts, Flags, Word16, HttpM2, KeptIfZero, HttpM7
<1>12. CASE s \in {"ipAddress", "mmsi"}
  BY <1>12, HttpIs
     DEF Storable, Readable, Texts, Flags, Word16, HttpC17, SetWifiIpAddress, HttpC21,
      SetMmsi
<1>13. CASE s = "baudRate"
  BY <1>13, HttpIs, ReaderGives
     DEF Storable, Readable, Texts, Flags, Word16, HttpN5, SetNextionBaudRate
<1>14. CASE s = "timezone"
  BY <1>14, HttpIs, ReaderGives
     DEF Storable, Readable, Texts, Flags, Word16, HttpC20, SetTimezoneOffset, Within
<1>15. CASE s = "brightness"
  BY <1>15, HttpIs, ByteRead
     DEF Storable, Readable, Texts, Flags, Word16, HttpC25, SetLedBrightness
<1>16. CASE s = "ledEnables"
  BY <1>16, HttpIs
     DEF Storable, Readable, Texts, Flags, Word16, HttpC27, SetLedEnableStates
<1>17. CASE s \in {"goodTone", "badTone"}
  BY <1>17, HttpIs, ReaderGives
     DEF Storable, Readable, Texts, Flags, Word16, HttpC28, SetControlPanelTones, Within
<1>18. CASE s \in {"broker", "username", "mqttPassword", "deviceId", "prefix"}
  BY <1>18, HttpIs
     DEF Storable, Readable, Texts, Flags, Word16, HttpM1, Clip, BrokerLength, HttpM3,
      MqttTextLength, HttpM4, HttpM5, HttpM9
<1>19. CASE s \in {"uartNum", "sdSpeed"}
  BY <1>19, HttpIs, ReaderGives
     DEF Storable, Readable, Texts, Flags, Word16, HttpN6, SetNextionUartNum, Within,
      HttpC31, SetSdCardInitializeSpeed
<1>20. CASE s = "threshold"
  BY <1>20, HttpIs
     DEF Storable, Readable, Texts, Flags, Word16
<1> QED
  BY <1>1, <1>2, <1>3, <1>4, <1>5, <1>6, <1>7, <1>8, <1>9, <1>10, <1>11, <1>12,
      <1>13, <1>14, <1>15, <1>16, <1>17, <1>18, <1>19, <1>20
  DEF Setting, Exported, Named, Mqtt, Panel, Auth

LEMMA CardStores ==
    ASSUME NEW s \in Exported \cup {"sdSpeed", "threshold"}, NEW a \in Readable(s)
    PROVE  Card(s, a) \in Storable(s) \cup {Refused}
<1>1. CASE s = "relayName"
  BY <1>1, CardIs, RelayNames
     DEF Storable, Readable, Texts, Flags, Word16, CardR6
<1>2. CASE s = "buttonImage"
  <2>1. Card(s, a) = CardR7(a)
    BY <1>2, CardIs
  <2>2. CardR7(a) \in (0 .. 255) \cup {Refused}
    BY ReadableIs, ReaderGives DEF CardR7, SetButtonColor
  <2> QED
    BY <1>2, <2>1, <2>2, BytesStored
<1>3. CASE s \in {"locationType", "ledColor"}
  <2>1. Card(s, a) \in {CardC7(a), CardC24(a)}
    BY <1>3, CardIs
  <2>2. {CardC7(a), CardC24(a)} \subseteq (0 .. 255) \cup {Refused}
    BY ReadableIs, ReaderGives DEF CardC7, SetLocationType, CardC24, SetLedColor
  <2> QED
    BY <1>3, <2>1, <2>2, BytesStored
<1>4. CASE s \in {"defaultState", "bluetooth", "wifi", "autoSwitch"}
  BY <1>4, CardIs, ReaderGives
     DEF Storable, Readable, Texts, Flags, Word16, CardR8, SetRelayDefaultState,
      CardC10, CardC11, CardC26, SetLedAutoSwitch
<1>5. CASE s \in {"accessMode", "actionType"}
  BY <1>5, CardIs, ReaderGives
     DEF Storable, Readable, Texts, Flags, Word16, CardC12, SetWifiAccessMode, Within,
      CardR10, SetRelayActionType
<1>6. CASE s \in {"name", "homePort", "callSign"}
  BY <1>6, CardIs
     DEF Storable, Readable, Texts, Flags, Word16, CardC3, Rename, NameLength, Clip,
      CardC23, SetHomePort, HomePortLength, CardC22, SetCallSign, CallSignLength
<1>7. CASE s = "homeButton"
  BY <1>7, CardIs, ReaderGives
     DEF Storable, Readable, Texts, Flags, Word16, CardC5, MapHomeButton, Within
<1>8. CASE s = "startDelay"
  BY <1>8, CardIs, ReaderGives
     DEF Storable, Readable, Texts, Flags, Word16, CardC9, SetSoundDelayStart
<1>9. CASE s \in {"ssid", "password"}
  BY <1>9, CardIs
     DEF Storable, Readable, Texts, Flags, Word16, CardC13, SetWifiSsid, Within,
      CardC14, SetWifiPassword
<1>10. CASE s = "port"
  BY <1>10, CardIs, ReaderGives
     DEF Storable, Readable, Texts, Flags, Word16, CardC15, SetWifiPort
<1>11. CASE s \in {"ipAddress", "mmsi"}
  BY <1>11, CardIs
     DEF Storable, Readable, Texts, Flags, Word16, CardC17, SetWifiIpAddress, CardC21,
      SetMmsi
<1>12. CASE s = "timezone"
  <2>1. Card(s, a) \in (-12 .. 14) \cup {Refused}
    BY <1>12, CardIs DEF CardC20, SetTimezoneOffset, Within
  <2> QED
    BY <1>12, <2>1 DEF Storable, Flags
<1>13. CASE s = "brightness"
  <2>1. Card(s, a) = CardC25(a)
    BY <1>13, CardIs
  <2>2. CardC25(a) \in (0 .. 100) \cup {Refused}
    <3>1. Cut8(Atoi(a)) \in 0 .. 255
      BY ReadableIs, ReaderGives
    <3> QED
      BY <3>1 DEF CardC25, SetLedBrightness
  <2> QED
    BY <1>13, <2>1, <2>2 DEF Storable, Flags
<1>14. CASE s = "ledEnables"
  BY <1>14, CardIs
     DEF Storable, Readable, Texts, Flags, Word16, CardC27, SetLedEnableStates
<1>15. CASE s \in {"goodTone", "badTone"}
  BY <1>15, CardIs, ReaderGives
     DEF Storable, Readable, Texts, Flags, Word16, CardC28, SetControlPanelTones, Within
<1>16. CASE s = "sdSpeed"
  BY <1>16, CardIs, ReaderGives
     DEF Storable, Readable, Texts, Flags, Word16, CardC31, SetSdCardInitializeSpeed,
      Within
<1>17. CASE s = "threshold"
  BY <1>17, CardIs, ReaderGives
     DEF Storable, Readable, Texts, Flags, Word16, CardC33, SetLightSensorThreshold
<1> QED
  BY <1>1, <1>2, <1>3, <1>4, <1>5, <1>6, <1>7, <1>8, <1>9, <1>10, <1>11, <1>12,
      <1>13, <1>14, <1>15, <1>16, <1>17
  DEF Setting, Exported, Named, Mqtt, Panel, Auth

(* What is stored comes back from each way in as it is, or is refused.     *)
LEMMA SerialKeeps ==
    ASSUME NEW s \in SerialListed \ {"buttonImage"}, NEW v \in Storable(s)
    PROVE  Serial(s, v) \in {v, Refused}
<1>1. CASE s = "relayName"
  BY <1>1, SerialIs, RelayNames, ReaderKeeps
     DEF Storable, Flags, Word16, SerialR6
<1>2. CASE s \in {"locationType", "ledColor"}
  BY <1>2, SerialIs, ReaderKeeps
     DEF Storable, Flags, Word16, SerialC7, SetLocationType, SerialC24, SetLedColor
<1>3. CASE s \in {"defaultState", "bluetooth", "wifi", "autoSwitch", "mqttEnabled",
                  "discovery", "panel", "panelHardware"}
  BY <1>3, SerialIs, ReaderKeeps
     DEF Storable, Flags, Word16, SerialR8, SetRelayDefaultState, SerialC10, SerialC11,
      SerialC26, SetLedAutoSwitch, SerialM0, SerialM6, SerialN1, SetNextionEnabled,
      SerialN2, SetNextionHardwareSerial
<1>4. CASE s \in {"accessMode", "actionType"}
  BY <1>4, SerialIs, ReaderKeeps
     DEF Storable, Flags, Word16, SerialC12, SetWifiAccessMode, Within, SerialR10,
      SetRelayActionType
<1>5. CASE s \in {"name", "homePort", "callSign"}
  BY <1>5, SerialIs
     DEF Storable, Flags, Word16, SerialC3, Rename, NameLength, Clip, SerialC23,
      SetHomePort, HomePortLength, SerialC22, SetCallSign, CallSignLength
<1>6. CASE s = "homeButton"
  BY <1>6, SerialIs, ReaderKeeps, RelayCountAssumption
     DEF Storable, Flags, Word16, SerialC5, MapHomeButton, Within
<1>7. CASE s = "startDelay"
  BY <1>7, SerialIs, ReaderKeeps
     DEF Storable, Flags, Word16, SerialC9, SetSoundDelayStart
<1>8. CASE s \in {"ssid", "password"}
  BY <1>8, SerialIs
     DEF Storable, Flags, Word16, SerialC13, SetWifiSsid, Within, SerialC14,
      SetWifiPassword
<1>9. CASE s = "port"
  BY <1>9, SerialIs, ReaderKeeps
     DEF Storable, Flags, Word16, SerialC15, SetWifiPort
<1>10. CASE s \in {"mqttPort", "keepAlive"}
  BY <1>10, SerialIs, ReaderKeeps
     DEF Storable, Flags, Word16, SerialM2, MqttNumber, SerialM7
<1>11. CASE s \in {"ipAddress", "mmsi"}
  BY <1>11, SerialIs, ReaderKeeps
     DEF Storable, Flags, Word16, SerialC17, SetWifiIpAddress, SerialC21, SetMmsi
<1>12. CASE s = "baudRate"
  BY <1>12, SerialIs, ReaderKeeps
     DEF Storable, Flags, Word16, SerialN5, SetNextionBaudRate
<1>13. CASE s = "timezone"
  BY <1>13, SerialIs, ReaderKeeps
     DEF Storable, Flags, Word16, SerialC20, SetTimezoneOffset, Within
<1>14. CASE s = "brightness"
  BY <1>14, SerialIs, ReaderKeeps
     DEF Storable, Flags, Word16, SerialC25, SetLedBrightness
<1>15. CASE s = "ledEnables"
  BY <1>15, SerialIs, ReaderKeeps
     DEF Storable, Flags, Word16, SerialC27, SetLedEnableStates
<1>16. CASE s \in {"goodTone", "badTone"}
  BY <1>16, SerialIs, ReaderKeeps
     DEF Storable, Flags, Word16, SerialC28, SetControlPanelTones, Within
<1>17. CASE s \in {"broker", "username", "mqttPassword", "deviceId", "prefix"}
  BY <1>17, SerialIs
     DEF Storable, Flags, Word16, SerialM1, MqttText, BrokerLength, Clip, SerialM3,
      MqttTextLength, SerialM4, SerialM5, SerialM9
<1>18. CASE s \in {"uartNum", "sdSpeed"}
  BY <1>18, SerialIs, ReaderKeeps
     DEF Storable, Flags, Word16, SerialN6, SetNextionUartNum, Within, SerialC31,
      SetSdCardInitializeSpeed
<1>19. CASE s = "threshold"
  BY <1>19, SerialIs, ReaderKeeps
     DEF Storable, Flags, Word16, SerialC33, SetLightSensorThreshold
<1> QED
  BY <1>1, <1>2, <1>3, <1>4, <1>5, <1>6, <1>7, <1>8, <1>9, <1>10, <1>11, <1>12,
      <1>13, <1>14, <1>15, <1>16, <1>17, <1>18, <1>19
  DEF SerialListed, ListedC1, ListedN0, QueriedM, ListedR5, Exported, Named, Mqtt, Panel

LEMMA HttpKeeps ==
    ASSUME NEW s \in HttpListed, NEW v \in Storable(s)
    PROVE  Http(s, v) \in {v, Refused}
<1>1. CASE s = "relayName"
  BY <1>1, HttpIs, RelayNames, ReaderKeeps
     DEF Storable, Flags, Word16, HttpR6
<1>2. CASE s = "buttonImage"
  BY <1>2, HttpIs, ReaderKeeps
     DEF Storable, Flags, Word16, HttpR7, SetButtonColor
<1>3. CASE s \in {"locationType", "ledColor"}
  BY <1>3, HttpIs, ReaderKeeps
     DEF Storable, Flags, Word16, HttpC7, SetLocationType, HttpC24, SetLedColor
<1>4. CASE s \in {"defaultState", "bluetooth", "wifi", "autoSwitch", "mqttEnabled",
                  "discovery"}
  BY <1>4, HttpIs, ReaderKeeps
     DEF Storable, Flags, Word16, HttpR8, SetRelayDefaultState, HttpC10, HttpC11,
      HttpC26, SetLedAutoSwitch, HttpM0, HttpM6
<1>5. CASE s \in {"accessMode", "actionType"}
  BY <1>5, HttpIs, ReaderKeeps
     DEF Storable, Flags, Word16, HttpC12, SetWifiAccessMode, Within, HttpR10,
      SetRelayActionType
<1>6. CASE s \in {"name", "homePort", "callSign"}
  BY <1>6, HttpIs
     DEF Storable, Flags, Word16, HttpC3, Rename, NameLength, Clip, HttpC23,
      HomePortLength, SetHomePort, HttpC22, CallSignLength, SetCallSign
<1>7. CASE s = "startDelay"
  BY <1>7, HttpIs, ReaderKeeps
     DEF Storable, Flags, Word16, HttpC9, SetSoundDelayStart
<1>8. CASE s \in {"ssid", "password"}
  BY <1>8, HttpIs
     DEF Storable, Flags, Word16, HttpC13, SetWifiSsid, Within, HttpC14, SetWifiPassword
<1>9. CASE s = "port"
  BY <1>9, HttpIs, ReaderKeeps
     DEF Storable, Flags, Word16, HttpC15, SetWifiPort
<1>10. CASE s \in {"mqttPort", "keepAlive"}
  BY <1>10, HttpIs, ReaderKeeps
     DEF Storable, Flags, Word16, HttpM2, KeptIfZero, HttpM7
<1>11. CASE s = "mmsi"
  BY <1>11, HttpIs, ReaderKeeps
     DEF Storable, Flags, Word16, HttpC21, SetMmsi
<1>12. CASE s = "timezone"
  BY <1>12, HttpIs, ReaderKeeps
     DEF Storable, Flags, Word16, HttpC20, SetTimezoneOffset, Within
<1>13. CASE s = "brightness"
  BY <1>13, HttpIs, ReaderKeeps
     DEF Storable, Flags, Word16, HttpC25, SetLedBrightness
<1>14. CASE s = "ledEnables"
  BY <1>14, HttpIs, ReaderKeeps
     DEF Storable, Flags, Word16, HttpC27, SetLedEnableStates
<1>15. CASE s \in {"goodTone", "badTone"}
  BY <1>15, HttpIs, ReaderKeeps
     DEF Storable, Flags, Word16, HttpC28, SetControlPanelTones, Within
<1>16. CASE s \in {"broker", "username", "deviceId", "prefix"}
  BY <1>16, HttpIs
     DEF Storable, Flags, Word16, HttpM1, Clip, BrokerLength, HttpM3, MqttTextLength,
      HttpM5, HttpM9
<1>17. CASE s = "sdSpeed"
  BY <1>17, HttpIs, ReaderKeeps
     DEF Storable, Flags, Word16, HttpC31, SetSdCardInitializeSpeed, Within
<1> QED
  BY <1>1, <1>2, <1>3, <1>4, <1>5, <1>6, <1>7, <1>8, <1>9, <1>10, <1>11, <1>12,
      <1>13, <1>14, <1>15, <1>16, <1>17
  DEF HttpListed, StatusC, StatusM, StatusR, Exported, Named, Mqtt, Panel

(* The status means by its words what the hub takes them for, the switches *)
(* of MQTT left aside, and no query is too short for what it shows.        *)
LEMMA ShownKeeps ==
    ASSUME NEW s \in HttpListed \ MqttSwitches, NEW v \in Storable(s)
    PROVE  /\ Http(s, StatusText(s, v)) \in {v, Refused}
           /\ s \notin LongTexts => Queried(s, StatusText(s, v)) = StatusText(s, v)
<1>1. CASE s \in {"bluetooth", "wifi", "autoSwitch"}
  <2>1. /\ v \in {0, 1}
        /\ \A a : Http(s, a) = Boolean(a)
    BY <1>1, HttpIs DEF Storable, Flags, HttpC10, HttpC11, HttpC26, SetLedAutoSwitch
  <2>2. Boolean(TrueWord) = 1 /\ Boolean(NoNumber) = 0
    BY DEF Boolean, TrueWord, NoNumber
  <2>3. StatusText(s, v) = IF v = 1 THEN TrueWord ELSE NoNumber
    BY <1>1 DEF StatusText, StatusWords
  <2> QED
    BY <1>1, <2>1, <2>2, <2>3 DEF Queried, Texts
<1>2. CASE s \notin {"bluetooth", "wifi", "autoSwitch"}
  <2>1. StatusText(s, v) = v
    BY <1>2 DEF StatusText, StatusWords
  <2>2. s \in Texts \ LongTexts => v \in Int /\ v <= 61
    BY DEF Storable, Texts, LongTexts, Flags, HttpListed, StatusC, StatusM, StatusR,
       Exported, Named, Mqtt
  <2>3. s \notin LongTexts => Queried(s, v) = v
    BY <2>2 DEF Queried, Clip, QueryTextLength
  <2> QED
    BY <2>1, <2>3, HttpKeeps
<1> QED
  BY <1>1, <1>2

LEMMA CardKeeps ==
    ASSUME NEW s \in Exported, NEW v \in Storable(s)
    PROVE  Card(s, v) = v
<1>1. CASE s = "relayName"
  BY <1>1, CardIs, RelayNames, ReaderKeeps
     DEF Storable, Flags, Word16, CardR6
<1>2. CASE s = "buttonImage"
  BY <1>2, CardIs, ReaderKeeps
     DEF Storable, Flags, Word16, CardR7, SetButtonColor
<1>3. CASE s \in {"locationType", "ledColor"}
  BY <1>3, CardIs, ReaderKeeps
     DEF Storable, Flags, Word16, CardC7, SetLocationType, CardC24, SetLedColor
<1>4. CASE s \in {"defaultState", "bluetooth", "wifi", "autoSwitch"}
  BY <1>4, CardIs, ReaderKeeps
     DEF Storable, Flags, Word16, CardR8, SetRelayDefaultState, CardC10, CardC11,
      CardC26, SetLedAutoSwitch
<1>5. CASE s \in {"accessMode", "actionType"}
  BY <1>5, CardIs, ReaderKeeps
     DEF Storable, Flags, Word16, CardC12, SetWifiAccessMode, Within, CardR10,
      SetRelayActionType
<1>6. CASE s \in {"name", "homePort", "callSign"}
  BY <1>6, CardIs
     DEF Storable, Flags, Word16, CardC3, Rename, NameLength, Clip, CardC23,
      SetHomePort, HomePortLength, CardC22, SetCallSign, CallSignLength
<1>7. CASE s = "homeButton"
  BY <1>7, CardIs, ReaderKeeps, RelayCountAssumption
     DEF Storable, Flags, Word16, CardC5, MapHomeButton, Within
<1>8. CASE s = "startDelay"
  BY <1>8, CardIs, ReaderKeeps
     DEF Storable, Flags, Word16, CardC9, SetSoundDelayStart
<1>9. CASE s \in {"ssid", "password"}
  BY <1>9, CardIs
     DEF Storable, Flags, Word16, CardC13, SetWifiSsid, Within, CardC14, SetWifiPassword
<1>10. CASE s = "port"
  BY <1>10, CardIs, ReaderKeeps
     DEF Storable, Flags, Word16, CardC15, SetWifiPort
<1>11. CASE s \in {"ipAddress", "mmsi"}
  BY <1>11, CardIs, ReaderKeeps
     DEF Storable, Flags, Word16, CardC17, SetWifiIpAddress, CardC21, SetMmsi
<1>12. CASE s = "timezone"
  BY <1>12, CardIs, ReaderKeeps
     DEF Storable, Flags, Word16, CardC20, SetTimezoneOffset, Within
<1>13. CASE s = "brightness"
  BY <1>13, CardIs, ReaderKeeps
     DEF Storable, Flags, Word16, CardC25, SetLedBrightness
<1>14. CASE s = "ledEnables"
  BY <1>14, CardIs, ReaderKeeps
     DEF Storable, Flags, Word16, CardC27, SetLedEnableStates
<1>15. CASE s \in {"goodTone", "badTone"}
  BY <1>15, CardIs, ReaderKeeps
     DEF Storable, Flags, Word16, CardC28, SetControlPanelTones, Within
<1> QED
  BY <1>1, <1>2, <1>3, <1>4, <1>5, <1>6, <1>7, <1>8, <1>9, <1>10, <1>11, <1>12,
      <1>13, <1>14, <1>15
  DEF Exported, Named, Mqtt, Panel

-----------------------------------------------------------------------------
(* The relays' lines of the file, one after the other.                     *)

(* One line.                                                               *)
LineApplied(lines, pins, r) ==
    IF r \in DOMAIN lines THEN PinLine(pins, r, lines[r]) ELSE pins

(* What is applied line by line is there, and follows its definition.      *)
LEMMA LinesInTurn ==
    ASSUME NEW lines, NEW pins
    PROVE  LinesApplied(lines, pins) =
             [n \in 0 .. Len(RelayOrder) |->
                IF n = 0 THEN pins
                ELSE LineApplied(lines, LinesApplied(lines, pins)[n - 1], RelayOrder[n])]
<1> DEFINE N == Len(RelayOrder)
           Upto(g, k) == g = [n \in 0 .. k |->
                                IF n = 0 THEN pins
                                ELSE LineApplied(lines, g[n - 1], RelayOrder[n])]
           Bad == {k \in 0 .. N : \A g : ~Upto(g, k)}
<1>0. N \in Nat
  BY SettingsAssumption, LenProperties
<1> HIDE DEF N
<1>1. ASSUME Bad # {}
      PROVE  FALSE
  <2>1. Bad \subseteq Nat
    BY <1>0
  <2>2. PICK k \in Bad : \A m \in Bad : k <= m
    BY <1>1, <2>1, LeastNumber
  <2>3. k \in 0 .. N
    BY <2>2
  <2>4. CASE k = 0
    <3>1. Upto([n \in 0 .. 0 |-> pins], 0)
      OBVIOUS
    <3> QED
      BY <2>2, <2>4, <3>1
  <2>5. CASE k # 0
    <3>1. k - 1 \in 0 .. N /\ ~(k <= k - 1)
      BY <1>0, <2>3, <2>5
    <3>2. PICK g : Upto(g, k - 1)
      BY <2>2, <3>1
    <3> DEFINE h == [n \in 0 .. k |-> IF n = k THEN LineApplied(lines, g[k - 1], RelayOrder[k])
                                              ELSE g[n]]
    <3>3. \A n \in 0 .. k :
             h[n] = IF n = 0 THEN pins ELSE LineApplied(lines, h[n - 1], RelayOrder[n])
      BY <1>0, <2>3, <2>5, <3>2
    <3>4. Upto(h, k)
      BY <3>3
    <3> QED
      BY <2>2, <3>4
  <2> QED
    BY <2>4, <2>5
<1>2. N \in 0 .. N /\ N \notin Bad
  BY <1>0, <1>1
<1>3. \E g : Upto(g, N)
  BY <1>2
<1>4. LinesApplied(lines, pins) = CHOOSE g : Upto(g, N)
  BY DEF LinesApplied, LineApplied, N
<1> QED
  BY <1>3, <1>4 DEF N

(* What every line keeps holds from the line on at which it holds first.   *)
LEMMA LinesKeep ==
    ASSUME NEW Good, NEW lines, NEW pins, NEW first \in 0 .. Len(RelayOrder),
           LinesApplied(lines, pins)[first] \in Good,
           \A some \in Good : \A r \in Relay : LineApplied(lines, some, r) \in Good
    PROVE  \A n \in first .. Len(RelayOrder) : LinesApplied(lines, pins)[n] \in Good
<1> DEFINE N == Len(RelayOrder)
           after == LinesApplied(lines, pins)
           Bad == {k \in first .. N : after[k] \notin Good}
<1>0. N \in Nat /\ first \in 0 .. N /\ \A n \in 1 .. N : RelayOrder[n] \in Relay
  BY SettingsAssumption, LenProperties, ElementOfSeq
<1>1. /\ after[first] \in Good
      /\ \A n \in 1 .. N : after[n] = LineApplied(lines, after[n - 1], RelayOrder[n])
  BY <1>0, LinesInTurn
<1> HIDE DEF N, after
<1>2. ASSUME Bad # {}
      PROVE  FALSE
  <2>1. Bad \subseteq Nat
    BY <1>0
  <2>2. PICK k \in Bad : \A m \in Bad : k <= m
    BY <1>2, <2>1, LeastNumber
  <2>3. k \in first .. N /\ after[k] \notin Good
    BY <2>2
  <2>4. k # first
    BY <1>1, <2>3
  <2>5. k - 1 \in first .. N /\ ~(k <= k - 1) /\ k \in 1 .. N
    BY <1>0, <2>3, <2>4
  <2>6. after[k - 1] \in Good
    BY <2>2, <2>5
  <2>7. after[k] = LineApplied(lines, after[k - 1], RelayOrder[k])
    BY <1>1, <2>5
  <2> QED
    BY <1>0, <2>3, <2>5, <2>6, <2>7
<1> QED
  BY <1>2 DEF N, after

(* What holds of the first table, and what every line keeps, the whole     *)
(* file keeps.                                                             *)
LEMMA FileKeeps ==
    ASSUME NEW Good, NEW lines, NEW pins \in Good,
           \A some \in Good : \A r \in Relay : LineApplied(lines, some, r) \in Good
    PROVE  LoadedPins(lines, pins) \in Good
<1>1. Len(RelayOrder) \in Nat
  BY SettingsAssumption, LenProperties
<1>2. LinesApplied(lines, pins)[0] = pins
  BY <1>1, LinesInTurn
<1> QED
  BY <1>1, <1>2, LinesKeep DEF LoadedPins

(* A line of the file gives a relay a pin that nobody has, or none.        *)
LEMMA LineFits ==
    ASSUME NEW pins, PinsFit(pins), NEW r \in Relay, NEW p \in PinValue
    PROVE  /\ PinsFit(PinLine(pins, r, p))
           /\ \A f \in Part :
                 \/ PinLine(pins, r, p)[f] \in {pins[f], PinDisabled}
                 \/ \A i \in Index : i < count =>
                       \A s \in Slot : sensors[i].pins[s] # PinLine(pins, r, p)[f]
<1> DEFINE new == [pins EXCEPT ![r] = p]
<1>1. r \in Part
  BY DEF Part
<1>2. CASE PinLine(pins, r, p) = pins
  BY <1>2
<1>3. CASE PinLine(pins, r, p) # pins
  <2>1. /\ PinLine(pins, r, p) = new
        /\ p # PinDisabled =>
              /\ Drivable(p)
              /\ \A f \in Part : pins[f] # p
              /\ \A i \in Index : i < count => \A s \in Slot : sensors[i].pins[s] # p
    BY <1>3 DEF PinLine, Drivable
  <2>2. new \in [Part -> PinValue] /\ new[r] = p /\ \A f \in Part \ {r} : new[f] = pins[f]
    BY <1>1 DEF PinsFit
  <2>3. ASSUME NEW f \in Part, NEW g \in Part, new[f] = new[g], new[f] # PinDisabled
        PROVE  SameDevice(f, g)
    <3>1. CASE f = r \/ g = r
      BY <2>1, <2>2, <2>3, <3>1 DEF SameDevice
    <3>2. CASE f # r /\ g # r
      BY <2>2, <2>3, <3>2 DEF PinsFit
    <3> QED
      BY <3>1, <3>2
  <2>4. \A q \in Relay : new[q] # PinDisabled => Drivable(new[q])
    BY <2>1, <2>2 DEF PinsFit, Part
  <2> HIDE DEF new
  <2>5. PinsFit(new)
    BY <2>2, <2>3, <2>4 DEF PinsFit
  <2>6. \A f \in Part :
           \/ new[f] \in {pins[f], PinDisabled}
           \/ \A i \in Index : i < count => \A s \in Slot : sensors[i].pins[s] # new[f]
    BY <2>1, <2>2
  <2> QED
    BY <2>1, <2>5, <2>6
<1> QED
  BY <1>2, <1>3

(* No sensor of the table has this pin.                                    *)
Spared(p) == \A i \in Index : i < count => \A s \in Slot : sensors[i].pins[s] # p

(* Loading a file leaves pins that fit, and takes none from a sensor.      *)
LEMMA FileFits ==
    ASSUME PinsFit(pin), NEW lines, \A r \in DOMAIN lines : lines[r] \in PinValue
    PROVE  /\ PinsFit(LoadedPins(lines, pin))
           /\ \A f \in Part : \/ LoadedPins(lines, pin)[f] \in {pin[f], PinDisabled}
                             \/ Spared(LoadedPins(lines, pin)[f])
<1> DEFINE Good == {some \in [Part -> PinValue] :
                      /\ PinsFit(some)
                      /\ \A f \in Part : some[f] \in {pin[f], PinDisabled} \/ Spared(some[f])}
<1>1. pin \in Good
  BY DEF PinsFit
<1>2. ASSUME NEW some \in Good, NEW r \in Relay
      PROVE  LineApplied(lines, some, r) \in Good
  <2>1. CASE r \notin DOMAIN lines
    BY <2>1 DEF LineApplied
  <2>2. CASE r \in DOMAIN lines
    <3> DEFINE new == PinLine(some, r, lines[r])
    <3>1. PinsFit(new) /\ \A f \in Part : new[f] \in {some[f], PinDisabled} \/ Spared(new[f])
      BY <2>2, LineFits DEF Spared
    <3> HIDE DEF new
    <3>2. \A f \in Part : new[f] \in {pin[f], PinDisabled} \/ Spared(new[f])
      BY <3>1
    <3>3. new \in Good
      BY <3>1, <3>2 DEF PinsFit
    <3> QED
      BY <2>2, <3>3 DEF LineApplied, new
  <2> QED
    BY <2>1, <2>2
<1> HIDE DEF Good
<1>3. LoadedPins(lines, pin) \in Good
  BY <1>1, <1>2, FileKeeps
<1> QED
  BY <1>3 DEF Good

(* The relays of an exported file get their pins back on a hub that was    *)
(* reset: none of them is held by another part, since the panel's are 0.   *)
LEMMA PinsReadBack ==
    ASSUME PinsFit(pin), count = 0, NEW r \in Relay
    PROVE  LoadedPins(ExportedPins, DefaultPins)[r] = pin[r]
<1> DEFINE after == LinesApplied(ExportedPins, DefaultPins)
           N == Len(RelayOrder)
           Good == {some \in [Part -> PinValue] :
                      \A f \in Part : \/ some[f] = DefaultPins[f]
                                      \/ f \in Relay /\ some[f] = pin[f]}
           Set  == {some \in Good : some[r] = pin[r]}
<1>1. ASSUME NEW some \in Good, NEW q \in Relay
      PROVE  /\ LineApplied(ExportedPins, some, q) \in Good
             /\ LineApplied(ExportedPins, some, q)[q] = pin[q]
             /\ \A f \in Part : f # q => LineApplied(ExportedPins, some, q)[f] = some[f]
  <2>1. q \in Part /\ q \notin Nextion /\ DefaultPins[q] = PinDisabled
    BY PinsAssumption DEF Part, DefaultPins
  <2>2. CASE pin[q] = PinDisabled
    <3>1. LineApplied(ExportedPins, some, q) = some
      BY <2>2 DEF LineApplied, ExportedPins
    <3> QED
      BY <2>1, <2>2, <3>1
  <2>3. CASE pin[q] # PinDisabled
    <3>1. LineApplied(ExportedPins, some, q) = PinLine(some, q, pin[q])
      BY <2>3 DEF LineApplied, ExportedPins
    <3>2. Drivable(pin[q]) /\ pin[q] \in PinValue
      BY <2>1, <2>3 DEF PinsFit
    <3>3. ASSUME NEW f \in Part, some[f] = pin[q]
          PROVE  f = q
      <4>1. some[f] # DefaultPins[f]
        BY <2>3, <3>2, <3>3 DEF DefaultPins, Drivable
      <4>2. f \in Relay /\ pin[f] = pin[q]
        BY <3>3, <4>1
      <4>3. SameDevice(f, q)
        BY <2>1, <2>3, <4>2 DEF PinsFit
      <4> QED
        BY <4>2, <4>3, PinsAssumption DEF SameDevice
    <3>4. PinLine(some, q, pin[q]) = some \/ PinLine(some, q, pin[q]) = [some EXCEPT ![q] = pin[q]]
      BY DEF PinLine
    <3>5. PinLine(some, q, pin[q]) = some => some[q] = pin[q]
      <4>1. CASE \E f \in Part : some[f] = pin[q]
        BY <3>3, <4>1
      <4>2. CASE ~\E f \in Part : some[f] = pin[q]
        <5>1. PinLine(some, q, pin[q]) = [some EXCEPT ![q] = pin[q]]
          <6>1. \A j \in Index : ~(j < count)
            BY PinsAssumption DEF Index
          <6>2. pin[q] # 0 /\ ~Forbidden(pin[q], TRUE)
            BY <3>2 DEF Drivable
          <6> QED
            BY <4>2, <6>1, <6>2 DEF PinLine
        <5> QED
          BY <2>1, <5>1
      <4> QED
        BY <4>1, <4>2
    <3> QED
      BY <2>1, <3>1, <3>2, <3>4, <3>5
  <2> QED
    BY <2>2, <2>3
<1>2. DefaultPins \in Good
  BY PinsAssumption DEF DefaultPins, PinValue
<1>3. N \in Nat /\ 0 \in 0 .. N /\ after[0] = DefaultPins
  BY LinesInTurn, SettingsAssumption, LenProperties
<1>4. PICK i \in 1 .. N : RelayOrder[i] = r
  BY SettingsAssumption, LenProperties
<1>5. after[i] = LineApplied(ExportedPins, after[i - 1], r) /\ i - 1 \in 0 .. N
  BY <1>3, <1>4, LinesInTurn
<1>6. i \in 0 .. N /\ N \in i .. N
  BY <1>3, <1>4
<1> HIDE DEF Good, after, N
<1>7. \A n \in 0 .. N : after[n] \in Good
  BY <1>1, <1>2, <1>3, LinesKeep DEF after, N
<1>8. after[i] \in Set
  BY <1>1, <1>5, <1>7
<1>9. \A some \in Set : \A q \in Relay : LineApplied(ExportedPins, some, q) \in Set
  BY <1>1 DEF Part
<1> HIDE DEF Set
<1>10. after[N] \in Set
  BY <1>6, <1>8, <1>9, LinesKeep DEF after, N
<1> QED
  BY <1>10 DEF LoadedPins, Set, after, N

-----------------------------------------------------------------------------
(* The invariant of the hub: its pins fit, every setting holds what can be *)
(* stored for it, and the card what can stand there.                       *)
ConfigFits == DOMAIN config = Setting /\ \A s \in Setting \ Auth : config[s] \in Storable(s)

CardFits ==
    /\ \A s \in DOMAIN card.settings : s \in Setting /\ card.settings[s] \in Readable(s)
    /\ \A r \in DOMAIN card.pins : card.pins[r] \in PinValue

SettingsInv == PinsFit(pin) /\ ConfigFits /\ CardFits

(* What the card refuses to set.                                           *)
LEMMA CardRefuses ==
    ASSUME NEW s \in Setting \ (Exported \cup {"sdSpeed", "threshold"}), NEW a
    PROVE  Card(s, a) = Refused
<1>1. CASE s \in Mqtt
  BY <1>1 DEF Card, Mqtt
<1>2. CASE s \in Auth \cup Panel
  BY <1>2 DEF Card, Auth, Panel
<1> QED
  BY <1>1, <1>2 DEF Setting

LEMMA RadiosAsked ==
    ASSUME NEW r \in Radio, NEW a
    PROVE  Serial(r, a) \in {0, 1} /\ Http(r, a) \in {0, 1}
  BY SerialIs, HttpIs DEF Radio, SerialC10, SerialC11, HttpC10, HttpC11, Boolean

(* A text that a query has cut is a text.                                  *)
LEMMA QueriedReadable ==
    ASSUME NEW s \in Setting, NEW a \in Readable(s)
    PROVE  Queried(s, a) \in Readable(s)
  BY DEF Queried, Readable, Clip, QueryTextLength, Texts, TrueWord

(* What is stored can be written to the card.                              *)
LEMMA StorableReadable ==
    ASSUME NEW s \in Exported, NEW v \in Storable(s)
    PROVE  v \in Readable(s)
<1>1. v \in Int /\ v >= -128
  BY DEF Storable, Exported, Named, Flags, Word16
<1>2. v >= TrueWord
  BY <1>1 DEF TrueWord
<1>3. s \in Texts \cup {"relayName", "ipAddress", "mmsi"} => v >= 0
  BY DEF Storable, Exported, Named, Texts, Flags
<1>4. s = "ledEnables" => v \in 0 .. 7
  BY DEF Storable
<1> QED
  BY <1>1, <1>2, <1>3, <1>4 DEF Readable

LEMMA DefaultsFit ==
    /\ DOMAIN Defaults = Setting
    /\ \A s \in Setting \ Auth : Defaults[s] \in Storable(s)
<1>1. DOMAIN Defaults = Setting
  BY DEF Defaults, Setting, Exported, Named, Auth, Mqtt, Panel
<1>2. \A s \in Named \cup Panel \cup {"sdSpeed", "threshold"} : Defaults[s] \in Storable(s)
  <2>1. Defaults["relayName"] \in Storable("relayName")
    BY DEF Storable, Defaults, Names, ShortLength, LongLength, Flags
  <2>2. \A s \in {"buttonImage", "defaultState", "actionType"} : Defaults[s] \in Storable(s)
    BY DEF Storable, Defaults, Flags
  <2>3. \A s \in Panel : Defaults[s] \in Storable(s)
    BY DEF Storable, Defaults, Panel, Flags
  <2>4. \A s \in {"sdSpeed", "threshold"} : Defaults[s] \in Storable(s)
    BY DEF Storable, Defaults, Flags
  <2> QED
    BY <2>1, <2>2, <2>3, <2>4 DEF Named
<1>3. \A s \in Exported \ Named : Defaults[s] \in Storable(s)
  <2>1. Defaults["homeButton"] \in Storable("homeButton")
    BY RelayCountAssumption DEF Storable, Defaults, Flags
  <2>2. \A s \in {"name", "locationType", "startDelay", "bluetooth"} :
           Defaults[s] \in Storable(s)
    BY DEF Storable, Defaults, Flags, Word16
  <2>3. \A s \in {"wifi", "accessMode", "ssid"} : Defaults[s] \in Storable(s)
    BY DEF Storable, Defaults, Flags
  <2>4. \A s \in {"password", "port", "ipAddress"} : Defaults[s] \in Storable(s)
    BY DEF Storable, Defaults, Flags, Word16
  <2>5. \A s \in {"timezone", "mmsi", "callSign"} : Defaults[s] \in Storable(s)
    BY DEF Storable, Defaults, Flags
  <2>6. \A s \in {"homePort", "ledColor", "brightness", "autoSwitch"} :
           Defaults[s] \in Storable(s)
    BY DEF Storable, Defaults, Flags
  <2>7. \A s \in {"ledEnables", "goodTone", "badTone"} : Defaults[s] \in Storable(s)
    BY DEF Storable, Defaults, Flags
  <2> QED
    BY <2>1, <2>2, <2>3, <2>4, <2>5, <2>6, <2>7 DEF Exported
<1>4. \A s \in Mqtt : Defaults[s] \in Storable(s)
  BY DEF Storable, Defaults, Mqtt, Flags, Word16
<1> QED
  BY <1>1, <1>2, <1>3, <1>4 DEF Setting, Exported

(* C19 touches nothing but what it is for.                                 *)
AuthOnly(old, new) ==
    DOMAIN new = Setting /\ \A s \in Setting \ Auth : new[s] = old[s]

LEMMA AuthTouchesAuth ==
    ASSUME NEW c, DOMAIN c = Setting, NEW e, NEW k, NEW h
    PROVE  /\ AuthOnly(c, EnableAuth(c, e).config)
           /\ AuthOnly(c, AfterKeys(c, k, h).config)
<1>1. ASSUME NEW d, DOMAIN d = Setting, NEW f
      PROVE  AuthOnly(d, EnableAuth(d, f).config)
  <2>1. EnableAuth(d, f).config \in {d, [d EXCEPT !.authEnabled = f]}
    BY DEF EnableAuth
  <2> DEFINE new == [d EXCEPT !.authEnabled = f]
  <2>2. DOMAIN new = Setting
    BY <1>1
  <2>3. \A s \in Setting \ Auth : new[s] = d[s]
    BY <1>1 DEF Auth
  <2> HIDE DEF new
  <2>4. AuthOnly(d, new)
    BY <2>2, <2>3 DEF AuthOnly
  <2>5. AuthOnly(d, d)
    BY <1>1 DEF AuthOnly
  <2> QED
    BY <2>1, <2>4, <2>5 DEF new
<1>2. ASSUME NEW d, DOMAIN d = Setting, NEW key \in {"apiKey", "hmacKey"}, NEW n
      PROVE  AuthOnly(d, StoreKey(d, key, n).config)
  <2>1. StoreKey(d, key, n).config \in {EnableAuth(d, 0).config, [d EXCEPT ![key] = n]}
    BY DEF StoreKey
  <2> DEFINE new == [d EXCEPT ![key] = n]
  <2>2. DOMAIN new = Setting
    BY <1>2
  <2>3. \A s \in Setting \ Auth : new[s] = d[s]
    BY <1>2 DEF Auth
  <2> HIDE DEF new
  <2>4. AuthOnly(d, new)
    BY <2>2, <2>3 DEF AuthOnly
  <2>5. AuthOnly(d, EnableAuth(d, 0).config)
    BY <1>1, <1>2
  <2> QED
    BY <2>1, <2>4, <2>5 DEF new
<1> DEFINE one == IF k = Absent THEN [ok |-> TRUE, config |-> c] ELSE StoreKey(c, "apiKey", k)
<1>3. AuthOnly(c, one.config)
  BY <1>2 DEF AuthOnly
<1>4. AfterKeys(c, k, h).config \in {one.config, StoreKey(one.config, "hmacKey", h).config}
  BY DEF AfterKeys
<1> HIDE DEF one
<1>5. AuthOnly(c, AfterKeys(c, k, h).config)
  BY <1>2, <1>3, <1>4 DEF AuthOnly
<1> QED
  BY <1>1, <1>5

(* A setting stored, refused or ignored.                                   *)
LEMMA StoringFits ==
    ASSUME SettingsInv, NEW s \in Setting \ Auth,
           NEW v \in Storable(s) \cup {Refused, Ignored}, StoreSetting(s, v)
    PROVE  SettingsInv'
<1>1. UNCHANGED <<pin, sensors, count, card>>
  BY DEF StoreSetting
<1>2. config' = config \/ (v \in Storable(s) /\ config' = [config EXCEPT ![s] = v])
  BY DEF StoreSetting
<1>3. ConfigFits'
  BY <1>2 DEF SettingsInv, ConfigFits
<1> QED
  BY <1>1, <1>3 DEF SettingsInv, PinsFit, CardFits

LEMMA RadioFits ==
    ASSUME SettingsInv, NEW r \in Radio, NEW v \in {0, 1}, SwitchRadio(r, v)
    PROVE  SettingsInv'
<1>1. UNCHANGED <<pin, sensors, count, card>> /\ config' = [config EXCEPT ![r] = v]
  BY DEF SwitchRadio
<1>2. v \in Storable(r) /\ r \in Setting \ Auth
  BY DEF Radio, Storable, Flags, Setting, Exported, Auth
<1>3. ConfigFits'
  BY <1>1, <1>2 DEF SettingsInv, ConfigFits
<1> QED
  BY <1>1, <1>3 DEF SettingsInv, PinsFit, CardFits

LEMMA AuthFits ==
    ASSUME SettingsInv, AuthNext
    PROVE  SettingsInv'
<1>1. UNCHANGED <<pin, sensors, count, card>>
  BY DEF AuthNext, SerialC19, HttpC19, AuthStep, GenerateAuthKeys
<1>2. DOMAIN config = Setting
  BY DEF SettingsInv, ConfigFits
<1>3. AuthOnly(config, config')
  <2>1. CASE SerialC19
    <3>1. PICK e, k, h : config' = SerialAuthOutcome(e, k, h).config
      BY <2>1 DEF SerialC19, AuthStep
    <3> DEFINE c == IF e = Absent THEN config ELSE EnableAuth(config, Boolean(e)).config
    <3>2. AuthOnly(config, c)
      BY <1>2, AuthTouchesAuth DEF AuthOnly
    <3>3. config' = AfterKeys(c, k, h).config
      BY <3>1 DEF SerialAuthOutcome
    <3> HIDE DEF c
    <3>4. AuthOnly(c, config')
      BY <3>2, <3>3, AuthTouchesAuth DEF AuthOnly
    <3> QED
      BY <3>2, <3>4 DEF AuthOnly
  <2>2. CASE HttpC19
    <3>1. PICK e, k, h : config' = HttpAuthOutcome(e, k, h).config
      BY <2>2 DEF HttpC19, AuthStep
    <3> DEFINE c == AfterKeys(config, k, h).config
    <3>2. AuthOnly(config, c)
      BY <1>2, AuthTouchesAuth
    <3>3. config' \in {c, EnableAuth(c, Boolean(e)).config}
      BY <3>1 DEF HttpAuthOutcome
    <3> HIDE DEF c
    <3>4. AuthOnly(c, config')
      BY <3>2, <3>3, AuthTouchesAuth DEF AuthOnly
    <3> QED
      BY <3>2, <3>4 DEF AuthOnly
  <2>3. CASE GenerateAuthKeys
    BY <1>2, <2>3 DEF GenerateAuthKeys, AuthOnly, Auth
  <2> QED
    BY <2>1, <2>2, <2>3 DEF AuthNext
<1>4. ConfigFits'
  BY <1>3 DEF SettingsInv, ConfigFits, AuthOnly
<1> QED
  BY <1>1, <1>4 DEF SettingsInv, PinsFit, CardFits

(* What the card does to the hub, and the hub to the card.                 *)
LEMMA CardStepFits ==
    ASSUME SettingsInv, CardNext
    PROVE  SettingsInv'
<1>1. CASE ExportConfig
  <2>1. UNCHANGED <<pin, config>>
        /\ card' = [settings |-> ExportedSettings(config), pins |-> ExportedPins]
    BY <1>1 DEF ExportConfig
  <2>2. ASSUME NEW s \in DOMAIN ExportedSettings(config)
        PROVE  s \in Setting /\ ExportedSettings(config)[s] \in Readable(s)
    <3>1. s \in Exported /\ ExportedSettings(config)[s] = config[s]
      BY DEF ExportedSettings
    <3>2. s \in Setting \ Auth
      BY <3>1 DEF Setting, Exported, Named, Auth
    <3> QED
      BY <3>1, <3>2, StorableReadable DEF SettingsInv, ConfigFits
  <2>3. ASSUME NEW r \in DOMAIN ExportedPins
        PROVE  ExportedPins[r] \in PinValue
    <3>1. r \in Relay /\ ExportedPins[r] = pin[r]
      BY DEF ExportedPins
    <3> QED
      BY <3>1 DEF SettingsInv, PinsFit, Part
  <2>4. CardFits'
    BY <2>1, <2>2, <2>3 DEF CardFits
  <2> QED
    BY <2>1, <2>4 DEF SettingsInv, ConfigFits, PinsFit
<1>2. CASE EditCard
  <2>1. UNCHANGED <<pin, config>> /\ card' \in HandWritten
    BY <1>2 DEF EditCard
  <2>2. CardFits'
    BY <2>1, SettingsAssumption DEF CardFits
  <2> QED
    BY <2>1, <2>2 DEF SettingsInv, ConfigFits, PinsFit
<1>3. CASE CardFails
  BY <1>3 DEF CardFails, SettingsInv, ConfigFits, PinsFit, CardFits
<1>4. CASE LoadConfig
  <2>1. /\ config' = Loaded(card.settings, config)
        /\ pin' = LoadedPins(card.pins, pin)
        /\ card' = card
    BY <1>4 DEF LoadConfig
  <2>2. PinsFit(pin')
    BY <2>1, FileFits DEF SettingsInv, CardFits
  <2>3. ASSUME NEW s \in Setting \ Auth
        PROVE  config'[s] \in Storable(s)
    <3>1. CASE s \in Applied(card.settings)
      <4>1. /\ config'[s] = Card(s, card.settings[s]) /\ config'[s] # Refused
            /\ s \in DOMAIN card.settings
        BY <2>1, <3>1 DEF Loaded, Applied
      <4>2. s \in Exported \cup {"sdSpeed", "threshold"}
        BY <4>1, CardRefuses
      <4> QED
        BY <4>1, <4>2, CardStores DEF SettingsInv, CardFits
    <3>2. CASE s \notin Applied(card.settings)
      BY <2>1, <3>2 DEF Loaded, SettingsInv, ConfigFits
    <3> QED
      BY <3>1, <3>2
  <2>4. ConfigFits'
    BY <2>1, <2>3 DEF ConfigFits, Loaded
  <2> QED
    BY <2>1, <2>2, <2>4 DEF SettingsInv, PinsFit, CardFits
<1> QED
  BY <1>1, <1>2, <1>3, <1>4 DEF CardNext

LEMMA SettingsInvFirst == SettingsInit => SettingsInv
  BY PinsFitFirst, DefaultsFit DEF SettingsInit, SettingsInv, ConfigFits, CardFits, NoFile

LEMMA SettingsInvStep == SettingsInv /\ [HubNext]_hubVars => SettingsInv'
<1> SUFFICES ASSUME SettingsInv, [HubNext]_hubVars
             PROVE  SettingsInv'
  OBVIOUS
<1>1. CASE SerialSet
  <2>1. PICK s \in Setting \ Auth : \E a \in Asked[s] :
            IF s \in Radio THEN SwitchRadio(s, Serial(s, a)) ELSE StoreSetting(s, Serial(s, a))
    BY <1>1 DEF SerialSet
  <2>2. PICK a \in Asked[s] :
            IF s \in Radio THEN SwitchRadio(s, Serial(s, a)) ELSE StoreSetting(s, Serial(s, a))
    BY <2>1
  <2>3. a \in Readable(s)
    BY SettingsAssumption
  <2> QED
    BY <2>2, <2>3, RadiosAsked, SerialStores, RadioFits, StoringFits
<1>2. CASE HttpSet
  <2>1. PICK s \in Setting \ Auth : \E a \in Asked[s] : \E kept \in {a, Queried(s, a)} :
            IF s \in Radio THEN SwitchRadio(s, Http(s, kept)) ELSE StoreSetting(s, Http(s, kept))
    BY <1>2 DEF HttpSet
  <2>2. PICK a \in Asked[s] : \E kept \in {a, Queried(s, a)} :
            IF s \in Radio THEN SwitchRadio(s, Http(s, kept)) ELSE StoreSetting(s, Http(s, kept))
    BY <2>1
  <2>3. PICK kept \in {a, Queried(s, a)} :
            IF s \in Radio THEN SwitchRadio(s, Http(s, kept)) ELSE StoreSetting(s, Http(s, kept))
    BY <2>2
  <2>4. kept \in Readable(s)
    BY SettingsAssumption, QueriedReadable
  <2> QED
    BY <2>3, <2>4, RadiosAsked, HttpStores, RadioFits, StoringFits
<1>3. CASE Missing \/ UNCHANGED hubVars
  BY <1>3 DEF Missing, hubVars, SettingsInv, ConfigFits, PinsFit, CardFits
<1>4. CASE ResetSettings
  <2>1. Reset /\ config' = Defaults /\ card' = card
    BY <1>4 DEF ResetSettings
  <2>2. PinsFit(pin')
    BY <2>1, PinStepFits DEF StepOfKind, SettingsInv
  <2> QED
    BY <2>1, <2>2, DefaultsFit DEF SettingsInv, ConfigFits, CardFits, PinsFit
<1>5. CASE AuthNext
  BY <1>5, AuthFits
<1>6. CASE CardNext
  BY <1>6, CardStepFits
<1>7. CASE PinNext
  <2>1. PinsNext /\ config' = config /\ card' = card
    BY <1>7 DEF PinNext, PinsNext, settingsVars
  <2>2. PinsFit(pin')
    BY <2>1, NextKinds, PinStepFits DEF SettingsInv
  <2> QED
    BY <2>1, <2>2 DEF SettingsInv, ConfigFits, CardFits, PinsFit
<1> QED
  BY <1>1, <1>2, <1>3, <1>4, <1>5, <1>6, <1>7 DEF HubNext

-----------------------------------------------------------------------------
(* No way in ever stores what is out of a setting's range, whatever was    *)
(* asked for or written to the card by hand: a value that one of them cuts *)
(* or refuses and another does not ends in the same range.                 *)
THEOREM SettingsStayInRange == HubSpec => []SettingsInv
  BY SettingsInvFirst, SettingsInvStep, PTL DEF HubSpec

(* The hub's devices stay apart under all its commands, and when the file  *)
(* on the card is loaded: a line of it that names a pin in use is skipped. *)
THEOREM LoadedDevicesStayApart == HubSpec => []DevicesApart
<1>1. SettingsInv => DevicesApart
  BY DEF SettingsInv, PinsFit, DevicesApart
<1> QED
  BY <1>1, SettingsInvFirst, SettingsInvStep, PTL DEF HubSpec

(* No part takes a pin that a sensor has, by a command or from the file.   *)
THEOREM LoadedPinsSpareSensors == HubSpec => NoPinTakenFromSensor
<1>1. SettingsInv /\ [HubNext]_hubVars =>
        [\A f \in Part, i \in Index, s \in Slot :
           /\ pin'[f] # pin[f]
           /\ pin'[f] # PinDisabled
           /\ i < count'
           => pin'[f] # sensors'[i].pins[s]]_pinsVars
  <2> SUFFICES ASSUME SettingsInv, HubNext,
                      NEW f \in Part, NEW i \in Index, NEW s \in Slot,
                      pin'[f] # pin[f], pin'[f] # PinDisabled, i < count'
               PROVE  pin'[f] # sensors'[i].pins[s]
    BY DEF hubVars, pinsVars
  <2>1. CASE LoadConfig
    <3>1. pin' = LoadedPins(card.pins, pin) /\ UNCHANGED <<sensors, count>>
      BY <2>1 DEF LoadConfig
    <3>2. Spared(pin'[f])
      BY <3>1, FileFits DEF SettingsInv, CardFits
    <3> QED
      BY <3>1, <3>2 DEF Spared
  <2>2. CASE PinsNext
    BY <2>2, PinTaken
  <2>3. CASE ~LoadConfig /\ ~PinsNext
    <3>1. UNCHANGED pin
      BY <2>3 DEF HubNext, SerialSet, HttpSet, SwitchRadio, StoreSetting, Missing,
         ResetSettings, AuthNext, SerialC19, HttpC19, AuthStep, GenerateAuthKeys,
         CardNext, ExportConfig, EditCard, CardFails, PinNext, PinsNext
    <3> QED
      BY <3>1
  <2> QED
    BY <2>1, <2>2, <2>3
<1> QED
  BY <1>1, SettingsInvFirst, SettingsInvStep, PTL DEF HubSpec, NoPinTakenFromSensor

(* Whatever was set, by whom and from where: what is listed, asked for or  *)
(* exported, sent back as it was printed, changes nothing, but for the two *)
(* switches of MQTT in the words of the status and a text that a URL cuts. *)
THEOREM ReadingBackIsSafe == HubSpec => []ReadBackUnchanged
<1>1. SettingsInv => ReadBackUnchanged
  <2> SUFFICES ASSUME SettingsInv
               PROVE  ReadBackUnchanged
    OBVIOUS
  <2>1. \A s \in Setting \ Auth : config[s] \in Storable(s)
    BY DEF SettingsInv, ConfigFits
  <2>2. SerialListed \cup HttpListed \cup Exported \subseteq Setting \ Auth
    BY DEF SerialListed, ListedC1, ListedN0, QueriedM, ListedR5, HttpListed, StatusC,
       StatusM, StatusR, Setting, Exported, Named, Auth, Mqtt, Panel
  <2>3. \A s \in SerialListed \ {"buttonImage"} : Serial(s, config[s]) \in {config[s], Refused}
    BY <2>1, <2>2, SerialKeeps
  <2>4. ASSUME NEW s \in HttpListed \ MqttSwitches
        PROVE  /\ Http(s, StatusText(s, config[s])) \in {config[s], Refused}
               /\ s \notin LongTexts =>
                    Http(s, Queried(s, StatusText(s, config[s]))) \in {config[s], Refused}
    <3>1. config[s] \in Storable(s)
      BY <2>1, <2>2
    <3>2. Http(s, StatusText(s, config[s])) \in {config[s], Refused}
      BY <3>1, ShownKeeps
    <3>3. s \notin LongTexts => Queried(s, StatusText(s, config[s])) = StatusText(s, config[s])
      BY <3>1, ShownKeeps
    <3> QED
      BY <3>2, <3>3
  <2>5. \A s \in HttpQueriedM : Http(s, config[s]) \in {config[s], Refused}
    BY <2>1, <2>2, HttpKeeps DEF HttpQueriedM, HttpListed, StatusM
  <2>6. \A s \in DOMAIN ExportedSettings(config) : Card(s, config[s]) = config[s]
    BY <2>1, <2>2, CardKeeps DEF ExportedSettings
  <2>7. count = 0 => \A r \in Relay : LoadedPins(ExportedPins, DefaultPins)[r] = pin[r]
    BY PinsReadBack DEF SettingsInv
  <2> QED
    BY <2>3, <2>4, <2>5, <2>6, <2>7 DEF ReadBackUnchanged
<1> QED
  BY <1>1, SettingsInvFirst, SettingsInvStep, PTL DEF HubSpec

-----------------------------------------------------------------------------
(* The plans of the pages.                                                 *)

When == {"always", "changed", "given", "boat"}

\* A page has at most nine requests, and sends what was typed and never read
\* when it is given only.
WellPlanned(requests) ==
    /\ DOMAIN requests \subseteq 1 .. 9
    /\ \A i \in DOMAIN requests :
          requests[i].fields \cap Hidden # {} => requests[i].when = "given"

LEMMA SendingIs ==
    ASSUME NEW requests, NEW given, NEW otherwise
    PROVE  LET s == Sending(requests, given, otherwise)
           IN  /\ DOMAIN s = DOMAIN requests
               /\ \A i \in DOMAIN requests :
                     /\ s[i].fields = requests[i]
                     /\ s[i].when = IF requests[i] \cap given # {} THEN "given"
                                    ELSE otherwise
  BY DEF Sending, Sends

LEMMA OpenPages ==
    ASSUME NEW requests, DOMAIN requests \subseteq 1 .. 9,
           \A i \in DOMAIN requests : requests[i] \cap Hidden = {},
           NEW given, NEW otherwise
    PROVE  WellPlanned(Sending(requests, given, otherwise))
  BY SendingIs DEF WellPlanned

LEMMA RequestTables ==
    /\ WellPlanned(Sending(RelayRequests, {}, "changed"))
    /\ WellPlanned(Sending(ExternalRequests, {}, "always"))
    /\ WellPlanned(Sending(MqttRequests, {"port", "password", "keepAlive"}, "always"))
    /\ WellPlanned(Sending(NextionRequests, {"baud", "uart"}, "always"))
    /\ WellPlanned(Sending(SdCardRequests, {}, "given"))
    /\ WellPlanned(Sending(RtcRequests, {}, "given"))
    /\ WellPlanned(Sending(ToneRequests, {}, "given"))
    /\ WellPlanned(Sending(AuthRequests, {}, "always"))
    /\ WellPlanned(Sending(TimezoneRequests, {}, "always"))
<1>1. WellPlanned(Sending(RelayRequests, {}, "changed"))
  <2>1. /\ DOMAIN RelayRequests \subseteq 1 .. 9
        /\ \A i \in DOMAIN RelayRequests : RelayRequests[i] \cap Hidden = {}
    BY DEF RelayRequests, Hidden
  <2> QED
    BY <2>1, OpenPages
<1>2. WellPlanned(Sending(ExternalRequests, {}, "always"))
  <2>1. /\ DOMAIN ExternalRequests \subseteq 1 .. 9
        /\ \A i \in DOMAIN ExternalRequests : ExternalRequests[i] \cap Hidden = {}
    BY DEF ExternalRequests, Hidden
  <2> QED
    BY <2>1, OpenPages
<1>3. WellPlanned(Sending(MqttRequests, {"port", "password", "keepAlive"}, "always"))
  <2>1. DOMAIN MqttRequests \subseteq 1 .. 9
    BY DEF MqttRequests
  <2>2. \A i \in DOMAIN MqttRequests :
            MqttRequests[i] \cap Hidden # {}
                => MqttRequests[i] \cap {"port", "password", "keepAlive"} # {}
    BY DEF Hidden
  <2> QED
    BY <2>1, <2>2, SendingIs DEF WellPlanned
<1>4. WellPlanned(Sending(NextionRequests, {"baud", "uart"}, "always"))
  <2>1. /\ DOMAIN NextionRequests \subseteq 1 .. 9
        /\ \A i \in DOMAIN NextionRequests : NextionRequests[i] \cap Hidden = {}
    BY DEF NextionRequests, Hidden
  <2> QED
    BY <2>1, OpenPages
<1>5. /\ WellPlanned(Sending(SdCardRequests, {}, "given"))
      /\ WellPlanned(Sending(RtcRequests, {}, "given"))
      /\ WellPlanned(Sending(ToneRequests, {}, "given"))
  <2>1. /\ DOMAIN SdCardRequests \subseteq 1 .. 9
        /\ DOMAIN RtcRequests \subseteq 1 .. 9
        /\ DOMAIN ToneRequests \subseteq 1 .. 9
    BY DEF SdCardRequests, RtcRequests, ToneRequests
  <2> QED
    BY <2>1, SendingIs DEF WellPlanned
<1>6. WellPlanned(Sending(AuthRequests, {}, "always"))
  <2>1. /\ DOMAIN AuthRequests \subseteq 1 .. 9
        /\ \A i \in DOMAIN AuthRequests : AuthRequests[i] \cap Hidden = {}
    BY DEF AuthRequests, Hidden
  <2> QED
    BY <2>1, OpenPages
<1>7. WellPlanned(Sending(TimezoneRequests, {}, "always"))
  <2>1. /\ DOMAIN TimezoneRequests \subseteq 1 .. 9
        /\ \A i \in DOMAIN TimezoneRequests : TimezoneRequests[i] \cap Hidden = {}
    BY DEF TimezoneRequests, Hidden
  <2> QED
    BY <2>1, OpenPages
<1> QED
  BY <1>1, <1>2, <1>3, <1>4, <1>5, <1>6, <1>7

(* Two lists of requests, one after the other.                             *)
LEMMA Concatenated ==
    ASSUME NEW a, NEW b, NEW m \in 0 .. 4, NEW n \in 0 .. 5,
           a = [i \in 1 .. m |-> a[i]], b = [i \in 1 .. n |-> b[i]],
           WellPlanned(a), WellPlanned(b)
    PROVE  WellPlanned(a \o b)
<1> DEFINE S == {a[i] : i \in 1 .. m} \cup {b[i] : i \in 1 .. n}
<1>1. a \in [1 .. m -> S] /\ b \in [1 .. n -> S] /\ DOMAIN a = 1 .. m /\ DOMAIN b = 1 .. n
  OBVIOUS
<1> HIDE DEF S
<1>2. a \in Seq(S) /\ b \in Seq(S)
  BY <1>1, SeqDef
<1>3. Len(a) = m /\ Len(b) = n
  BY <1>1, <1>2, LenProperties
<1>4. /\ a \o b \in Seq(S) /\ Len(a \o b) = m + n
      /\ \A i \in 1 .. m + n : (a \o b)[i] = IF i <= m THEN a[i] ELSE b[i - m]
  <2>1. /\ a \o b \in Seq(S) /\ Len(a \o b) = Len(a) + Len(b)
        /\ \A i \in 1 .. Len(a) + Len(b) :
              (a \o b)[i] = IF i <= Len(a) THEN a[i] ELSE b[i - Len(a)]
    BY <1>2, ConcatProperties, Zenon
  <2> QED
    BY <1>3, <2>1
<1>5. DOMAIN (a \o b) = 1 .. m + n
  BY <1>4, LenProperties
<1>6. ASSUME NEW i \in 1 .. m + n
      PROVE  (a \o b)[i].fields \cap Hidden # {} => (a \o b)[i].when = "given"
  <2>1. CASE i <= m
    <3>1. i \in DOMAIN a /\ (a \o b)[i] = a[i]
      BY <1>1, <1>4, <2>1
    <3> QED
      BY <3>1 DEF WellPlanned
  <2>2. CASE ~(i <= m)
    <3>1. i - m \in DOMAIN b /\ (a \o b)[i] = b[i - m]
      BY <1>1, <1>4, <2>2
    <3> QED
      BY <3>1 DEF WellPlanned
  <2> QED
    BY <2>1, <2>2
<1>7. 1 .. m + n \subseteq 1 .. 9
  OBVIOUS
<1> QED
  BY <1>5, <1>6, <1>7, Zenon DEF WellPlanned

LEMMA TwoPartPages == WellPlanned(LocalForm.requests) /\ WellPlanned(LocationForm.requests)
<1>1. WellPlanned(LocationForm.requests)
  <2> DEFINE a == Sending(PlaceRequests, {"name"}, "always")
             b == Sending(BoatRequests, {}, "boat")
  <2>1. /\ DOMAIN PlaceRequests = 1 .. 2 /\ DOMAIN BoatRequests = 1 .. 3
        /\ \A i \in DOMAIN PlaceRequests : PlaceRequests[i] \cap Hidden = {}
        /\ \A i \in DOMAIN BoatRequests : BoatRequests[i] \cap Hidden = {}
    BY DEF PlaceRequests, BoatRequests, Hidden
  <2>2. WellPlanned(a) /\ WellPlanned(b)
    BY <2>1, OpenPages
  <2>3. a = [i \in 1 .. 2 |-> a[i]] /\ b = [i \in 1 .. 3 |-> b[i]]
    BY <2>1 DEF Sending
  <2> HIDE DEF a, b
  <2>4. WellPlanned(a \o b)
    BY <2>2, <2>3, Concatenated
  <2>5. LocationForm.requests = a \o b
    BY DEF LocationForm, Page, a, b
  <2> QED
    BY <2>4, <2>5
<1>2. WellPlanned(LocalForm.requests)
  <2> DEFINE first == <<Head(LocalRequests)>>
             rest  == Tail(LocalRequests)
             a == Sending(first, {}, "always")
             b == Sending(rest, {}, "changed")
  <2>1. /\ first = <<{"type", "option"}>>
        /\ rest = <<{"name"}, {"pin"}, {"option"}, {"enabled"}>>
    BY DEF LocalRequests
  <2> HIDE DEF first, rest
  <2>2. /\ DOMAIN first = 1 .. 1 /\ DOMAIN rest = 1 .. 4
        /\ \A i \in DOMAIN first : first[i] \cap Hidden = {}
        /\ \A i \in DOMAIN rest : rest[i] \cap Hidden = {}
    BY <2>1 DEF Hidden
  <2>3. WellPlanned(a) /\ WellPlanned(b)
    BY <2>2, OpenPages
  <2>4. a = [i \in 1 .. 1 |-> a[i]] /\ b = [i \in 1 .. 4 |-> b[i]]
    BY <2>2 DEF Sending
  <2>5. LocalForm.requests = a \o b
    BY DEF LocalForm, Page, a, b, first, rest
  <2> HIDE DEF a, b
  <2>6. WellPlanned(a \o b)
    BY <2>3, <2>4, Concatenated
  <2> QED
    BY <2>5, <2>6
<1> QED
  BY <1>1, <1>2

LEMMA EveryPagePlanned == \A p \in Pages : WellPlanned(Plan[p].requests)
<1>1. WellPlanned(Dashboard.requests)
  BY DEF Dashboard, Page, Sends, WellPlanned, Hidden
<1>2. /\ RelayForm.requests = Sending(RelayRequests, {}, "changed")
      /\ ExternalForm.requests = Sending(ExternalRequests, {}, "always")
      /\ MqttForm.requests = Sending(MqttRequests, {"port", "password", "keepAlive"}, "always")
      /\ NextionForm.requests = Sending(NextionRequests, {"baud", "uart"}, "always")
      /\ SdCardForm.requests = Sending(SdCardRequests, {}, "given")
      /\ RtcForm.requests = Sending(RtcRequests, {}, "given")
      /\ ToneForm.requests = Sending(ToneRequests, {}, "given")
      /\ SecurityForm.requests = Sending(AuthRequests, {}, "always")
      /\ TimezoneForm.requests = Sending(TimezoneRequests, {}, "always")
  BY DEF RelayForm, ExternalForm, MqttForm, NextionForm, SdCardForm, RtcForm, ToneForm,
     SecurityForm, TimezoneForm, Page
<1> QED
  BY <1>1, <1>2, RequestTables, TwoPartPages DEF Pages, Plan

\* On the relay's page every request carries one field, and goes when it differs.
LEMMA RelayPlan ==
    \A i \in DOMAIN Plan["relay"].requests :
        /\ Plan["relay"].requests[i].when = "changed"
        /\ \A f, g \in Plan["relay"].requests[i].fields : f = g
<1>1. Plan["relay"].requests = Sending(RelayRequests, {}, "changed")
  BY DEF Plan, RelayForm, Page
<1>2. \A i \in DOMAIN RelayRequests : \A f, g \in RelayRequests[i] : f = g
  BY DEF RelayRequests
<1> QED
  BY <1>1, <1>2, SendingIs

\* A local sensor is switched on by the first request, before its box is sent.
LEMMA LocalPlan ==
    \A i \in DOMAIN Plan["local"].requests :
        "type" \in Plan["local"].requests[i].fields
            => i = 1 /\ "enabled" \notin Plan["local"].requests[i].fields
<1> DEFINE first == <<Head(LocalRequests)>>
           rest  == Tail(LocalRequests)
           a == Sending(first, {}, "always")
           b == Sending(rest, {}, "changed")
<1>1. /\ first = <<{"type", "option"}>>
      /\ rest = <<{"name"}, {"pin"}, {"option"}, {"enabled"}>>
  BY DEF LocalRequests
<1>2. Plan["local"].requests = a \o b
  BY DEF Plan, LocalForm, Page
<1> HIDE DEF first, rest
<1>3. /\ a = <<[fields |-> {"type", "option"}, when |-> "always"]>>
      /\ b = <<[fields |-> {"name"}, when |-> "changed"],
               [fields |-> {"pin"}, when |-> "changed"],
               [fields |-> {"option"}, when |-> "changed"],
               [fields |-> {"enabled"}, when |-> "changed"]>>
  BY <1>1 DEF Sending, Sends
<1> DEFINE R == {a[1], b[1], b[2], b[3], b[4]}
<1> HIDE DEF a, b
<1>4. a \in Seq(R) /\ b \in Seq(R) /\ Len(a) = 1 /\ Len(b) = 4
  BY <1>3
<1>5. /\ a \o b \in Seq(R) /\ Len(a \o b) = Len(a) + Len(b)
      /\ \A i \in 1 .. Len(a) + Len(b) :
            (a \o b)[i] = IF i <= Len(a) THEN a[i] ELSE b[i - Len(a)]
  BY <1>4, ConcatProperties, Zenon
<1>6. DOMAIN (a \o b) = 1 .. 5 /\ \A i \in 2 .. 5 : (a \o b)[i] = b[i - 1]
  BY <1>4, <1>5, LenProperties
<1>7. \A i \in 1 .. 4 : "type" \notin b[i].fields
  <2>1. /\ b[1].fields = {"name"} /\ b[2].fields = {"pin"}
        /\ b[3].fields = {"option"} /\ b[4].fields = {"enabled"}
    BY <1>3
  <2> QED
    BY <2>1
<1>8. ASSUME NEW i \in DOMAIN (a \o b), "type" \in (a \o b)[i].fields
      PROVE  i = 1
  <2>1. CASE i \in 2 .. 5
    <3>1. i - 1 \in 1 .. 4
      BY <2>1
    <3>2. (a \o b)[i] = b[i - 1]
      BY <1>6, <2>1, Zenon
    <3> QED
      BY <1>8, <1>7, <3>1, <3>2, Zenon
  <2> QED
    BY <1>8, <1>6, <2>1
<1>9. (a \o b)[1].fields = {"type", "option"}
  <2>1. 1 \in 1 .. Len(a) + Len(b) /\ 1 <= Len(a)
    BY <1>4
  <2>2. (a \o b)[1] = a[1]
    BY <1>5, <2>1, Zenon
  <2>3. a[1].fields = {"type", "option"}
    BY <1>3
  <2> QED
    BY <2>2, <2>3
<1> QED
  BY <1>2, <1>8, <1>9

\* A page that looks at the result of storing stores.
LEMMA CountedIsStored == \A p \in Pages : Plan[p].counted => Plan[p].save # "never"
<1>1. /\ RelayForm.save = "ifOk" /\ ExternalForm.save = "ifOk"
      /\ LocalForm.save = "always" /\ LocationForm.save = "ifOk"
  BY DEF RelayForm, ExternalForm, LocalForm, LocationForm, Page
<1>2. /\ ~MqttForm.counted /\ ~NextionForm.counted /\ ~SdCardForm.counted
      /\ ~RtcForm.counted /\ ~ToneForm.counted
  BY DEF MqttForm, NextionForm, SdCardForm, RtcForm, ToneForm, Page
<1>3. ~SecurityForm.counted /\ ~TimezoneForm.counted /\ ~Dashboard.counted
  BY DEF SecurityForm, TimezoneForm, Dashboard, Page
<1>4. "ifOk" # "never" /\ "always" # "never"
  OBVIOUS
<1> QED
  BY <1>1, <1>2, <1>3, <1>4 DEF Pages, Plan

LEMMA RelayHidesNothing == \A f \in FieldsOn("relay") : f \notin Hidden
  BY RelayPlan, EveryPagePlanned DEF FieldsOn, FieldsOf, WellPlanned, Pages, Plan

-----------------------------------------------------------------------------
PageOK ==
    /\ page \in Pages
    /\ form = [f \in Fields |-> form[f]]
    /\ saving \in Saves \cup {None}
    /\ saving # None => page # "dashboard"

\* While nobody else changes the hub, what the user did not touch is shown as
\* it is stored.
ShowsTheHub ==
    page # "dashboard" /\ current
        => \A f \in Fields \ (touched \cup Hidden) : form[f] = ram[f]

HiddenIsBlank == \A f \in (Fields \cap Hidden) \ touched : form[f] = Blank

\* The relay's page compares with what it shows, whatever that was.
ShowsTheLoad ==
    page = "relay" /\ original # None
        => \A f \in Fields \ (touched \cup {"colour"}) : form[f] = original[f]

\* A save that went well so far and was not disturbed: the requests it is past
\* are stored, and every field is as it was loaded or as it is shown, where no
\* request has too much in it.
SoFarStored ==
    saving # None /\ saving.kind = "save" /\ saving.ok /\ steady
        => /\ \A f \in Fields \ Hidden :
                 Fits(f) /\ ~SwitchedOn(f) => ram[f] = original[f] \/ ram[f] = form[f]
           /\ \A i \in DOMAIN Plan_.requests :
                 i < saving.next /\ Due(Plan_.requests[i])
                    => \A f \in Plan_.requests[i].fields :
                          Fits(f) => \/ ram[f] = form[f]
                                     \/ f \in KeptIfBlank(page) /\ form[f] = Blank

AppInv == PageOK /\ ShowsTheHub /\ HiddenIsBlank /\ ShowsTheLoad /\ SoFarStored

(* The save goes on with the next request.                                 *)
GoneOn(s, n, b) == [s EXCEPT !.next = n, !.ok = b]

LEMMA SaveGoesOn ==
    ASSUME NEW s \in Saves, NEW n \in Nat, NEW b \in BOOLEAN
    PROVE  /\ GoneOn(s, n, b) \in Saves /\ GoneOn(s, n, b) # None
           /\ GoneOn(s, n, b).kind = s.kind
           /\ GoneOn(s, n, b).next = n
           /\ GoneOn(s, n, b).ok = b
<1>1. /\ GoneOn(s, n, b) \in Saves /\ GoneOn(s, n, b).kind = s.kind
      /\ GoneOn(s, n, b).next = n /\ GoneOn(s, n, b).ok = b
  BY DEF Saves, GoneOn
<1> QED
  BY <1>1, NoneAssumption

LEMMA RequestAhead ==
    ASSUME AppInv, saving # None, Ahead # {}
    PROVE  /\ NextRequest \in Ahead /\ NextRequest \in 1 .. 9
           /\ \A j \in Ahead : NextRequest <= j
           /\ saving.kind # "remove" => NextRequest \in DOMAIN Plan_.requests
<1>1. DOMAIN Plan_.requests \subseteq 1 .. 9
  BY EveryPagePlanned DEF AppInv, PageOK, Plan_, WellPlanned
<1>2. Ahead \subseteq 1 .. 9
  BY <1>1 DEF Ahead
<1>3. NextRequest \in Ahead /\ \A j \in Ahead : NextRequest <= j
  <2>1. Ahead \subseteq Nat
    BY <1>2
  <2>2. \E i \in Ahead : \A j \in Ahead : i <= j
    BY <2>1, LeastNumber, Zenon
  <2> QED
    BY <2>2 DEF NextRequest
<1> QED
  BY <1>2, <1>3 DEF Ahead

(* What a request leaves in the hub, field by field.                       *)
LEMMA FieldStored ==
    ASSUME saving.kind = "save", NEW request, NEW cut \in Cuts(request), NEW f \in Fields,
           ~(f = "enabled" /\ SwitchesOn(page, request))
    PROVE  /\ f \notin request.fields => Stored(request, cut)[f] = ram[f]
           /\ f \in request.fields /\ ~Overfull(request) =>
                 \/ Stored(request, cut)[f] = form[f]
                 \/ /\ f \in KeptIfBlank(page) /\ form[f] = Blank
                    /\ Stored(request, cut)[f] = ram[f]
<1>1. f \in DOMAIN cut => f \in request.fields /\ Overfull(request)
  BY DEF Cuts
<1> QED
  BY <1>1 DEF Stored

(* Which fields have room in their requests depends on what is shown.      *)
LEMMA RoomKept ==
    ASSUME UNCHANGED <<page, form>>
    PROVE  \A f : Fits(f)' = Fits(f) /\ SwitchedOn(f)' = SwitchedOn(f)
  BY DEF Fits, Overfull, SwitchedOn, Plan_

-----------------------------------------------------------------------------
LEMMA AppInvInit == Init => AppInv
<1> SUFFICES ASSUME Init
             PROVE  AppInv
  OBVIOUS
<1>1. form = [f \in Fields |-> form[f]] /\ HiddenIsBlank
  BY DEF Init, Opened, Blanks, HiddenIsBlank
<1> QED
  BY <1>1 DEF Init, Opened, AppInv, PageOK, ShowsTheHub, ShowsTheLoad, SoFarStored

(* Steps that leave the page, what it shows and a save as they are.        *)
LEMMA NothingShown ==
    ASSUME AppInv, UNCHANGED <<page, form, original, saving, touched>>,
           \/ ~current' /\ ~steady'
           \/ UNCHANGED <<ram, current, steady>>
    PROVE  AppInv'
<1>1. PageOK' /\ HiddenIsBlank' /\ ShowsTheLoad' /\ Fields' = Fields
  BY DEF AppInv, PageOK, HiddenIsBlank, ShowsTheLoad, Fields
<1>2. ShowsTheHub'
  BY <1>1 DEF AppInv, ShowsTheHub
<1>3. SoFarStored'
  <2>1. Plan_' = Plan_ /\ KeptIfBlank(page)' = KeptIfBlank(page)
    BY DEF Plan_
  <2>2. \A r : Due(r)' = Due(r)
    BY DEF Due, Given
  <2> QED
    BY <1>1, <2>1, <2>2, RoomKept DEF AppInv, SoFarStored
<1> QED
  BY <1>1, <1>2, <1>3 DEF AppInv

(* What a load shows is taken over as a whole, or not at all.              *)
LEMMA LoadShown ==
    ASSUME AppInv, EndLoad
    PROVE  AppInv'
<1> DEFINE shown == [f \in Fields |-> IF f \in Hidden THEN Blank ELSE loading.values[f]]
<1>1. UNCHANGED <<page, ram, saving>> /\ Fields' = Fields
  BY DEF EndLoad, hubMemory, Fields
<1>2. CASE loading.hit \/ Plan_.onLost = "blank"
  <2>1. /\ form' = shown /\ original' = shown /\ touched' = {} /\ ~steady'
        /\ current' <=> \A f \in Fields \ Hidden : shown[f] = ram[f]
    BY <1>2 DEF EndLoad
  <2>2. form' = [f \in Fields |-> form'[f]] /\ \A f \in Fields \cap Hidden : form'[f] = Blank
    BY <2>1
  <2>3. current' => \A f \in Fields \ Hidden : form'[f] = ram[f]
    BY <2>1
  <2> HIDE DEF shown
  <2>4. PageOK' /\ HiddenIsBlank'
    BY <1>1, <2>2 DEF AppInv, PageOK, HiddenIsBlank
  <2>5. ShowsTheHub'
    BY <1>1, <2>3 DEF ShowsTheHub
  <2>6. ShowsTheLoad' /\ SoFarStored'
    BY <1>1, <2>1 DEF ShowsTheLoad, SoFarStored
  <2> QED
    BY <2>4, <2>5, <2>6 DEF AppInv
<1>3. CASE ~(loading.hit \/ Plan_.onLost = "blank")
  <2>1. /\ UNCHANGED <<form, original, touched, current>> /\ (steady' => steady)
        /\ Plan_' = Plan_ /\ KeptIfBlank(page)' = KeptIfBlank(page)
    BY <1>1, <1>3 DEF EndLoad, Plan_
  <2>2. PageOK' /\ HiddenIsBlank' /\ ShowsTheLoad'
    BY <1>1, <2>1 DEF AppInv, PageOK, HiddenIsBlank, ShowsTheLoad
  <2>3. ShowsTheHub'
    BY <1>1, <2>1 DEF AppInv, ShowsTheHub
  <2>4. \A r : Due(r)' = Due(r)
    BY <2>1 DEF Due, Given
  <2>5. SoFarStored'
    BY <1>1, <2>1, <2>4, RoomKept DEF AppInv, SoFarStored
  <2> QED
    BY <2>2, <2>3, <2>5 DEF AppInv
<1> QED
  BY <1>2, <1>3

LEMMA PageReopened ==
    ASSUME AppInv, StartLoad
    PROVE  AppInv'
<1>1. UNCHANGED <<page, ram, saving>> /\ Fields' = Fields
  BY DEF StartLoad, hubMemory, Fields
<1>2. CASE Plan_.reopened
  <2>1. form' = Blanks /\ original' = None /\ touched' = {} /\ ~current' /\ saving = None
    BY <1>2 DEF StartLoad
  <2>2. form' = [f \in Fields |-> form'[f]] /\ \A f \in Fields : form'[f] = Blank
    BY <2>1 DEF Blanks
  <2> QED
    BY <1>1, <2>1, <2>2 DEF AppInv, PageOK, ShowsTheHub, HiddenIsBlank, ShowsTheLoad, SoFarStored
<1>3. CASE ~Plan_.reopened
  BY <1>1, <1>3, NothingShown DEF StartLoad, historyVars
<1> QED
  BY <1>2, <1>3

(* The user types, presses Save or Remove, or moves a switch.              *)
LEMMA UserActs ==
    ASSUME AppInv, User
    PROVE  AppInv'
<1>1. ASSUME NEW f \in Fields, NEW v, Edit(f, v)
      PROVE  AppInv'
  <2>1. /\ form' = [form EXCEPT ![f] = v] /\ touched' = touched \cup {f} /\ ~steady'
        /\ UNCHANGED <<page, ram, original, saving, current>> /\ Fields' = Fields
    BY <1>1 DEF Edit, hubMemory, Fields
  <2>2. form' = [g \in Fields |-> form'[g]] /\ \A g \in Fields \ {f} : form'[g] = form[g]
    BY <2>1 DEF AppInv, PageOK
  <2> QED
    BY <2>1, <2>2 DEF AppInv, PageOK, ShowsTheHub, HiddenIsBlank, ShowsTheLoad, SoFarStored
<1>2. ASSUME NEW kind \in {"save", "remove"}, PressSave(kind)
      PROVE  AppInv'
  <2>1. /\ UNCHANGED <<page, ram, form, original, touched, current>> /\ Fields' = Fields
        /\ saving = None /\ page # "dashboard"
    BY <1>2 DEF PressSave, hubMemory, Fields
  <2>2. CASE saving' = saving
    BY <2>1, <2>2 DEF AppInv, PageOK, ShowsTheHub, HiddenIsBlank, ShowsTheLoad, SoFarStored
  <2>3. CASE /\ saving' = [kind |-> kind, next |-> 1, ok |-> TRUE]
             /\ steady' = (original = [f \in Fields |-> IF f \in Hidden THEN Blank ELSE ram[f]])
    <3>1. saving' \in Saves /\ saving'.next = 1
      BY <2>3 DEF Saves
    <3>2. \A i \in DOMAIN Plan_.requests : ~(i < 1)
      BY EveryPagePlanned DEF AppInv, PageOK, Plan_, WellPlanned
    <3>3. Plan_' = Plan_
      BY <2>1 DEF Plan_
    <3>4. steady' => \A f \in Fields \ Hidden : ram[f] = original[f]
      BY <2>3
    <3>5. SoFarStored'
      BY <2>1, <3>1, <3>2, <3>3, <3>4 DEF SoFarStored
    <3> QED
      BY <2>1, <3>1, <3>5 DEF AppInv, PageOK, ShowsTheHub, HiddenIsBlank, ShowsTheLoad
  <2> QED
    BY <1>2, <2>2, <2>3 DEF PressSave
<1>3. ASSUME NEW outcome \in Outcomes, Toggle(outcome)
      PROVE  AppInv'
  <2>1. /\ UNCHANGED <<page, original, saving, touched, current, steady>> /\ Fields' = Fields
        /\ saving = None /\ page = "dashboard"
        /\ form' = form \/ form' = [form EXCEPT !["relay"] = IF @ = Blank THEN 1 ELSE Blank]
    BY <1>3 DEF Toggle, Fields, historyVars
  <2>2. form' = [f \in Fields |-> form'[f]] /\ \A f \in Fields \cap Hidden : form'[f] = form[f]
    BY <2>1 DEF AppInv, PageOK, Hidden
  <2> QED
    BY <2>1, <2>2 DEF AppInv, PageOK, ShowsTheHub, HiddenIsBlank, ShowsTheLoad, SoFarStored
<1> QED
  BY <1>1, <1>2, <1>3 DEF User

(* One request of a save, or its refusal for want of the right keys.       *)
LEMMA RequestSent ==
    ASSUME AppInv, NEW outcome \in Outcomes, Send(outcome)
    PROVE  AppInv'
<1>1. /\ UNCHANGED <<page, form, original, touched, steady>> /\ Fields' = Fields
      /\ Plan_' = Plan_ /\ saving # None /\ Ahead # {}
      /\ current' => \A f \in Fields \ (touched \cup Hidden) : ram'[f] = form[f]
  BY DEF Send, Fields, Plan_
<1>2. saving \in Saves /\ saving.kind \in {"save", "remove"}
  BY <1>1 DEF AppInv, PageOK, Saves
<1>3. /\ NextRequest \in Ahead /\ NextRequest \in 1 .. 9
      /\ \A j \in Ahead : NextRequest <= j
      /\ saving.kind # "remove" => NextRequest \in DOMAIN Plan_.requests
  BY <1>1, RequestAhead
<1>4. \/ saving' = None
      \/ saving' = [saving EXCEPT !.next = NextRequest + 1, !.ok = @ /\ Accepted(outcome)]
  BY DEF Send, Fail
<1>5. saving' # None =>
         /\ saving' \in Saves /\ saving'.kind = saving.kind
         /\ saving'.next = NextRequest + 1
         /\ saving'.ok => saving.ok /\ Accepted(outcome)
  <2> DEFINE n == NextRequest + 1
             b == saving.ok /\ Accepted(outcome)
  <2>1. n \in Nat /\ b \in BOOLEAN /\ (b => saving.ok /\ Accepted(outcome))
    BY <1>3
  <2>2. saving' # None => saving' = GoneOn(saving, n, b)
    BY <1>4 DEF GoneOn
  <2> HIDE DEF n, b
  <2>3. PICK v \in BOOLEAN : v = b
    BY <2>1
  <2>4. /\ GoneOn(saving, n, v) \in Saves /\ GoneOn(saving, n, v).kind = saving.kind
        /\ GoneOn(saving, n, v).next = n /\ GoneOn(saving, n, v).ok = v
    BY <1>2, <2>1, SaveGoesOn, ZenonT(40)
  <2>5. saving' # None => /\ saving' \in Saves /\ saving'.kind = saving.kind
                         /\ saving'.next = n /\ saving'.ok = b
    BY <2>2, <2>3, <2>4, Zenon
  <2> QED
    BY <2>1, <2>5 DEF n
<1> DEFINE request == Plan_.requests[NextRequest]
<1>6. CASE saving.kind = "save"
  <2>1. /\ ReachesHub(outcome) => \E cut \in Cuts(request) : ram' = Stored(request, cut)
        /\ ~ReachesHub(outcome) => ram' = ram
    BY <1>6 DEF Send
  <2>2. ASSUME NEW f \in Fields, Fits(f), ~(f = "enabled" /\ SwitchesOn(page, request))
        PROVE  ram'[f] = form[f] \/ ram'[f] = ram[f]
    <3>1. f \in request.fields => ~Overfull(request)
      BY <1>3, <1>6, <2>2 DEF Fits
    <3> QED
      BY <1>6, <2>1, <2>2, <3>1, FieldStored
  <2>3. SoFarStored'
    <3>0. /\ Plan_' = Plan_ /\ KeptIfBlank(page)' = KeptIfBlank(page)
          /\ \A r : Due(r)' = Due(r)
          /\ \A f : Fits(f)' = Fits(f) /\ SwitchedOn(f)' = SwitchedOn(f)
      BY <1>1, RoomKept DEF Due, Given
    <3> SUFFICES ASSUME saving' # None, saving'.ok, steady
                 PROVE  /\ \A f \in Fields \ Hidden :
                              Fits(f) /\ ~SwitchedOn(f)
                                 => ram'[f] = original[f] \/ ram'[f] = form[f]
                        /\ \A i \in DOMAIN Plan_.requests :
                              i < saving'.next /\ Due(Plan_.requests[i])
                                 => \A f \in Plan_.requests[i].fields :
                                       Fits(f) => \/ ram'[f] = form[f]
                                                  \/ f \in KeptIfBlank(page) /\ form[f] = Blank
      BY <1>1, <3>0 DEF SoFarStored
    <3>1. /\ \A f \in Fields \ Hidden :
                Fits(f) /\ ~SwitchedOn(f) => ram[f] = original[f] \/ ram[f] = form[f]
          /\ \A i \in DOMAIN Plan_.requests :
                i < saving.next /\ Due(Plan_.requests[i])
                    => \A f \in Plan_.requests[i].fields :
                          Fits(f) => \/ ram[f] = form[f]
                                     \/ f \in KeptIfBlank(page) /\ form[f] = Blank
      BY <1>1, <1>5, <1>6 DEF AppInv, SoFarStored
    <3>2. \A f \in Fields \ Hidden :
              Fits(f) /\ ~SwitchedOn(f) => ram'[f] = original[f] \/ ram'[f] = form[f]
      BY <2>2, <3>1 DEF SwitchedOn, SwitchesOn
    <3>3. ASSUME NEW i \in DOMAIN Plan_.requests, i < saving'.next, Due(Plan_.requests[i]),
                 NEW f \in Plan_.requests[i].fields, Fits(f)
          PROVE  \/ ram'[f] = form[f]
                 \/ f \in KeptIfBlank(page) /\ form[f] = Blank
      <4>1. f \in Fields
        BY DEF Fields, FieldsOn, FieldsOf, Plan_
      <4>2. i \in 1 .. 9
        BY EveryPagePlanned DEF AppInv, PageOK, Plan_, WellPlanned
      <4>3. SwitchesOn(page, request) => NextRequest = 1 /\ "enabled" \notin request.fields
        BY <1>3, <1>6, LocalPlan DEF SwitchesOn, Plan_
      <4>4. CASE i < saving.next
        <5>1. NextRequest # 1
          BY <1>2, <1>3, <1>6, <4>2, <4>4 DEF Ahead, Saves
        <5> QED
          BY <2>2, <3>1, <3>3, <4>1, <4>3, <4>4, <5>1
      <4>5. CASE ~(i < saving.next)
        <5>1. i \in Ahead
          BY <1>2, <1>5, <1>6, <3>3, <4>2, <4>5 DEF Ahead, Saves
        <5>2. i = NextRequest
          BY <1>3, <1>5, <3>3, <4>2, <5>1
        <5>3. PICK cut \in Cuts(request) : ram' = Stored(request, cut)
          BY <1>5, <2>1 DEF Accepted, ReachesHub
        <5>4. ~Overfull(request) /\ ~(f = "enabled" /\ SwitchesOn(page, request))
          BY <1>3, <1>6, <3>3, <4>3, <5>2 DEF Fits
        <5> QED
          BY <1>6, <3>3, <4>1, <5>2, <5>3, <5>4, FieldStored
      <4> QED
        BY <4>4, <4>5
    <3> QED
      BY <3>2, <3>3
  <2> QED
    BY <1>1, <1>5, <2>3 DEF AppInv, PageOK, HiddenIsBlank, ShowsTheLoad, ShowsTheHub
<1>7. CASE saving.kind = "remove"
  BY <1>1, <1>5, <1>7 DEF AppInv, PageOK, ShowsTheHub, HiddenIsBlank, ShowsTheLoad, SoFarStored
<1> QED
  BY <1>2, <1>6, <1>7

LEMMA RequestRefused ==
    ASSUME AppInv, SendUnauthorised
    PROVE  AppInv'
<1>1. /\ UNCHANGED <<page, ram, form, original, touched, current, steady>>
      /\ Fields' = Fields /\ saving # None /\ Ahead # {}
      /\ saving' = [saving EXCEPT !.next = NextRequest + 1, !.ok = FALSE]
  BY DEF SendUnauthorised, Fields, hubMemory, historyVars
<1>2. saving' \in Saves /\ saving'.ok = FALSE
  <2> DEFINE n == NextRequest + 1
  <2>1. n \in Nat /\ FALSE \in BOOLEAN /\ saving' = GoneOn(saving, n, FALSE)
    BY <1>1, RequestAhead DEF GoneOn
  <2>2. saving \in Saves
    BY <1>1 DEF AppInv, PageOK
  <2> HIDE DEF n
  <2> QED
    BY <2>1, <2>2, SaveGoesOn, Zenon
<1> QED
  BY <1>1, <1>2 DEF AppInv, PageOK, ShowsTheHub, HiddenIsBlank, ShowsTheLoad, SoFarStored

(* The end of a save.  What the relay's page remembers of a field other    *)
(* than the colour is what it shows.                                       *)
LEMMA SaveEnded ==
    ASSUME AppInv, NEW outcome \in Outcomes, Finish(outcome)
    PROVE  AppInv'
<1>1. UNCHANGED <<page, ram, touched, steady>> /\ Fields' = Fields /\ saving' = None
  BY DEF Finish, Settle, Fail, Fields, historyVars
<1>2. CASE UNCHANGED <<form, original, current>>
  BY <1>1, <1>2 DEF AppInv, PageOK, ShowsTheHub, HiddenIsBlank, ShowsTheLoad, SoFarStored
<1>3. CASE form' = Blanks /\ original' = None /\ current' = FALSE
  <2>1. form' = [f \in Fields |-> form'[f]] /\ \A f \in Fields : form'[f] = Blank
    BY <1>3 DEF Blanks
  <2> QED
    BY <1>1, <1>3, <2>1
       DEF AppInv, PageOK, ShowsTheHub, HiddenIsBlank, ShowsTheLoad, SoFarStored
<1>4. CASE /\ form' = [f \in Fields |-> IF f \in Hidden THEN Blank ELSE form[f]]
           /\ original' = IF page = "relay" THEN [f \in Fields |-> AfterSave(f, form[f])]
                                           ELSE original
           /\ UNCHANGED historyVars
  <2>1. /\ form' = [f \in Fields |-> form'[f]]
        /\ \A f \in Fields \cap Hidden : form'[f] = Blank
        /\ \A f \in Fields \ Hidden : form'[f] = form[f]
    BY <1>4
  <2>2. PageOK' /\ HiddenIsBlank' /\ SoFarStored'
    BY <1>1, <2>1 DEF AppInv, PageOK, HiddenIsBlank, SoFarStored
  <2>3. ShowsTheHub'
    BY <1>1, <1>4, <2>1 DEF AppInv, ShowsTheHub, historyVars
  <2>4. ShowsTheLoad'
    <3> SUFFICES ASSUME page = "relay", NEW f \in Fields \ (touched \cup {"colour"})
                 PROVE  form'[f] = original'[f]
      BY <1>1 DEF ShowsTheLoad
    <3>1. f \notin Hidden
      BY RelayHidesNothing DEF Fields, FieldsOn
    <3> QED
      BY <1>4, <2>1, <3>1 DEF AfterSave
  <2> QED
    BY <2>2, <2>3, <2>4 DEF AppInv
<1> QED
  BY <1>1, <1>2, <1>3, <1>4 DEF Finish, Settle, Fail, historyVars

LEMMA AppInvStep == AppInv /\ [Next]_appVars => AppInv'
<1> SUFFICES ASSUME AppInv, [Next]_appVars
             PROVE  AppInv'
  OBVIOUS
<1>1. CASE User
  BY <1>1, UserActs
<1>2. CASE Refresh
  <2>1. ASSUME NEW answered \in BOOLEAN, Read(answered)
        PROVE  AppInv'
    BY <2>1, NothingShown DEF Read, hubMemory, historyVars
  <2> QED
    BY <1>2, <2>1, PageReopened, LoadShown DEF Refresh
<1>3. CASE Save
  BY <1>3, RequestSent, RequestRefused, SaveEnded DEF Save
<1>4. CASE Poll
  BY <1>4, NothingShown DEF Poll, hubMemory, pageVars, historyVars
<1>5. CASE Others
  BY <1>5, NothingShown DEF Others, Foreign, Restart, pageVars
<1>6. CASE UNCHANGED appVars
  BY <1>6, NothingShown DEF appVars, hubMemory, pageVars, historyVars
<1> QED
  BY <1>1, <1>2, <1>3, <1>4, <1>5, <1>6 DEF Next

-----------------------------------------------------------------------------
(* A save changes what the user changed and nothing else, on every page,   *)
(* whatever was lost, refused or changed by others before.                 *)
THEOREM UntouchedStay == Spec => UntouchedKept
<1> DEFINE Kept ==
        saving # None /\ saving.kind = "save"
        => \A f \in Fields : ram'[f] # ram[f]
             => \/ f \in touched
                \/ /\ ~ComparedOnly(f)
                   /\ ~current \/ ~Fits(f) \/ SwitchedOn(f)
<1>1. AppInv /\ [Next]_appVars => [Kept]_saving
  <2> SUFFICES ASSUME AppInv, Next, saving' # saving, saving # None, saving.kind = "save",
                      NEW f \in Fields, ram'[f] # ram[f], f \notin touched,
                      ComparedOnly(f) \/ (current /\ Fits(f) /\ ~SwitchedOn(f))
               PROVE  FALSE
    BY DEF appVars, pageVars
  <2>1. PICK outcome \in Outcomes : Send(outcome)
    BY DEF Next, User, Edit, PressSave, Toggle, Refresh, StartLoad, Read, EndLoad, Save,
       SendUnauthorised, Finish, Poll, Others, Foreign, Restart, hubMemory, pageVars
  <2> DEFINE request == Plan_.requests[NextRequest]
  <2>2. /\ NextRequest \in Ahead /\ NextRequest \in DOMAIN Plan_.requests
        /\ Due(request)
    BY <2>1, RequestAhead DEF Send, Ahead
  <2>3. /\ f \in request.fields
        /\ ~Overfull(request) => form[f] # ram[f]
    <3>1. PICK cut \in Cuts(request) : ram' = Stored(request, cut)
      BY <2>1 DEF Send
    <3>2. ~(f = "enabled" /\ SwitchesOn(page, request))
      BY DEF ComparedOnly, SwitchedOn, SwitchesOn
    <3> QED
      BY <3>1, <3>2, FieldStored
  <2>4. page \in Pages /\ page # "dashboard"
    BY DEF AppInv, PageOK
  <2>5. f \notin Hidden
    <3>1. f \in Hidden => request.when = "given"
      BY <2>2, <2>3, <2>4, EveryPagePlanned DEF WellPlanned, Plan_
    <3>2. request.when = "given" => form[f] # Blank
      BY <2>2, <2>3 DEF Due, Given
    <3> QED
      BY <3>1, <3>2 DEF AppInv, HiddenIsBlank
  <2>6. CASE current /\ Fits(f)
    <3>1. form[f] # ram[f]
      BY <2>2, <2>3, <2>6 DEF Fits
    <3> QED
      BY <2>4, <2>5, <2>6, <3>1 DEF AppInv, ShowsTheHub
  <2>7. CASE ComparedOnly(f)
    <3>0. page = "relay" /\ f # "colour" /\ original # None
      BY <2>7 DEF ComparedOnly
    <3>1. request.when = "changed" /\ \A g \in request.fields : g = f
      BY <2>2, <2>3, <3>0, RelayPlan DEF Plan_
    <3>2. form[f] # original[f]
      BY <2>2, <3>0, <3>1 DEF Due
    <3> QED
      BY <3>0, <3>2 DEF AppInv, ShowsTheLoad
  <2> QED
    BY <2>6, <2>7
<1> QED
  BY <1>1, AppInvInit, AppInvStep, PTL DEF Spec, UntouchedKept

(* "Saved" is said when the hub has what is shown, and has it stored where *)
(* the page looks at that.                                                 *)
THEOREM SavedIsStored == Spec => SavedMeansStored
<1> DEFINE Told ==
        /\ saving # None /\ saving' = None /\ status' = "saved"
        /\ saving.kind = "save" /\ steady
        => \A f \in Fields :
              Sent(f) /\ Fits(f) /\ (form[f] = Blank => f \notin KeptIfBlank(page))
              => /\ ram'[f] = form[f]
                 /\ Plan_.counted => eeprom'[f] = form[f]
<1>1. AppInv /\ [Next]_appVars => [Told]_appVars
  <2> SUFFICES ASSUME AppInv, Next, saving # None, saving' = None, status' = "saved",
                      saving.kind = "save", steady, NEW f \in Fields, Sent(f), Fits(f),
                      form[f] = Blank => f \notin KeptIfBlank(page)
               PROVE  ram'[f] = form[f] /\ (Plan_.counted => eeprom'[f] = form[f])
    OBVIOUS
  <2>0. saving \in Saves
    BY DEF AppInv, PageOK
  <2>1. PICK outcome \in Outcomes : Finish(outcome)
    <3>1. ASSUME NEW outcome \in Outcomes, Send(outcome)
          PROVE  FALSE
      <4>1. saving' = [saving EXCEPT !.next = NextRequest + 1, !.ok = @ /\ Accepted(outcome)]
        BY <3>1 DEF Send, Fail
      <4> DEFINE n == NextRequest + 1
                 b == saving.ok /\ Accepted(outcome)
      <4>2. n \in Nat /\ b \in BOOLEAN
        BY <3>1, RequestAhead DEF Send
      <4>3. saving' = GoneOn(saving, n, b)
        BY <4>1 DEF GoneOn
      <4> HIDE DEF n, b
      <4> QED
        <5>1. PICK v \in BOOLEAN : v = b
          BY <4>2
        <5>2. GoneOn(saving, n, v) # None
          BY <2>0, <4>2, SaveGoesOn, Zenon
        <5> QED
          BY <4>3, <5>1, <5>2, Zenon
    <3>2. ~SendUnauthorised
      <4> SUFFICES ASSUME SendUnauthorised
                   PROVE  FALSE
        OBVIOUS
      <4> DEFINE n == NextRequest + 1
      <4>1. n \in Nat /\ FALSE \in BOOLEAN /\ saving' = GoneOn(saving, n, FALSE)
        BY RequestAhead DEF SendUnauthorised, GoneOn
      <4> HIDE DEF n
      <4>2. GoneOn(saving, n, FALSE) # None
        BY <2>0, <4>1, SaveGoesOn, Zenon
      <4> QED
        BY <4>1, <4>2, Zenon
    <3> QED
      BY <3>1, <3>2 DEF Next, User, Edit, PressSave, Toggle, Refresh, StartLoad, Read,
         EndLoad, Save, Poll, Others, Foreign, Restart, hubMemory, pageVars
  <2>2. /\ saving.ok /\ Ahead = {} /\ ram' = ram
        /\ Plan_.counted => eeprom' = ram
    <3>1. "failed" # "saved"
      OBVIOUS
    <3>2. Plan_.counted => StoresAll
      BY <2>0, <2>1, <3>1, CountedIsStored DEF Finish, Fail, StoresAll, AppInv, PageOK, Plan_
    <3> QED
      BY <2>1, <3>1, <3>2 DEF Finish, Fail
  <2>3. ram[f] = form[f]
    <3>1. PICK i \in DOMAIN Plan_.requests :
              /\ f \in Plan_.requests[i].fields
              /\ \/ Plan_.requests[i].when = "changed" /\ ~SwitchedOn(f)
                 \/ Due(Plan_.requests[i])
      BY DEF Sent
    <3>2. i \in 1 .. 9 /\ (f \in Hidden => Plan_.requests[i].when = "given")
      BY <3>1, EveryPagePlanned DEF AppInv, PageOK, Plan_, WellPlanned
    <3>3. CASE Due(Plan_.requests[i])
      <4>1. i < saving.next
        BY <2>0, <2>2, <3>2, <3>3 DEF Ahead, Saves
      <4> QED
        BY <2>2, <3>1, <3>3, <4>1 DEF AppInv, SoFarStored
    <3>4. CASE /\ Plan_.requests[i].when = "changed" /\ ~Due(Plan_.requests[i])
               /\ ~SwitchedOn(f)
      <4>1. form[f] = original[f]
        BY <3>1, <3>4 DEF Due
      <4> QED
        BY <2>2, <3>2, <3>4, <4>1 DEF AppInv, SoFarStored
    <3> QED
      BY <3>1, <3>3, <3>4
  <2> QED
    BY <2>2, <2>3
<1> QED
  BY <1>1, AppInvInit, AppInvStep, PTL DEF Spec, SavedMeansStored
=============================================================================
