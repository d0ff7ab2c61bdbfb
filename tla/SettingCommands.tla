--------------------------- MODULE SettingCommands ---------------------------
(***************************************************************************)
(* What becomes of a value that a command asks for: how each of the three  *)
(* ways in reads it (the serial line, the web server, the file on the SD   *)
(* card), and what the setter of ConfigController stores.  A value is a    *)
(* number; a text is its length, and holds no separator of the formats; an *)
(* IP address or an MMSI is a number that stands for it.                   *)
(***************************************************************************)
EXTENDS Integers

CONSTANT RelayCount     \* ConfigRelayCount
ASSUME RelayCountAssumption == RelayCount \in 1 .. 255

NoNumber == -1000000    \* a text that is no number, or no address, or no MMSI
TrueWord == -1000001    \* "true" or "on"
Refused  == -1000002    \* in the place of a value: the command is refused

NameLength     == 31    \* these count the terminating zero
CallSignLength == 10
HomePortLength == 31
BrokerLength   == 64
MqttTextLength == 32
KeyLength      == 32

QueryTextLength == 62   \* of the 63 characters that are kept of a query "v=" takes two

-----------------------------------------------------------------------------
(* The readers.  atoi gives 0 for what is no number and the cast cuts what *)
(* is too large; parseUnsigned and parseSigned refuse both.                *)

Atoi(a)        == IF a \in {NoNumber, TrueWord} THEN 0 ELSE a
Cut8(n)        == n % 256
Cut16(n)       == n % 65536
CutSigned8(n)  == ((n + 128) % 256) - 128
Within(S, v)   == IF v \in S THEN v ELSE Refused
Unsigned8(a)   == Within(0 .. 255, a)
Unsigned16(a)  == IF a >= 0 /\ a < 65536 THEN a ELSE Refused
Unsigned32(a)  == IF a >= 0 THEN a ELSE Refused
Signed8(a)     == Within(-128 .. 127, a)
Boolean(a)     == IF a \in {1, TrueWord} THEN 1 ELSE 0
NotZero(a)     == IF Atoi(a) # 0 THEN 1 ELSE 0
Clip(n, size)  == IF n > size - 1 THEN size - 1 ELSE n

-----------------------------------------------------------------------------
(* The setters of ConfigController: the value stored, or Refused.          *)

Rename(v) == IF v > NameLength THEN Refused ELSE Clip(v, NameLength)
MapHomeButton(v)            == Within(0 .. RelayCount - 1, v)
SetLocationType(v)          == v
SetSoundDelayStart(v)       == v
SetWifiAccessMode(v)        == Within({0, 1}, v)
SetWifiSsid(v)              == Within(0 .. 32, v)
SetWifiPassword(v)          == Within(0 .. 64, v)
SetWifiPort(v)              == IF v = 0 THEN Refused ELSE v
SetWifiIpAddress(v)         == IF v = NoNumber THEN Refused ELSE v
SetTimezoneOffset(v)        == Within(-12 .. 14, v)
SetMmsi(v)                  == IF v = NoNumber THEN Refused ELSE v
SetCallSign(v)              == Clip(v, CallSignLength)
SetHomePort(v)              == Clip(v, HomePortLength)
SetLedColor(v)              == v
SetLedBrightness(v)         == IF v > 100 THEN Refused ELSE v
SetLedAutoSwitch(v)         == v
SetLedEnableStates(v)       == v
SetControlPanelTones(v)     == Within((0 .. 5) \cup {255}, v)
SetSdCardInitializeSpeed(v) == Within({4, 8, 12, 16, 20, 24}, v)
SetLightSensorThreshold(v)  == IF v > 1023 THEN Refused ELSE v
SetNextionEnabled(v)        == v
SetNextionHardwareSerial(v) == v
SetNextionBaudRate(v)       == v
SetNextionUartNum(v)        == Within({1, 2}, v)

(* The setters of RelayController.  A name is two texts, short and long,   *)
(* here one number; a command without any is NoNumber.                     *)

ShortLength    == 6
LongLength     == 21
Names(s, l)    == 100 * s + l
RenameRelay(v) == Names(Clip(v \div 100, ShortLength), Clip(v % 100, LongLength))
SetButtonColor(v)        == v
SetRelayDefaultState(v)  == v
SetRelayActionType(v)    == Within(0 .. 2, v)

-----------------------------------------------------------------------------
(* The serial line, ConfigCommandHandler.                                  *)

SerialC3(a)  == Rename(a)
SerialC5(a)  == MapHomeButton(Cut8(Atoi(a)))
SerialC7(a)  == SetLocationType(Cut8(Atoi(a)))
SerialC9(a)  == SetSoundDelayStart(Cut16(Atoi(a)))
SerialC10(a) == Boolean(a)
SerialC11(a) == Boolean(a)
SerialC12(a) == SetWifiAccessMode(Cut8(Atoi(a)))
SerialC13(a) == SetWifiSsid(a)
SerialC14(a) == SetWifiPassword(a)
SerialC15(a) == SetWifiPort(Cut16(Atoi(a)))
SerialC17(a) == SetWifiIpAddress(a)
SerialC20(a) == SetTimezoneOffset(CutSigned8(Atoi(a)))
SerialC21(a) == SetMmsi(a)
SerialC22(a) == SetCallSign(a)
SerialC23(a) == SetHomePort(a)
SerialC24(a) == SetLedColor(Unsigned8(a))
SerialC25(a) == IF Unsigned8(a) = Refused THEN Refused ELSE SetLedBrightness(a)
SerialC26(a) == SetLedAutoSwitch(Boolean(a))
SerialC28(a) == IF Unsigned8(a) = Refused THEN Refused ELSE SetControlPanelTones(a)
SerialC31(a) == SetSdCardInitializeSpeed(Cut8(Atoi(a)))
SerialC33(a) == SetLightSensorThreshold(Cut16(Atoi(a)))
SerialN1(a)  == SetNextionEnabled(Boolean(a))
SerialN2(a)  == SetNextionHardwareSerial(Boolean(a))
SerialN5(a)  == SetNextionBaudRate(Unsigned32(a))
SerialN6(a)  == SetNextionUartNum(Unsigned8(a))

\* C27 g, w and s as one number of three bits.  When g is missing the reading
\* stops, and what is stored and acknowledged is that all three are off.
SerialC27(a) == SetLedEnableStates(IF a = NoNumber THEN 0 ELSE a)

(* A relay's, RelayCommandHandler.  A color is shifted before it is looked *)
(* at, from the number of a color to that of a picture.                    *)
SerialR6(a)  == IF a = NoNumber THEN Refused ELSE RenameRelay(a)
SerialR7(a)  == LET color == IF Cut8(Atoi(a)) < 255 THEN Cut8(Atoi(a)) + 2 ELSE 255
                IN  SetButtonColor(Within((2 .. 7) \cup {255}, color))
SerialR8(a)  == SetRelayDefaultState(Boolean(a))
SerialR10(a) == SetRelayActionType(Cut8(Atoi(a)))

(* MQTT settings from the serial line, MQTTConfigCommandHandler: an empty  *)
(* text is refused, a long one cut, and a port or interval must fit.       *)

MqttText(a, size) == IF a = 0 THEN Refused ELSE Clip(a, size)
MqttNumber(a)     == IF Atoi(a) > 0 /\ Atoi(a) < 65536 THEN Atoi(a) ELSE Refused

SerialM0(a) == Boolean(a)
SerialM1(a) == MqttText(a, BrokerLength)
SerialM2(a) == MqttNumber(a)
SerialM3(a) == MqttText(a, MqttTextLength)
SerialM4(a) == MqttText(a, MqttTextLength)
SerialM5(a) == MqttText(a, MqttTextLength)
SerialM6(a) == Boolean(a)
SerialM7(a) == MqttNumber(a)
SerialM9(a) == MqttText(a, MqttTextLength)

-----------------------------------------------------------------------------
(* The web server, ConfigNetworkHandler.                                   *)

HttpC3(a)  == Rename(a)
HttpC5(a)  == MapHomeButton(Cut8(Atoi(a)))
HttpC7(a)  == SetLocationType(Unsigned8(a))
HttpC9(a)  == SetSoundDelayStart(Unsigned16(a))
HttpC10(a) == Boolean(a)
HttpC11(a) == Boolean(a)
HttpC12(a) == SetWifiAccessMode(Unsigned8(a))
HttpC13(a) == SetWifiSsid(a)
HttpC14(a) == SetWifiPassword(a)
HttpC15(a) == SetWifiPort(Unsigned16(a))
HttpC17(a) == SetWifiIpAddress(a)
HttpC20(a) == SetTimezoneOffset(Signed8(a))
HttpC21(a) == SetMmsi(a)
HttpC22(a) == IF a > CallSignLength THEN Refused ELSE SetCallSign(a)
HttpC23(a) == IF a > HomePortLength THEN Refused ELSE SetHomePort(a)
HttpC24(a) == SetLedColor(Unsigned8(a))
HttpC25(a) == IF Unsigned8(a) = Refused THEN Refused ELSE SetLedBrightness(a)
HttpC26(a) == SetLedAutoSwitch(Boolean(a))
HttpC27(a) == IF a = NoNumber THEN Refused ELSE SetLedEnableStates(a)
HttpC28(a) == IF Unsigned8(a) = Refused THEN Refused ELSE SetControlPanelTones(a)
HttpC31(a) == SetSdCardInitializeSpeed(Unsigned8(a))
HttpN1(a)  == SetNextionEnabled(Boolean(a))
HttpN2(a)  == SetNextionHardwareSerial(Boolean(a))
HttpN5(a)  == SetNextionBaudRate(Unsigned32(a))
HttpN6(a)  == SetNextionUartNum(Unsigned8(a))

(* MQTT settings over HTTP, MQTTNetworkHandler, which always answers       *)
(* success: a port or interval that is cut to 0 is left as it was.         *)

Ignored == -1000003     \* in the place of a value: acknowledged, not stored

KeptIfZero(n) == IF n = 0 THEN Ignored ELSE n

\* A relay's, RelayNetworkHandler: a refused action type is acknowledged too.
HttpR6(a)  == RenameRelay(IF a = NoNumber THEN 0 ELSE a)
HttpR7(a)  == SetButtonColor(Cut8(Atoi(a)))
HttpR8(a)  == SetRelayDefaultState(IF Atoi(a) > 0 THEN 1 ELSE 0)
HttpR10(a) == IF SetRelayActionType(Cut8(Atoi(a))) = Refused THEN Ignored
              ELSE Cut8(Atoi(a))

HttpM0(a) == IF a = 1 THEN 1 ELSE 0
HttpM1(a) == Clip(a, BrokerLength)
HttpM2(a) == KeptIfZero(Cut16(Atoi(a)))
HttpM3(a) == Clip(a, MqttTextLength)
HttpM4(a) == Clip(a, MqttTextLength)
HttpM5(a) == Clip(a, MqttTextLength)
HttpM6(a) == IF a = 1 THEN 1 ELSE 0
HttpM7(a) == KeptIfZero(Cut16(Atoi(a)))
HttpM9(a) == Clip(a, MqttTextLength)

-----------------------------------------------------------------------------
(* A line of config.txt, SdCardConfigLoader::applyConfigCommand.           *)

CardR6(a)  == RenameRelay(IF a = NoNumber THEN 0 ELSE a)
CardR7(a)  == SetButtonColor(Cut8(Atoi(a)))
CardR8(a)  == SetRelayDefaultState(Boolean(a))
CardR10(a) == SetRelayActionType(Cut8(Atoi(a)))
CardC3(a)  == Rename(a)
CardC5(a)  == MapHomeButton(Cut8(Atoi(a)))
CardC7(a)  == SetLocationType(Cut8(Atoi(a)))
CardC9(a)  == SetSoundDelayStart(Cut16(Atoi(a)))
CardC10(a) == NotZero(a)
CardC11(a) == NotZero(a)
CardC12(a) == SetWifiAccessMode(Cut8(Atoi(a)))
CardC13(a) == SetWifiSsid(a)
CardC14(a) == SetWifiPassword(a)
CardC15(a) == SetWifiPort(Cut16(Atoi(a)))
CardC17(a) == SetWifiIpAddress(a)
\* fault: the offset is read as a byte without a sign.
CardC20NoSign(a) == SetTimezoneOffset(Cut8(Atoi(a)))
CardC20(a) == SetTimezoneOffset(CutSigned8(Atoi(a)))
CardC21(a) == SetMmsi(a)
CardC22(a) == SetCallSign(a)
CardC23(a) == SetHomePort(a)
CardC24(a) == SetLedColor(Cut8(Atoi(a)))
CardC25(a) == SetLedBrightness(Cut8(Atoi(a)))
CardC26(a) == SetLedAutoSwitch(NotZero(a))
CardC27(a) == SetLedEnableStates(IF a = NoNumber THEN 0 ELSE a)
CardC28(a) == SetControlPanelTones(Cut8(Atoi(a)))
CardC31(a) == SetSdCardInitializeSpeed(Cut8(Atoi(a)))
CardC33(a) == SetLightSensorThreshold(Cut16(Atoi(a)))
=============================================================================
