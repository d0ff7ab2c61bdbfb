------------------------------ MODULE AppForms ------------------------------
(***************************************************************************)
(* The pages of the app on which settings of the hub are shown and edited, *)
(* each as a plan: the requests its Save sends, in their order, and how the *)
(* page deals with what is lost.  AppClient carries the plans out.          *)
(*                                                                         *)
(*   requests  the fields each request carries and when it is sent          *)
(*   reads     the fields each request of a load asks for                   *)
(*   source    a load copies the poller's snapshot when there is one        *)
(*   onLost    what an unanswered read shows: a blank, or what was there    *)
(*   catches   the service turns a lost request into a mere failure; else   *)
(*             its exception ends the save                                  *)
(*   stops     the first failure ends the save                              *)
(*   save      when the request that stores everything (C0) follows         *)
(*   counted   whether the page looks at the result of C0                   *)
(*   removes   the page can remove what it shows                            *)
(*   live      the loop of the base class loads it every second             *)
(*   reopened  it has no button to load again: a load is a new page         *)
(***************************************************************************)
EXTENDS Naturals, Sequences

\* An empty text, an unset pin, an unchecked box.
Blank == 0

\* Location type for which the page shows the boat's own fields.
Boat == 1

\* `when`: "always"; "changed" since the load; "given" if no field is blank;
\* "boat" if given and the location is a boat.
Sends(fields, when) == [fields |-> fields, when |-> when]

\* A sequence of requests: those with a field in `given` are sent when it is.
Sending(requests, given, otherwise) ==
    [i \in DOMAIN requests |->
        Sends(requests[i], IF requests[i] \cap given # {} THEN "given" ELSE otherwise)]

FieldsOf(requests) == UNION {requests[i].fields : i \in DOMAIN requests}

\* The manner of most settings pages: everything read at once, failures
\* collected, the result of C0 ignored.
Page(requests) ==
    [requests |-> requests, reads |-> <<FieldsOf(requests)>>, source |-> "hub",
     onLost |-> "kept", catches |-> TRUE, stops |-> FALSE,
     save |-> "always", counted |-> FALSE, removes |-> FALSE, live |-> FALSE,
     reopened |-> FALSE]

---------------------------------------------------------------------------
(* The requests of ConfigConnection, in the order in which the pages use    *)
(* them, each with the fields it carries.                                   *)

RelayRequests == <<{"name"}, {"pin"}, {"default"}, {"colour"}, {"action"}>>
ExternalRequests == <<{"name", "slug"}, {"class"}>>
LocalRequests == <<{"type", "option"}, {"name"}, {"pin"}, {"option"}, {"enabled"}>>
MqttRequests == <<{"enabled"}, {"broker"}, {"port"}, {"username"}, {"password"},
                  {"deviceId"}, {"discovery"}, {"keepAlive"}, {"prefix"}>>
NextionRequests == <<{"enabled"}, {"serial"}, {"rx"}, {"tx"}, {"baud"}, {"uart"}>>
SdCardRequests == <<{"sck", "mosi", "miso"}, {"cs"}, {"speed"}>>
RtcRequests == <<{"data", "clock", "reset"}>>
ToneRequests == <<{"tone"}>>
PlaceRequests == <<{"location"}, {"name"}>>
BoatRequests == <<{"mmsi"}, {"callsign"}, {"homePort"}>>
AuthRequests == <<{"apiKey"}, {"hmacKey"}, {"enabled"}>>
TimezoneRequests == <<{"offset"}>>

\* Typed by the user, never read from the hub.
Hidden == {"password"}

---------------------------------------------------------------------------
(* The pages *)

\* Shows what the poller last fetched; sends what differs from that.
RelayForm ==
    [Page(Sending(RelayRequests, {}, "changed"))
        EXCEPT !.source = "snapshot", !.onLost = "blank", !.catches = FALSE,
               !.save = "ifOk", !.counted = TRUE, !.reopened = TRUE]

ExternalForm ==
    [Page(Sending(ExternalRequests, {}, "always"))
        EXCEPT !.catches = FALSE, !.save = "ifOk", !.counted = TRUE,
               !.removes = TRUE, !.reopened = TRUE]

LocalForm ==
    LET type == Sending(<<Head(LocalRequests)>>, {}, "always")
        others == Sending(Tail(LocalRequests), {}, "changed")
    IN [Page(type \o others)
            EXCEPT !.catches = FALSE, !.counted = TRUE, !.removes = TRUE, !.reopened = TRUE]

\* Each setting is read with a request of its own.
MqttForm ==
    [Page(Sending(MqttRequests, {"port", "password", "keepAlive"}, "always"))
        EXCEPT !.reads = SelectSeq(MqttRequests, LAMBDA fields : fields \cap Hidden = {}),
               !.onLost = "blank"]

\* Refreshed every second, by the loop of the base class.
NextionForm ==
    [Page(Sending(NextionRequests, {"baud", "uart"}, "always"))
        EXCEPT !.onLost = "blank", !.live = TRUE]

SdCardForm == Page(Sending(SdCardRequests, {}, "given"))
RtcForm == Page(Sending(RtcRequests, {}, "given"))
ToneForm == Page(Sending(ToneRequests, {}, "given"))

LocationForm ==
    [Page(Sending(PlaceRequests, {"name"}, "always") \o Sending(BoatRequests, {}, "boat"))
        EXCEPT !.stops = TRUE, !.save = "ifOk", !.counted = TRUE]

SecurityForm == [Page(Sending(AuthRequests, {}, "always")) EXCEPT !.onLost = "blank"]

\* Nothing stores the time zone.
TimezoneForm == [Page(Sending(TimezoneRequests, {}, "always")) EXCEPT !.save = "never"]

\* The dashboard: a toggle is one request of its own.
Dashboard == [Page(<<Sends({"relay"}, "always")>>) EXCEPT !.save = "never", !.live = TRUE]

Plan == [relay |-> RelayForm, external |-> ExternalForm, local |-> LocalForm,
         mqtt |-> MqttForm, nextion |-> NextionForm, sdCard |-> SdCardForm,
         rtc |-> RtcForm, tone |-> ToneForm, location |-> LocationForm,
         security |-> SecurityForm, timezone |-> TimezoneForm, dashboard |-> Dashboard]

Pages == DOMAIN Plan
FieldsOn(page) == FieldsOf(Plan[page].requests)

\* The hub checks these before it stores them: a pin may be in use, a name
\* too long.
Checked == {"name", "pin", "rx", "tx", "sck", "cs", "data", "tone", "callsign", "apiKey"}

\* The app sends what it sets in the URL of a request, of whose query the hub
\* keeps 63 characters: it may store less of a text than it was sent, and say
\* that all went well.  Some of these fields have less room than that as well.
TextFields == {"name", "slug", "class", "broker", "username", "password", "deviceId",
               "prefix", "callsign", "homePort", "apiKey", "hmacKey"}

\* So it is with an interval that does not fit 16 bits (M7), and with GPIO 0
\* for a relay, which R11 acknowledges and leaves.
Lenient(page) == TextFields \cup (CASE page = "mqtt" -> {"keepAlive"}
                                    [] page = "relay" -> {"pin"}
                                    [] OTHER -> {})

\* S1, which carries a local sensor's type, switches the sensor on.
SwitchesOn(page, request) == page = "local" /\ "type" \in request.fields

\* E1 with an empty name leaves the sensor's name.
KeptIfBlank(page) == IF page = "external" THEN {"name"} ELSE {}

\* The relay form keeps picture numbers and offers numbers from 0: after a
\* save it remembers the latter where it expects the former.
AfterSave(f, v) == IF f # "colour" THEN v ELSE IF v > 2 THEN v - 2 ELSE Blank
=============================================================================
