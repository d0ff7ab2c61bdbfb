---------------------------- MODULE MCAppSensors ----------------------------
(* Small instances of the app, of the sensors' way to Home Assistant and of *)
(* the table of remote sensors.  They share no state; in each behaviour one *)
(* of them moves.                                                           *)
EXTENDS AppClient, SensorFeed, RemoteSensors

VARIABLE part
vars == <<part, appVars, feedVars, tableVars>>

\* The bound: users and other clients change these fields, one or two of a
\* page, of different kinds of requests.
Varied == [relay |-> {"name"}, external |-> {"name", "class"},
           local |-> {"pin", "option"}, mqtt |-> {"keepAlive"}, nextion |-> {"baud"},
           sdCard |-> {"sck", "cs"}, rtc |-> {"data"}, tone |-> {"tone"},
           location |-> {"location", "callsign"}, security |-> {"apiKey", "enabled"},
           timezone |-> {"offset"}, dashboard |-> {"relay"}]

\* The bound: a load and a save of the MQTT page, which have eight requests or
\* more, do not overlap; those of the other pages do.  On the Nextion page,
\* which loads by itself, the user acts twice.
Apart == page = "mqtt" => loading = None /\ saving = None
MCRefresh == (page = "mqtt" => saving = None) /\ Refresh

MCUser == \/ \E f \in Varied[page] : \E v \in Entered(f) : Edit(f, v)
          \/ \E what \in {"save", "remove"} : Apart /\ PressSave(what)
          \/ \E outcome \in Outcomes : Toggle(outcome)
MCOthers == (\E f \in Varied[page] : \E v \in Held(f) : Foreign(f, v)) \/ Restart

\* The bound: the poller works for the pages that depend on it.
MCPoll == page \in Polled /\ Poll

AppMoves(action) == part = "app" /\ action /\ UNCHANGED <<part, feedVars, tableVars>>
FeedMoves(action) == part = "feed" /\ action /\ UNCHANGED <<part, appVars, tableVars>>
TableMoves == part = "table" /\ TableNext /\ UNCHANGED <<part, appVars, feedVars>>

AppStill == page = "tone"
FeedStill == kind = "reed" /\ world = "low"

MCInit == /\ part \in {"app", "feed", "table"}
          /\ part # "app" => AppStill
          /\ page \in Pages
          /\ ram \in [Fields -> {1}]
          /\ spent = [act |-> IF page = "nextion" THEN 1 ELSE 0, trouble |-> 0]
          /\ Opened
          /\ \A c \in DOMAIN apiKeys : apiKeys[c] = [apiKey |-> 1, hmacKey |-> 1]
          /\ FeedInit
          /\ part # "feed" => FeedStill
          /\ TableInit

MCNext == \/ AppMoves(MCUser) \/ AppMoves(MCRefresh) \/ AppMoves(Save) \/ AppMoves(MCPoll)
          \/ AppMoves(MCOthers)
          \/ FeedMoves(FeedNext)
          \/ TableMoves

MCSpec == /\ MCInit /\ [][MCNext]_vars
          /\ WF_vars(AppMoves(MCRefresh)) /\ WF_vars(AppMoves(Save)) /\ WF_vars(AppMoves(MCPoll))
          /\ WF_vars(FeedMoves(Sense)) /\ WF_vars(FeedMoves(MetricsUpdated))
          /\ WF_vars(FeedMoves(RemoteCommand)) /\ WF_vars(FeedMoves(Second))
          /\ WF_vars(FeedMoves(Connect))
=============================================================================
