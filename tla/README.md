# PowerControlHub: specification, model checking and proofs

PowerControlHub is the firmware of a relay board for boats and cabins (ESP32 or
Arduino R4), with a touch display, a mobile application and a synchronisation
tool. This directory holds TLA+ modules of its core logic, configurations that
check them with TLC, and theorems about them that TLAPS has checked. Paths are
relative to `src/PowerControlHub` unless they say otherwise.

Contents: 1 the system; 2 the modules; 3 the runs; 4 bounds and fairness;
5 what is proved; 6 what was found; 7 what is not modelled; 8 the plan.

## 1. The system

The firmware is single threaded. `PowerControlHubApp::setup()` loads the
configuration and begins every part; `loop()` (PowerControlHubApp.cpp:385-469)
then calls, in this order and for ever: the serial commands, the LED matrix,
the horn player, the sensors, WiFi and its HTTP server, the MQTT
controller and its relay, sensor and system handlers, the scheduler, the
updater, the SD card and its logger, the processor monitor, a pending reboot,
and a delay. A handler runs to its end before another starts. Nothing is
preempted, so that one call is one atomic action of a model, unless the call
waits for somebody (the network, EEPROM, the board's power) or gives up its turn
with work left (one packet, one slot or one relay per pass). What can interleave
is the *sequence* of calls, the network, time, and failures of power.

| Part | State | Operations | Talks to | What is hard | What must hold |
|---|---|---|---|---|---|
| Relay controller (`RelayController.h`) | recorded states, pins cached at boot; roles and links in the configuration | set, toggle, all on/off, link, unlink, action type, pin, default state, boot | called by serial, HTTP, MQTT, scheduler and light sensor; publishes `RelayStatusChanged` | cached pins and configured pins differ until the next boot; links reach reserved relays; roles are stored twice | outputs follow the recorded states; a role has one holder; a reserved relay moves only through a link |
| Horn player (`SoundController.cpp`) | signal, state, blast index, time of the state, start delay, horn relay | play, cancel, `update()`, configuration updated | writes the horn relay's *configured* pin past the relay controller | late polls; a signal replaced or the horn re-wired during a blast; repeats | blasts as the pattern says; silence outside blasts; one-shots end |
| Warnings (`WarningManager.cpp`) | a set of flags | raise, clear, clear all, W3, W4 | sensors, factory, WiFi, commands | several writers of a flag; a summary flag kept beside those it summarises; memories of a flag held elsewhere | the summary agrees; recovered sensors leave nothing; lasting failures come back |
| Sensors (`*SensorHandler.h`, `SensorFactory.h`) | readings, counters, "warning active" memories | a poll each | warnings, message bus, relays (night relay) | sensors of a kind share a flag | see warnings |
| Scheduler (`ScheduleController.cpp`) | events, last trigger per slot, pulses, sun times | `update()`, T2-T6 | relays, clock, GPS and light messages | triggers a minute wide, clock changes, midnight, missed minutes, pulses that outlive their events | once a day; pulses end; a daily event does fire |
| WiFi and HTTP (`WifiServer.cpp`) | connection state, failures, times; a state machine per client slot | `update()`, clients, configuration at boot | radio, route handlers | retries with a back-off and an eight bit counter; slow, silent and persistent clients | quota; server follows connection; reconnects; slots come free |
| Configuration and boot (`ConfigManager.cpp`, `PowerControlHubApp.cpp`) | EEPROM image, header with a crash counter, copy in RAM, pin guard flags | load, migrate, save, reset, crash loop guard, reboot | everybody reads it | power failing between and during writes; configurations that hang `setup()` | what runs is stored; settings are given up only in a crash loop; crash loops end |
| Updates (`OtaManager.cpp`) | state, offered version, request flags | check, apply, download, install | GitHub, header, restart | an offer grows old; a request outlives its check | only forward; catches up |
| MQTT (`MQTTClient.cpp`, `MQTTController.cpp`, `MQTTRelayHandler.cpp`) | connection state, receive buffer, ages, retry count, discovery index | read, keep-alive, retry, publish, discover | broker; relay controller by messages and calls | partial packets, dead connections, brokers that refuse or forget, states that change while disconnected | broker and relays agree; discovery is complete; it comes back |
| Light sensor (`LightSensorHandler.h`) | day or night, the pending reading, one counter | a reading every 30 s | drives the relay with the night role; publishes `LightSensorUpdated` | flicker and hysteresis; the role, pin and state of the relay change between readings | debounced; the night relay follows |
| Pins (`PinGuard.h`, `ConfigController.cpp`, `RelayController.h`) | the configured pin of every part, the table of local sensors | setters, S1-S4, R7, R11, C18, C24, C25 and others, over the serial line and HTTP | every part that has a pin reads it at boot | several setters and two front ends, each with its own checks; a sensor's slots hold pins or payload according to its type | one pin, one device; a sensor keeps its pins |
| Settings (`ConfigController.cpp`, `Config*Handler.cpp`, `SDCardConfigLoader.cpp`) | the configuration in RAM, what the clock and the horn player were told, the radios, `config.txt` | C0-C32, N0-N7, M0-M9, R6-R10, export, load, reset | serial line, HTTP, card; clock, horn player, radios | three readers of a number with different ideas of what is one; narrow integers; values that are acknowledged and not stored | what is read back means the same when it is sent again |
| SD card (`MicroSdDriver.cpp`, `SdCardLogger.cpp`, `SDCardConfigLoader.cpp`) | card state, a few file slots, ring of snapshots, open log, warnings | start, presence check, retry, open, log, rotate at midnight | logger and loader share the driver; warnings; clock | cards swapped between two looks; handles that outlive their card; the driver and the logger each with a view of the card | records go to the open log of the day; the log goes on; every card's configuration is looked for |
| Sensor feed (`*SensorHandler.h`, `MQTTSensorHandler.cpp`) | readings, map of channels, throttles, discovery index | polls, events, metrics every 2.5 s, commands in | broker, message bus; the presence sensor drives relays | throttled or lost readings; one memory of a pulse | subscribers learn the last reading; a pulsed relay goes off |
| Remote sensors (`ExternalSensor*Handler.cpp`, `Config*Handler.cpp`) | an array and a count in the configuration | E0-E4, three copies of the handlers | built into running sensors at boot, then found by index | compaction on removal; three copies of one thing | the table stays a list |
| Application (`src/PowerControlHubApp`) | forms, what they were loaded with, the poller's snapshot, keys of two connections | load, edit, save, remove, refresh | the hub over HTTP | loads and saves overlap; answers lost in the middle of a save; other clients; keys that change under a connection | "saved" means stored; a save changes what its user changed; the dashboard recovers |
| Bluetooth (not compiled), display (unreachable), clock, tones, sync tool | see section 7 and `PROJECT.json` | | | | |

## 2. The modules

Each module says in its header which code it models; `PROJECT.json` maps every
definition to the lines it stands for. Definitions keep the names of the code.
The definitions that carry the comment `fault:` are not used by any
specification: they are the plausible mistakes that each property was tried on.

| Module | Models | State and actions against the code |
|---|---|---|
| `RelayController` | RelayController.h, RelayCommandHandler.cpp | `pin`, `actionType`, `defaultState`, `linkedRelays`, the two index fields: configuration in RAM; `relays`: pins cached at boot; `relayStatus`, `level`: record and output. One action per operation. Setting several relays is one set-valued step, since all calls of one loop ask for the same state. |
| `Debounce` | the promise of a debounced yes or no | what is reported and how many readings in a row contradicted it |
| `NightRelay` | LightSensorHandler.h, RelayNetworkHandler.cpp | extends `RelayController` with the three variables of the sensor; `update(zone)` is one reading, in the zone below, between or above the two thresholds. `Debouncer == INSTANCE Debounce WITH ...` is the refinement mapping. |
| `HornSignal` | the promise of a one-shot signal | what a listener hears: blasts in order, each in full, gaps between them, silence at once on cancellation |
| `SoundController` | SoundController.cpp | the player with `elapsed` for `now - _stateStartTime` and `late` for the time since the last poll. `Listener == INSTANCE HornSignal WITH ...` is the refinement mapping. |
| `HubOutputs` | relays and horn on one set of pins | extends `RelayController`, instances `SoundController` on the same `pin` and `level`; adds the reset command, which changes the configuration without the controllers being told |
| `WarningManager`, `SensorWarnings` | WarningManager.cpp; DHT11, voltage, GPS polls; `SensorFactory` | a set of flags; `good` is the world |
| `ScheduleController` | ScheduleController.cpp, SchedulerCommandHandler.cpp | `BeginLook` and one `Look(i)` per slot are `update()`; a minute is the unit of time, and several looks fall into one |
| `WifiServer` | WifiServer.cpp | `Update` is the connection part of `update()`, `HandleClient(i)` the pass over a slot, `AcceptNewClient` its end; clients and radio act between them |
| `ConfigManager` | ConfigManager.cpp, `setup()` | one action per step of `setup()` that reads or writes EEPROM; `PowerFails` between any two and during a write |
| `OtaManager` | OtaManager.cpp | one action per outcome of `update()`, which downloads while the loop waits |
| `HubLifecycle` | both, on one header and with one restart | extends the two modules; every restart (command, update, watchdog, power) ends in `setup()` |
| `MqttLink` | MQTTClient.cpp, MQTTController.cpp, MQTTRelayHandler.cpp | the phases of one pass (`Read`, `KeepAlive`, `Retry`, `Relays`); broker, network and other parts act in `Rest` |
| `HubPins` | PinGuard.h, the pin setters, the local sensor table and both front ends | `pin`, `sensors`, `count`; `answer` is what the last command reported. An action is one command of one front end, with that front end's checks. |
| `SettingCommands` | how a way in reads a value, what a setter stores | operators only: `atoi` and casts, the parsers of the web server, the reader of the file |
| `HubSettings` | the settings beside the pins | extends the two above; `config`, `live`, `radio`, `card`; one action per command and way in, `LoadConfig` and `ExportConfig` for the file, reset and reboot |
| `MicroSdDriver`, `SdCardLogger` | MicroSdDriver.cpp; SdCardLogger.cpp | the logger extends the driver; `phase` walks through one turn of the loop (driver, status, date, write); the card comes and goes between any two steps |
| `RecordQueue` | the promise of the logger's ring | `Queue == INSTANCE RecordQueue WITH ...` in `SdCardLogger`: the ring from its tail on |
| `SensorFeed` | the local and remote sensors, MQTTSensorHandler.cpp | `Sense` is a poll, `MetricsUpdated` the 2.5 s broadcast, `RemoteCommand` a message of the broker; deliveries of the bus are part of the action that publishes |
| `RemoteSensors`, `SensorList` | the table of remote sensors; its promise | E1-E4 in three copies; `Promise == INSTANCE SensorList WITH ...` is the part of the array below the count |
| `AppForms` | the application's pages | constant operators: each page as the plan of its requests, and how it deals with a lost one |
| `AppClient` | pages, services, poller, connections | carries the plan of the open page out: `Refresh`, `Save` and `Poll` are one request each, with every outcome (done, refused, lost on the way there, or its answer lost or unread) |
| `*_proofs` | | theorems: `Relays_proofs` about `RelayController`, `NightRelay` and `HubOutputs`; `Peripherals_proofs` about `SensorWarnings`, `RemoteSensors` and `SdCardLogger`; `Settings_proofs` about `HubPins`, `HubSettings` and `AppClient`; the others about the module named before the underscore |
| `MC*` | | constants for TLC |

Deliveries of the message bus are not steps: `MessageBus::publish()` calls every
subscriber before it returns, so what a subscriber does is part of the action
that publishes (`PublishRelays` in `MqttLink`, `OnUpdate` in `SensorFeed`).

## 3. The runs

| Run | Configuration | Shows |
|---|---|---|
| `relays` | `MCNightRelay.cfg` | the relay controller with the light sensor among its callers. `OutputMatchesStatus`: a relay alone on its pin is on exactly when recorded so, however pins, links and roles were edited since boot. `RolesAgree`: the types and the two index fields never disagree. `ReservedOnlyThroughLink`. `Debounced` (refinement of `Debounce`): day and night turn on the third reading in a row and on no flicker. `FollowsLight`: the sensor moves the night relay and what is linked to it, at dusk and dawn only, and always to the state that fits. |
| `sound` | `MCSoundController.cfg` | all eleven patterns: `ImplementsListener` (refinement of `HornSignal`), `OneShotEnds` |
| `outputs` | `MCHub_explained.cfg` | `EveryOutputExplained`: two components write the pins and one keeps a record; every output that is on is explained by a relay or by the blast in progress, if nobody re-wires the horn during a blast (`ReassignDuringBlast` is FALSE; section 6 says what happens otherwise) |
| `warnings` | `MCSensorWarnings.cfg` | `SummaryKept`, `WarningsRecover`, `FailureReported` with sensors of three kinds, two of one kind |
| `schedule` | `MCScheduleController.cfg` | events of each kind of trigger against T2-T6, a corrected clock, sun times and missed minutes: `OncePerDay`, for a hub that stays where it is, with sun times that change from day to day; `PulsesEnd`: a pulse that is not for ever started again comes to an end and its relay goes off, with two slots that pulse one relay and an event that starts its pulse again before it is over; `SwitchedOnEventFires` |
| `wifi` | `MCWifiServer.cfg` | `QuotaKept`; `ServerFollowsConnection`: the server runs while connected, and only then a client is accepted, read or answered; `Reconnects`, and `SlotsComeFree`: no client keeps a slot without a request |
| `boot` | `MCHubLifecycle.cfg` | boots from any EEPROM content with power failing anywhere: `LoadedIsStored`, `GuardInTime` (the crash loop guard acts neither early nor late), `CrashLoopEnds`; updates: `OnlyForward`, `AutoUpdateCatchesUp` |
| `mqtt` | `MCMqttLink.cfg` | `StatesAgree`: broker and relays; `AnnouncedInFull`: discovery leaves no relay out; `Returns`: the hub comes back unless it is stuck |
| `config` | `MCHubSettings.cfg` | every pin and every setting through its ways in. `DevicesApart`: no command gives a pin to two devices; `NoPinTakenFromSensor`: a pin in a sensor's slot is given to nobody else; `ReadBackUnchanged`: what a listing, the status or an export prints of a setting (numbers, texts and the status' words for switches) means the same when a client or the loader sends it again; left out are the two switches of MQTT in the status' words and, in a URL, the two texts that a query is too short for (section 6) |
| `sdcard` | `MCSdCardLogger.cfg` | cards that come, go, fail and are swapped. `LogGoesToTheLog`: a record is written to the slot that holds the log of the open day and to no other file; `ImplementsQueue` (refinement of `RecordQueue`): newest records, in order; `LogsAgain`: once a card stays, the log goes on and the warnings go; `EveryCardLoaded`: its configuration is looked for |
| `app_sensors` | `MCAppSensors.cfg` | three parts that share no variable, one of which moves in each behaviour. The application: `SavedMeansStored`: "saved" means that the hub has what the form shows, in the fields whose requests have room for it (the hub acknowledges what it cuts or leaves, section 6); `UntouchedKept`: a save changes nothing that its user left alone, if nobody else changed the hub and with the same reservation; `DashboardCatchesUp`. The feed: `FeedCatchesUp`: the broker has the last reading of every kind of sensor and Home Assistant shows it, but for presence, whose texts are not the announced ones (section 6); `PulsedRelayGoesOff` and what it rests on, `PulsedRelayIsTimed` (where every reaction is a pulse or switches off, a relay that is on is the one whose end is on record). The table: `ImplementsList` (refinement of `SensorList`). |
| `fog_signal` | `MCSound_fog.cfg` | a counterexample, section 6 |

## 4. Bounds and fairness

Two relays suffice where an operation involves at most two (a link, a role taken
over); `mqtt` has three, to have one reserved and one without a pin. The
firmware has two link slots and the runs one; a second one adds only further links of
one hop, and the theorems about `RelayController` hold for any number. Times are
scaled to a few ticks in the order of the firmware's constants (dot < dash <= short < long; check < connect timeout;
ping timeout > keep-alive tick), because the code only compares them. Ages stop
growing where no comparison can tell them apart (`LastAge`, `MaxAge`,
`LastAttemptAge`). Days are three minutes long, which has room for a trigger, a
minute before and one after, and for sun times and windows in between; two pairs of sun
times are enough for a day that differs from the one before. That the hub moves is a
constant, too (`"Moves"` in `Commands`), which the run leaves out. Its second slot holds
a daily pulse beside a first one that pulses the same relay every minute, or nothing
(`MCBound`): pulses meet on a relay, while triggers do not depend on each other. The crash
threshold is the code's 3, with the counter's limit right after it. The eight bit
count of WiFi failures wraps at 3 after a back-off at 2, so the wrap is reached.
`config` has one relay, two pins and two sensors with one slot, which is what a
conflict needs; the values of a setting lie at its bounds, one beyond, and one that
is no number. Its state would be a product of fifty settings of which hardly two
meet, so pins vary while the settings have their defaults (at most two given), and
otherwise one setting differs (in memory and on the card together), or radios, or
keys, which belong together. `sdcard` has two cards, two file slots, a ring of two
and intervals of one tick; readings differ only at the first of two dates
(`OneVaries`), which is where order can be lost. `app_sensors` has settings with three
values and, where the hub acknowledges what it does not store as it came, a fourth that
is too much for it (`TooMuch`, of which it keeps anything), three acts of the user (`MaxActs`: edit, press, and one in between) and one
trouble (`MaxTroubles`: one lost answer, refusal, restart or change by another
client); users edit the fields in `Varied`, of different kinds of requests of a page;
the poller works for the pages that look at it; loads and saves of the MQTT page do
not overlap; on the Nextion page, which loads by itself, the user acts twice. The
feed has one sensor at a time and a pulse of one second, the table three places and
two names. Deadlock is not checked there, since a user who has used up the bounds
stops. Named bounds elsewhere: `MaxStall` (how long the loop can be away), `MaxAge`,
`MaxVersion`, `CounterLimit`, `MCBound` (the states that set default states or a night relay,
which do not meet the horn, are not continued).

Fairness is that of the loop: a part that `loop()` calls is called again (weak
fairness of its poll), a pass that was begun is finished, and time passes though
there may be many passes per tick (strong fairness of `Tick` where a pass and a
tick exclude each other). Commands, users, brokers, clients, access points and
power have none, and a liveness property states what it needs from them as its
premise (`NoMoreCommands`, `InReach`, `PowerLasts`, `NoMoreFaults`). The one
exception is `SF(Install)` in `HubLifecycle`: a download that is tried for ever
succeeds some time, without which no updater could promise anything.

In `sdcard` the fairness is the loop's with a strong `Tick`, and the premise that a
card stays and answers (`CardStays`). In the application `Refresh`, `Save` and `Poll`
are weakly fair: the client gives every request ten seconds, and its loops go on
after an error. In the feed the fair actions are those of the loop and of time, with
`Connect`, which the run `mqtt` justifies (`Returns`); `FeedCatchesUp` supposes that
the handler found the sensor's channels (`mapped`), since one sensor may lose them at
boot (section 6, VoltageSensorHandler).

## 5. What is proved

All proofs hold for every value of the constants that satisfies the named
assumptions of the modules (the `ASSUME` of each module that declares constants),
which TLC evaluates in the runs. `PROJECT.json` lists the theorems; what they rest
on, and why the invariant in between is needed, is this.

* `Relays_proofs`, relays: types; `RolesAlwaysAgree`, from the fact that both
  index fields are recomputed from the types by the step that changes them;
  `OutputsAlwaysMatch` and `EnergisedAlwaysOwned`, proved together, since a
  switch that keeps one needs the other for the pins it does not touch;
  `ReservedStaysReserved`.
* `Relays_proofs`, light: `SensorIsARelayUser`, that the composition with the light
  sensor implements `RelayController`, so that the theorems above hold for it too
  (what a reading does is one `setRelayState` or nothing, which needs that the role
  has one holder); `LightIsDebounced`, the refinement of `Debounce`, whose
  strengthening `CountBelowLimit` says that a pending state that differs from the
  reported one has not been confirmed; `NightRelayFollows`.
* `Relays_proofs`, outputs: `HubRolesAgree` for relays, horn player and resets
  together, and `OutputsExplained`: with `ReassignDuringBlast` FALSE (as in the run)
  every output that is on is on by a record or by the blast. The two go together: the
  explanation of an output survives a switch of others only if a relay that is
  switched off takes its output with it (`SwitchStaysExplained`), and the blast's
  explanation survives an edit only if the horn's role has one holder.
* `SoundController_proofs`: types; `BlastIndexSafe`, which needs that the index
  is 0 in the start delay and less than the length of the pattern *now* played;
  `HornSafe` (nothing sounds outside a blast), under the player's own operations: the
  horn is not re-wired; `EveryOutputExplained` is the same for relays and horn together;
  `ListenerServed`, the refinement of `HornSignal`. Its strengthening `ListenerInv`
  says that a one-shot signal never waits for a repetition, sounds in its blasts,
  has its first blast behind it in a gap, and overruns a blast by no more than the
  loop was away; durations are arbitrary positive numbers.
* `WifiServer_proofs`: types; `QuotaAlwaysKept`, with the cardinality facts of the
  library: a grant counts the other slots, and a slot that changes state never becomes
  persistent in any other way; `ServerFollows`. That the server runs while connected is
  inductive by itself; that the slots stand still otherwise needs `PollFoundServer`: the
  pass over the slots goes on only after the same poll found the connection up and the
  server begun. It is the code's only protection, since the slots outlive the server.
* `HubLifecycle_proofs`: types (the crash counter does not wrap);
  `LoadedAlwaysStored`; `GuardActsInTime`. That the guard is not early rests on
  `CountsBoots` (the counter in a readable header never exceeds the number of boots that
  did not finish), that it is not late on `BootIsNumbered` (a boot past the guard with a
  number at the threshold runs the defaults, which do not hang), which with the fairness
  of `setup()` is why `CrashLoopEnds`; `FirmwareOnlyForward`, whose strengthening
  `OfferIsNewer` says that an offered version is newer than the one that runs.
* `MqttLink_proofs`: types; `BrokerAlwaysAgrees` and `DiscoveryLeavesNoneOut`,
  whose strengthening `LinkFollowsState` says which connections go with which
  state: a connected client has a connection, so that what it published
  was either heard or went into a connection that is dead for good.
* `ScheduleController_proofs`: types, and `FixedFiresOnce`. The memory of a slot is one minute,
  and alone it does not bar a second firing; `JudgedIsLatched` says that an event at a
  fixed time that was judged today has that very minute on record, which every change of
  the event and every correction of the clock within the day leaves there.
  Events at sunrise or sunset are harder, since their minute is itself a result: `SunInv`
  says that once one was judged today the sun times in use are today's at this place
  (`SunCurrent`) and that the record is the minute that *they* give (`SunJudged`), so
  that computing them again changes nothing. `FiresOnce` joins the two. It supposes that
  the hub does not move (`"Moves" \notin Commands`), and it needs to (section 6).
* `Peripherals_proofs`, warnings: `SummaryAlwaysKept`. `SummaryKept` is inductive by
  itself, provided no command names the summary, which is its premise in the run too;
  `WarningTypes` are the types.
* `Peripherals_proofs`, table: `TableIsAList`, the refinement of `SensorList`. It needs
  `TableInv`: the entries behind the count are zeroed. Otherwise setting the index
  beyond the count, which raises the count over the gap, would bring back removed
  entries, where the list gets empty ones.
* `Peripherals_proofs`, card: `RecordsGoToTheLog`. The logger's pointer outlives the
  handle it was got for, so the theorem needs `LogInv`: handles are unique among the
  slots, no file but the logger's is open between turns (`FilesOK`; the loader closes
  its own), and a file that is open where the pointer points is the log of the day that
  the logger knows (`PointsToLog`). `RingIsAQueue`, the refinement of `RecordQueue`,
  from `RingInv`: head, tail and count agree modulo the ring's size. It covers any size
  and any number of records per turn; the only arithmetic is that an index goes round
  once at most.
* `Peripherals_proofs`, feed: `PulsesAreTimed`. The presence sensor has one memory of a
  pulse. `FeedInv` says that while every reaction is a pulse or switches off, the relay
  that is on is the one in that memory, and that some reaction pulses it, so that the
  other event's pulse finds it there.
* `Settings_proofs`, pins: `DevicesStayApart` and `SensorsKeepTheirPins`, for any board,
  any relays and any table of sensors. `StepOfKind` reduces the twenty-odd commands of
  both front ends to four: a refusal, pins given to one device after each was compared
  with everybody else's (`PinsGiven`), a change of the table, the reset. The first
  follows from `PinsFit`, which says besides that a relay's pin can drive it; that the
  second needs no invariant is the point: whatever the table holds, and however it came
  there, a setter looks at it.
* `Settings_proofs`, settings: `LoadedDevicesStayApart` and `LoadedPinsSpareSensors`, the
  same for the whole of `HubSettings`, where pins come from a file on the card as well,
  and `ReadingBackIsSafe`. They follow from `SettingsInv`
  (`SettingsStayInRange`): the pins fit (`PinsFit`), every
  setting that is listed or exported holds a value that can be stored for it
  (`Storable`), and the card what a file can hold. Two arguments carry it. Setting by
  setting and for each of the three ways in (`SerialStores`, `HttpStores`, `CardStores`)
  what a reader and a setter make of anything that can be asked for can be stored, or is
  refused, and (`SerialKeeps`, `HttpKeeps`, `CardKeeps`, and `ShownKeeps` for the words of
  the status and the texts of a URL) what can be stored is stored again as it is; the second alone is the property, but of values that the first says
  are the only ones. A reset panel's UART number, 0, is the reason why "or is refused"
  stands there. And line by line, a file keeps what each of its lines keeps (`FileKeeps`,
  `LinesKeep`): an exported relay finds its pin free when its line comes
  (`PinsReadBack`), because no other relay has it and it is not GPIO 0, which the reset
  panel holds. These two are inductions over the length of a file; no installed prover
  takes the library's induction theorems, so `LeastNumber` (a set of numbers that is not
  empty has a least one, from the well-founded order of the library) stands in for them:
  there is no first line after which it fails. `SettingsAssumption` says what commands
  and files are made of (`Readable`): any text, any number above the two markers that
  stand for words, and any pins; a file names relays and settings of the hub.
* `Settings_proofs`, application: `UntouchedStay` and `SavedIsStored`, on every page,
  for any values and any number of acts and troubles, about the fields that have room in
  every request that carries them (`Fits`): of a request with too much in it the hub
  may store anything, and both theorems leave its lenient fields open, as they do the
  local sensor that S1 switches on. Both follow from `AppInv`: a
  field that was not touched shows what the hub has (while nobody else changes it) or
  is blank (if it is never read); the relay's page shows there what it compares with,
  whatever that is (a stale snapshot, blanks); and while a save is undisturbed, every
  request behind it that has room is stored and every such field is as it was loaded or
  as it is shown.
  `EveryPagePlanned`, `RelayPlan` and `LocalPlan` are the facts about the pages that this
  needs: a hidden field is sent only when it was typed, a local sensor is switched on by
  the first request and before its box is sent, and every request of the relay's page
  carries one field and goes when that differs. A page with an exception to the second
  would not keep to `UntouchedKept` after a lost answer.

Only model-checked:

* All liveness (`OneShotEnds`, `WarningsRecover`, `FailureReported`, `PulsesEnd`,
  `SwitchedOnEventFires`, `Reconnects`, `SlotsComeFree`, `CrashLoopEnds`,
  `AutoUpdateCatchesUp`, `Returns`, `LogsAgain`, `EveryCardLoaded`,
  `DashboardCatchesUp`, `FeedCatchesUp`, `PulsedRelayGoesOff`): TLAPS has no rule for
  fairness. Three of them have the safety they rest on beside them as a theorem:
  `CrashLoopEnds` (`GuardActsInTime`), `PulsedRelayGoesOff` (`PulsesAreTimed`), and
  `OneShotEnds`, as far as a one-shot never waits for a repetition (`ListenerInv`).

Every invariant, action property and refinement that a passing run checks is a theorem.

## 6. What was found

One run is a counterexample to what the documents say, and the entry under
"findings" in `PROJECT.json` quotes both sides: `fog_signal`. A repetition enters its
first blast without switching the horn on (SoundController.cpp:173), so the fog
signal is heard once only.

The models follow the code, not its documents. Where they differ, or where the code
does what a reader would not expect, without a run of their own:

* Horn: `stopSound()` releases the pin the horn has now, not the one the blast was
  started on, so that a horn moved or re-wired during a blast stays on and H0 does not
  help (SoundController.cpp:226); `HubOutputs` with `ReassignDuringBlast <- TRUE` shows
  it as a violation of `EveryOutputExplained`.
* Relays: a bulk command reaches the horn relay through a link (RelayController.h:94;
  Docs/Architecture.md:123); links work in one direction (RelayController.h:92;
  Architecture.md:122); R9 over HTTP to a relay that does not exist and R10 with an
  unknown type report success and do nothing (RelayNetworkHandler.cpp:197, :225);
  R11 over HTTP refuses pin 0 and says that it did not; the serial R6 refuses an empty
  name that HTTP and the card accept; the serial R7 shifts the picture's number by two,
  while R5 lists the number that is stored.
* Night relay: Docs/Sensors.md:92 says that it is driven to the correct initial state; at
  boot the sensor assumes day and releases it (LightSensorHandler.h:91), which at night
  is wrong for three readings, and a default state that is on is applied after that and
  lasts until dusk and dawn have passed (PowerControlHubApp.cpp:374). A role moved at night leaves the
  old relay on and the new one off until dawn (RelayController.h:271). The hysteresis
  and the missing command C32 are not in the documents.
* Warnings: W4 with the summary's name clears it under raised sensor flags
  (WarningManager.cpp:123); a voltage sensor whose flag was cleared by a command does
  not raise it again before it has recovered (VoltageSensorHandler.h:149); repeat
  interval 0 means 5 s (WarningManager.cpp:75; Commands.md C28); the heartbeat and
  remote warnings of Docs/Warnings.md are not there.
* Scheduler: nothing sets `scheduler.isEnabled` (ScheduleController.cpp:99), so that
  no event fires unless the stored configuration has it set; T5 clears it
  (SchedulerCommandHandler.cpp:302); a GPS report of another place lets today's sun times
  be computed again, so that an event that was taken at the old minute is taken once
  more at the new one (ScheduleController.cpp:79; Docs/ScheduleEvents.md:232), which TLC
  finds as a violation of `OncePerDay` with `"Moves"` among the `Commands`; the memory
  of a slot outlives its event, so that a new interval event may fire at its first
  evaluation (:214; Docs/ScheduleEvents.md:92); the end of one pulse cuts another one short
  (:420); an interval that is not longer than its pulse starts it again each time, so that
  it never ends (:366; Docs/ScheduleEvents.md does not say so), which is why `PulsesEnd` has
  a premise; a pulse that is started again on another relay, after an edit, leaves the first
  one on (:367); a pulse of no length does nothing when it is due and switches on by T6
  (:361); the pulse of T6 never ends (SchedulerCommandHandler.cpp:385).
* WiFi: `stopServer()` keeps the client slots, and a request read before the
  connection was lost is executed after it came back (WifiServer.cpp:188, 1341);
  enabling WiFi at run time creates a server that is never begun
  (ConfigController.cpp:150); Docs/Wifi.md describes one client with 5 s and 1024
  bytes where the code has eight with 2.5 s and 512; the README's exponential
  back-off is a fixed minute.
* Boot: three power cuts during `setup()` reset a good configuration, though the
  comment at PowerControlHubApp.cpp:139 knows the cause to be the configuration;
  after such a reset F14 reports flags that are not in force; a migrated image is
  saved without a look at its checksum (ConfigManager.cpp:111). `resetToDefaults()`
  leaves the display's pins at GPIO 0, its baud rate and UART at 0, where the migration
  from version 5 sets "no pin", 19200 and 2 (ConfigManager.cpp:263); after C2 the clock
  keeps the old time zone, the horn player the old delay, and the radios run on.
* Updates: a request to apply that finds nothing stays set, and the daily check later
  installs a release nobody asked for (OtaManager.cpp:111); nothing sets the auto-apply
  flag (README.md:149); no check runs while a version is offered (README.md:146); parts
  of a version number wrap at 256 (OtaManager.cpp:400); access point mode counts as
  connected (OtaManager.cpp:70).
* MQTT: publications postpone the ping while only packets from the broker prove it
  alive, so a busy healthy connection is dropped (MQTTClient.cpp:291); the retry delays
  are a fixed table and not exponential (Architecture.md:193); attempts that do not
  reach the broker are not counted and repeat in every pass; after five failures
  nothing tries again before a reboot (MQTTController.cpp:405); part of a packet is
  completed with bytes of the next connection (MQTTClient.cpp:550); a packet of 128
  bytes or more blocks the reader (MQTTClient.cpp:601). The last three are the state
  `Stuck` and the stale part of `MqttLink`.
* Pins: the serial S2 clears an entry in place and keeps the count, and an entry of type
  0 is a water sensor; the HTTP S2 closes the gap. The serial S4 asks `PinGuard` about
  every slot, HTTP about those that hold a pin, and Docs/PinGuard.md says neither does.
  A payload counts as a pin in use, and S1 with another type makes a payload a pin
  unseen. "Bypass" of PinGuard.h still refuses a pin in use. The pins of one command are
  not compared with each other, and only C18 may use its own again.
* Settings: the serial readers turn a word into 0 and wrap large numbers, HTTP mostly
  refuses them; a port of MQTT that is refused or wrapped over HTTP is acknowledged; the status shows
  MQTT's two switches as `true` or `false` (MQTTNetworkHandler.cpp:74, 96, 136), and M0 and
  M6 over HTTP take only what begins with `1` for on (:161, 257), so that sending `true`
  back switches off; of a query the first 63 characters are kept and no more is said
  (WifiServer.cpp:681), so that a long broker or WiFi password, or the second of two keys in
  one C19, is stored cut when it comes in the URL (a text with characters that a URL
  escapes the sooner, by two for each; the model's texts have none, and its keys come
  whole), and one in the body is not; C27
  over the serial line answers success when the setter refused; the HTTP answers of N0,
  E0, C16 and C19 are replaced by a plain success; C19 without a known key reads an
  uninitialised result, and the serial C19 stores `enabled` before it looks at the keys;
  a name of 31 characters is accepted and cut to 30; 255 cannot unmap a home button
  (ConfigCommandHandler.cpp:331).
* `config.txt`: loading it into the hub that wrote it refuses every relay pin, which is
  in use; names end at `;`; RGB, SPI, clock, tone and card pins, keys, MQTT and the
  light threshold are not exported; a file with errors is saved all the same; R9 lines
  are appended until the slots are full. It is read again on every recovery of the card.
* SD card: a new card's file system is not read again, though the comment at
  MicroSdDriver.cpp:457 says "Close all files and re-initialize" and nothing is
  buffered while there is no card, where Docs/SDCardCallbackImplementation.md:104 says
  that it is; records leave the ring though printing them failed, and bear the time of
  writing; a log that cannot be opened adds a record in every pass; cards without a
  readable number are swapped unnoticed; the log changes with the day of the month
  only.
* Sensors and their feed: `VoltageSensorHandler._initialized` is read by
  `MQTTSensorHandler::begin()` (PowerControlHubApp.cpp:321) before anything sets it
  (:334); changes of presence, reed and voltage reach MQTT with the next metrics only;
  a throttle is set though the link is down; presence is published as `true` or `false`
  (BinaryPresenceSensor.cpp:99) where discovery announces `ON` and `OFF` for every binary
  channel (MQTTSensorHandler.cpp:30, 515), so that Home Assistant never shows it, and a
  remote sensor whose channel is configured as binary is shown only if its device sends
  those two words; the presence sensor has one memory of a
  pulse, so a second pulse leaves the first relay on (README.md:54); GPS date and time
  are mixed from sentences of two moments (GpsSensorHandler.h:75).
* Remote sensors: those built from the configuration take one parameter and MQTT sends
  two (PowerControlHubApp.cpp:196; MQTTSensorHandler.cpp:242), so the command is only
  published again; only S0 to S14 are dispatched as readings; after a removal (E3) the
  running sensor *i* reads the former *i*+1 until the next boot; E1 without a name keeps
  the old one.
* Application: it signs path and query (DeviceAuthHandler.cs:99), the hub the path alone
  (WifiServer.cpp:845), so that a signature never authorises a request with parameters;
  a change of the API key without one locks the application out, since the keys are
  cleared when reading them back is refused (ConfigConnection.cs:922 says otherwise);
  a changed address or key reaches the dashboard's connection only, because
  `PowerHubService` looks for a `ConfigConnection` and holds a `ConfigPoller`; the pages
  of MQTT, display, card, clock, tones and security ignore the result of C0; the local
  sensor and relay pages keep comparing with what they loaded first; the display's page
  overwrites edits once a second; "Timezone saved" is never stored; forms whose load
  failed save blanks; entries are named by index while others remove some.
* "Saved" in the application, where the hub says success and stores something else, which
  is what `Lenient` and `TooMuch` stand for: the MQTT page sends any keep-alive above 0
  (MqttSettingsViewModel.cs:254), of which the hub takes 16 bits and, when they are 0,
  leaves the old value (MQTTNetworkHandler.cpp:273); long texts are cut
  (MQTTNetworkHandler.cpp:177, 212, 227, 242, 305); every setting travels in the URL,
  whose query is cut at 63 characters (WifiServer.cpp:681), so that a long name can cost
  an external sensor its slug or the fields behind it, though nobody touched them, if
  the hub got its texts another way; R11 with GPIO 0 is acknowledged and leaves the pin
  (RelayNetworkHandler.cpp:245). A port out of range (the page asks for 1 to 65535) and
  an unknown type of relay (R10, RelayNetworkHandler.cpp:225; the page offers the known
  ones) are acknowledged, too, and not sent. Saving the page of a local sensor that is
  switched off switches it on, since S1 goes first and sets `enabled`, unless its box
  was changed and follows.
* Loads in the application that cannot succeed: the list of external sensors prints `bin`
  as a number and is read as a Boolean (ConfigConnection.cs:213); C4, C18, C20, C31 and C32
  without parameters are refused; the answers of N0, C16 and C19 are replaced. The model
  lets every load succeed or fail, which includes what happens.
* Synchronisation tool: its README says that a refused command answers `ERR:` and is
  reported (src/PowerControlHubSync/README.md:100); the hub answers `ACK:<command>=<error>`
  (WifiCommandBridge.cpp:109), which the tool takes for a success, as it does any line
  that contains `ACK:` and the name, C10 for C1.
* Touch display: it is created in the constructor of the application, before the
  configuration is loaded (PowerControlHubApp.cpp:51), finds the display disabled and
  is never created; nothing would poll it. The pages are unreachable and not modelled.
* Bluetooth (not compiled): the relay service notifies after it has switched a relay
  off and not on (BluetoothRelayService.cpp:188), and never after other callers;
  Docs/BluetoothBle.md says "on any relay state change".

## 7. What is not modelled

`PROJECT.json` lists every part with its reason. In short: Bluetooth, which `Local.h`
does not compile; the touch display, which is never created (section 6); the
synchronisation tool, which keeps no state; drivers that move bytes (SD, DS1302, DHT11
timing, NMEA); the algorithm of the sun's position (reals); tables of pins per board;
LED effects and tones (nothing attaches a ToneManager); of the application the system
page, the setting of the clock and the views; parsing and the wording of answers, except
for what a reader of a value makes of it. Routing and authentication of HTTP requests
are one step of `WifiServer` that takes a request and ends in an answer, and an
outcome of a request in `AppClient`. The relay page's link (R9) is not in `AppForms`: the
status does not say what a relay is linked to, so the page always shows relay 0, and R9 adds
a link beside the old one and acknowledges an index that does not exist. The two questions
that `MicroSdDriver` asks about the size and the free space of a card (MicroSdDriver.cpp:519
to 545) are one step, and `flush()` and `releaseSDCard()`, which change nothing that the
model keeps, are left out. Pin actions of the scheduler are refused by T2 and
left out.

`config.txt` is modelled although `Local.h` comes with its option `CARD_CONFIG_LOADER`
switched off: it is a documented feature of the firmware (src/README.md:155), its class
is compiled with the card's support, and only the calls depend on the option.

## 8. The plan

The outputs came first (relays, horn, both together), then what drives them (sensors
and warnings, scheduler), what keeps the hub alive and reachable (boot and updates,
WiFi, MQTT), what configures it (pins, settings, card) and what uses it (application,
feed). The proofs followed: first the invariants, then the refinements, then the
safety that liveness rests on. What remains:

1. More of that last kind, each with an invariant that would become a property of its
   run: that a pulse of the scheduler on record has an end that comes nearer
   (`PulsesEnd`), that a stuck MQTT client is one of the three states listed in section 6
   (`Returns`), that a slot of the server that is taken has a running time limit
   (`SlotsComeFree`).
2. Types of `SdCardLogger` and `AppClient` as theorems of their own; what their proofs
   need of them is in `LogInv`, `RingInv` and `AppInv`.
