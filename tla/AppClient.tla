----------------------------- MODULE AppClient -----------------------------
(***************************************************************************)
(* The app as a client of the hub: a page that shows settings, lets the     *)
(* user change them and saves them with one request after the other; the    *)
(* poller that keeps a snapshot; the two connections and their credentials. *)
(* Requests and answers are lost, the hub restarts, and somebody else       *)
(* changes settings in the meantime.                                        *)
(***************************************************************************)
EXTENDS AppForms

CONSTANTS None,         \* no snapshot, no load under way and the like
          MaxValue,     \* settings are numbers up to it, Blank included
          MaxActs,      \* the bound: loads, edits and presses by the user
          MaxTroubles   \* the bound: lost or refused requests, restarts of the
                        \*   hub, changes by other clients

\* A save under way: what it does, the first request it may still send, and
\* whether every request so far went well.
Saves == [kind : {"save", "remove"}, next : Nat, ok : BOOLEAN]

ASSUME BoundsAssumption == {MaxValue, MaxActs, MaxTroubles} \subseteq Nat
ASSUME NoneAssumption == None \notin Saves

VARIABLES
    page,       \* the page that is open
    ram,        \* hub: the settings in force, by field
    eeprom,     \* hub: the settings it starts with
    snapshot,   \* what the poller fetched last, or None
    form,       \* what the page shows
    original,   \* what the page took from its last load, or None
    loading,    \* a load under way: the next read and the values so far, or None
    saving,     \* a save under way: its kind, next request and success, or None
    status,     \* what the page says of the last save
    reached,    \* the banner: whether the last refresh reached the hub
    apiKeys,    \* the keys either connection signs with
    touched,    \* history: fields the user changed since the page's last load
    current,    \* history: since then the hub has what the page shows in the others
    steady,     \* history: nothing but the save happened since Save was pressed
    spent       \* how much of each bound is used

hubMemory == <<ram, eeprom>>
pageVars == <<form, original, loading, saving, status, reached>>
historyVars == <<touched, current, steady>>
appVars == <<page, hubMemory, snapshot, pageVars, apiKeys, historyVars, spent>>

Values == 0 .. MaxValue

\* A value that a request has no room for, or the hub no place, and that the hub
\* acknowledges.  It may hold a text that it was given in another way.
TooMuch    == MaxValue + 1
Entered(f) == IF f \in Lenient(page) THEN Values \cup {TooMuch} ELSE Values
Held(f)    == IF f \in TextFields THEN Values \cup {TooMuch} ELSE Values

Fields == FieldsOn(page)
Plan_ == Plan[page]
Blanks == [f \in Fields |-> Blank]

Limits == [act |-> MaxActs, trouble |-> MaxTroubles]
Spend(what) == /\ spent[what] < Limits[what]
               /\ spent' = [spent EXCEPT ![what] = @ + 1]

---------------------------------------------------------------------------
(* Requests *)

\* Authentication is on, on the security page, once its box is checked.  The
\* app signs the path with its query, the hub the path alone: a signature is
\* only good for a request without one.
Authorised(keys, hasQuery) ==
    page = "security" =>
    \/ ram["enabled"] = Blank
    \/ ram["apiKey"] # Blank /\ keys.apiKey = ram["apiKey"]
    \/ ~hasQuery /\ ram["hmacKey"] # Blank /\ keys.hmacKey = ram["hmacKey"]

\* What becomes of a request: the hub may refuse a value it checks, and the
\* request, its answer or the reading back of a key may be lost.
Outcomes == {"done", "refused", "lost", "unanswered", "unread"}
Meets(outcome, refusable) ==
    /\ outcome = "refused" => refusable
    /\ IF outcome = "done" THEN UNCHANGED spent ELSE Spend("trouble")
ReachesHub(outcome) == outcome \in {"done", "unanswered", "unread"}
Silent(outcome) == outcome \in {"lost", "unanswered"}
RefusalCounts(outcome) == ~Silent(outcome)  \* fault: any answer is a success
Accepted(outcome) == outcome \in {"done", "unread"}

---------------------------------------------------------------------------
(* Loads *)

StartLoad == /\ loading = None
             /\ IF Plan_.live THEN UNCHANGED spent ELSE Spend("act")
             /\ loading' = [next |-> 1, values |-> Blanks, hit |-> TRUE]
             /\ IF Plan_.reopened
                THEN /\ saving = None
                     /\ form' = Blanks /\ original' = None /\ status' = None
                     /\ touched' = {} /\ current' = FALSE /\ UNCHANGED steady
                ELSE UNCHANGED <<form, original, status, historyVars>>
             /\ UNCHANGED <<page, hubMemory, snapshot, saving, reached, apiKeys>>

ReadingDone == loading.next > Len(Plan_.reads)

\* One read of the load; a page that shows the snapshot needs none.
Read(answered) ==
    /\ loading # None /\ ~ReadingDone
    /\ LET fs == Plan_.reads[loading.next]
           seen == IF Plan_.source = "snapshot" /\ snapshot # None THEN snapshot ELSE ram
       IN IF answered
          THEN /\ Authorised(apiKeys["config"], FALSE)
               /\ loading' = [loading EXCEPT
                      !.next = @ + 1,
                      !.values = [f \in Fields |-> IF f \in fs THEN seen[f] ELSE @[f]]]
               /\ UNCHANGED spent
          ELSE /\ IF Authorised(apiKeys["config"], FALSE) THEN Spend("trouble") ELSE UNCHANGED spent
               /\ loading' = [loading EXCEPT !.next = @ + 1, !.hit = FALSE]
    /\ UNCHANGED <<page, hubMemory, snapshot, form, original, saving, status, reached,
                   apiKeys, historyVars>>

\* The load's values go into the page, over whatever the user has typed.
EndLoad ==
    /\ loading # None /\ ReadingDone
    /\ LET shown == [f \in Fields |-> IF f \in Hidden THEN Blank ELSE loading.values[f]]
           applied == loading.hit \/ Plan_.onLost = "blank"
       IN /\ form' = IF applied THEN shown ELSE form
          /\ original' = IF applied THEN shown ELSE original
          /\ touched' = IF applied THEN {} ELSE touched
          /\ current' = IF applied THEN \A f \in Fields \ Hidden : shown[f] = ram[f]
                                   ELSE current
          /\ steady' = (steady /\ ~applied)
    /\ reached' = (loading.hit \/ Plan_.onLost = "blank")
    /\ loading' = None
    /\ UNCHANGED <<page, hubMemory, snapshot, saving, status, apiKeys, spent>>

---------------------------------------------------------------------------
(* Changes and saves *)

Edit(f, v) == /\ page # "dashboard" /\ form[f] # v
              /\ Spend("act")
              /\ form' = [form EXCEPT ![f] = v]
              /\ touched' = touched \cup {f}
              /\ steady' = FALSE
              /\ UNCHANGED <<page, hubMemory, snapshot, original, loading, saving, status,
                             reached, apiKeys, current>>

\* The local sensor's page compares the form with what the hub says of its
\* type first, and may send nothing.
PressSave(kind) ==
    /\ saving = None /\ page # "dashboard"
    /\ kind = "remove" => Plan_.removes
    /\ Spend("act")
    /\ \/ /\ saving' = [kind |-> kind, next |-> 1, ok |-> TRUE]
          /\ status' = None
          /\ steady' = (original = [f \in Fields |-> IF f \in Hidden THEN Blank ELSE ram[f]])
       \/ /\ page = "local" /\ kind = "save"
          /\ status' = "failed"
          /\ UNCHANGED <<saving, steady>>
    /\ UNCHANGED <<page, hubMemory, snapshot, form, original, loading, reached, apiKeys,
                   touched, current>>

Given(request) == \A f \in request.fields : form[f] # Blank

DueIfShown(request) ==  \* fault: the fields are not compared with the load
    request.when \in {"always", "changed"} \/ Given(request)

Due(request) ==
    CASE request.when = "always" -> TRUE
      [] request.when = "changed" ->
            original = None \/ \E f \in request.fields : form[f] # original[f]
      [] request.when = "given" -> Given(request)
      [] request.when = "boat" -> form["location"] = Boat /\ Given(request)

\* Removing clears the sensor's fields with one request.
Removal == Sends(Fields, "always")

\* The requests that are still due.
Ahead == IF saving.kind = "remove" THEN {i \in {1} : i >= saving.next}
         ELSE {i \in DOMAIN Plan_.requests :
                   /\ i >= saving.next
                   /\ Due(Plan_.requests[i])
                   /\ saving.ok \/ ~Plan_.stops}
NextRequest == CHOOSE i \in Ahead : \A j \in Ahead : i <= j

\* A changed key is read back at once, with the old one, and either
\* connection goes on with what was read; what cannot be read is blank.
KeysAfter(outcome) ==
    LET old == apiKeys["config"]
        readable == /\ outcome # "unread"
                    /\ \/ ram'["enabled"] = Blank
                       \/ ram'["apiKey"] # Blank /\ old.apiKey = ram'["apiKey"]
                       \/ ram'["hmacKey"] # Blank /\ old.hmacKey = ram'["hmacKey"]
    IN [c \in DOMAIN apiKeys |->
           [k \in DOMAIN old |-> IF readable THEN ram'[k] ELSE Blank]]

\* What the hub makes of the lenient fields of a request with too much in it,
\* cutting one or two of them, or leaving one as it was, is left open.
Overfull(request) == \E f \in request.fields \cap Lenient(page) : form[f] = TooMuch
Cuts(request) ==
    IF saving.kind = "save" /\ Overfull(request)
      THEN {cut \in [request.fields \cap Lenient(page) -> Values \cup {TooMuch}] :
               \A f \in DOMAIN cut : cut[f] \in Held(f)}
      ELSE {<<>>}

Stored(request, cut) ==
    [f \in Fields |->
        IF saving.kind = "remove" THEN Blank
        ELSE IF f \in DOMAIN cut THEN cut[f]
        ELSE IF f = "enabled" /\ SwitchesOn(page, request) THEN 1
        ELSE IF f \in request.fields /\ ~(f \in KeptIfBlank(page) /\ form[f] = Blank)
          THEN form[f] ELSE ram[f]]

Fail == saving' = None /\ status' = "failed"

Send(outcome) ==
    /\ saving # None /\ Ahead # {}
    /\ Authorised(apiKeys["config"], TRUE) \/ outcome = "lost"
    /\ outcome = "unread" => page = "security"
    /\ LET request == IF saving.kind = "remove" THEN Removal ELSE Plan_.requests[NextRequest]
       IN /\ Meets(outcome, request.fields \cap Checked # {})
          /\ IF ReachesHub(outcome)
             THEN \E cut \in Cuts(request) : ram' = Stored(request, cut)
             ELSE ram' = ram
    /\ apiKeys' = IF page = "security" /\ outcome \in {"done", "unread"}
                  THEN KeysAfter(outcome) ELSE apiKeys
    /\ IF Silent(outcome) /\ ~Plan_.catches
       THEN Fail
       ELSE /\ saving' = [saving EXCEPT !.next = NextRequest + 1,
                                        !.ok = @ /\ Accepted(outcome)]
            /\ UNCHANGED status
    /\ current' = (current /\ \A f \in Fields \ (touched \cup Hidden) : ram'[f] = form[f])
    /\ UNCHANGED <<page, eeprom, snapshot, form, original, loading, reached, touched,
                   steady>>

\* A request with the wrong keys is refused.
SendUnauthorised ==
    /\ saving # None /\ Ahead # {} /\ ~Authorised(apiKeys["config"], TRUE)
    /\ saving' = [saving EXCEPT !.next = NextRequest + 1, !.ok = FALSE]
    /\ UNCHANGED <<page, hubMemory, snapshot, form, original, loading, status, reached,
                   apiKeys, historyVars, spent>>

StoresAll == \/ Plan_.save = "always" /\ saving.kind = "save"
             \/ Plan_.save # "never" /\ saving.ok

\* What the page does once it has said "Saved": the relay page remembers the
\* form, the page of a removed sensor closes, a password is forgotten.
Settle ==
    IF saving.kind = "remove"
    THEN form' = Blanks /\ original' = None /\ current' = FALSE /\ UNCHANGED <<touched, steady>>
    ELSE /\ form' = [f \in Fields |-> IF f \in Hidden THEN Blank ELSE form[f]]
         /\ original' = IF page = "relay" THEN [f \in Fields |-> AfterSave(f, form[f])]
                                         ELSE original
         /\ UNCHANGED historyVars

\* The last request, C0, and the verdict.
Finish(outcome) ==
    /\ saving # None /\ Ahead = {} /\ outcome # "unread"
    /\ LET accepted == outcome = "done" /\ Authorised(apiKeys["config"], FALSE)
           good == /\ saving.ok /\ ~Silent(outcome)
                   /\ StoresAll /\ Plan_.counted => accepted
       IN /\ IF StoresAll THEN Meets(outcome, TRUE) ELSE outcome = "done" /\ UNCHANGED spent
          /\ eeprom' = IF StoresAll /\ (accepted \/ outcome = "unanswered") THEN ram ELSE eeprom
          /\ IF good THEN saving' = None /\ status' = "saved" /\ Settle
                     ELSE Fail /\ UNCHANGED <<original, form, historyVars>>
    /\ UNCHANGED <<page, ram, snapshot, loading, reached, apiKeys>>

---------------------------------------------------------------------------
(* The dashboard and the poller *)

\* A relay's switch asks for the opposite of what is shown.
Toggle(outcome) ==
    /\ page = "dashboard" /\ saving = None
    /\ spent["act"] < MaxActs
    /\ Silent(outcome) => spent["trouble"] < MaxTroubles
    /\ outcome \in {"done", "lost", "unanswered"}
    /\ spent' = [spent EXCEPT !["act"] = @ + 1,
                              !["trouble"] = IF outcome = "done" THEN @ ELSE @ + 1]
    /\ LET asked == [form EXCEPT !["relay"] = IF @ = Blank THEN 1 ELSE Blank]
       IN /\ ram' = IF ReachesHub(outcome) THEN asked ELSE ram
          /\ form' = IF outcome = "done" THEN asked ELSE form
    /\ UNCHANGED <<page, eeprom, snapshot, original, loading, saving, status, reached,
                   apiKeys, historyVars>>

PollOnce ==  \* fault: a snapshot that is there is kept
    /\ snapshot = None /\ Authorised(apiKeys["dashboard"], FALSE)
    /\ snapshot' = ram
    /\ UNCHANGED <<page, hubMemory, pageVars, apiKeys, historyVars, spent>>

\* One turn of the poller; one that gets no answer leaves the last snapshot.
Poll == /\ Authorised(apiKeys["dashboard"], FALSE)
        /\ snapshot' = ram
        /\ UNCHANGED <<page, hubMemory, pageVars, apiKeys, historyVars, spent>>

---------------------------------------------------------------------------
(* The hub and the others *)

Foreign(f, v) == /\ ram[f] # v
                 /\ Spend("trouble")
                 /\ ram' = [ram EXCEPT ![f] = v]
                 /\ current' = FALSE /\ steady' = FALSE
                 /\ UNCHANGED <<page, eeprom, snapshot, pageVars, apiKeys, touched>>

\* What was not stored is gone.
Restart == /\ ram # eeprom
           /\ Spend("trouble")
           /\ ram' = eeprom
           /\ current' = FALSE /\ steady' = FALSE
           /\ UNCHANGED <<page, eeprom, snapshot, pageVars, apiKeys, touched>>
---------------------------------------------------------------------------
(* The whole *)

\* A page before its first load.
Opened ==
    /\ eeprom = ram /\ snapshot = None
    /\ form = Blanks /\ original = None /\ loading = None /\ saving = None
    /\ status = None /\ reached = FALSE
    /\ apiKeys \in [{"dashboard", "config"} -> [{"apiKey", "hmacKey"} -> Values]]
    /\ touched = {} /\ current = FALSE /\ steady = FALSE
    /\ spent \in [act : 0 .. MaxActs, trouble : 0 .. MaxTroubles]

Init == /\ page \in Pages
        /\ ram \in {r \in [Fields -> Values \cup {TooMuch}] : \A f \in Fields : r[f] \in Held(f)}
        /\ Opened

User == \/ \E f \in Fields : \E v \in Entered(f) : Edit(f, v)
        \/ \E kind \in {"save", "remove"} : PressSave(kind)
        \/ \E outcome \in Outcomes : Toggle(outcome)
Refresh == StartLoad \/ (\E answered \in BOOLEAN : Read(answered)) \/ EndLoad
Save == \/ \E outcome \in Outcomes : Send(outcome) \/ Finish(outcome)
        \/ SendUnauthorised
Others == (\E f \in Fields : \E v \in Held(f) : Foreign(f, v)) \/ Restart

Next == User \/ Refresh \/ Save \/ Poll \/ Others

\* The loops of the poller and of a live page come round again and again, and
\* a request comes to an end: the client has a time limit of ten seconds.
Spec == /\ Init /\ [][Next]_appVars
        /\ WF_appVars(Refresh) /\ WF_appVars(Save) /\ WF_appVars(Poll)

---------------------------------------------------------------------------
(* What a user relies on *)

\* "Saved" means that the hub has every value of the form, and will have them
\* after a restart if the page looks at the result of the storing, provided
\* that the page knew what the hub had, that nothing else happened since Save
\* was pressed, and that no request of the field had too much in it, which the
\* hub acknowledges and cuts or leaves.  What the page does not send (a field
\* left empty, a local sensor's box that was not changed) is not covered.
\* Code: the SaveAsync and SaveAllAsync of the view models over the requests of
\* ConfigConnection, which go on or stop after a failure, swallow or throw what
\* was lost, each in its own way; the strncpy and the casts of the handlers.
Fits(f) == \A i \in DOMAIN Plan_.requests :
              f \in Plan_.requests[i].fields => ~Overfull(Plan_.requests[i])
SwitchedOn(f) == page = "local" /\ f = "enabled"
Sent(f) == \E i \in DOMAIN Plan_.requests :
              /\ f \in Plan_.requests[i].fields
              /\ \/ Plan_.requests[i].when = "changed" /\ ~SwitchedOn(f)
                 \/ Due(Plan_.requests[i])
SavedMeansStored ==
    [][/\ saving # None /\ saving' = None /\ status' = "saved"
       /\ saving.kind = "save" /\ steady
       => \A f \in Fields :
             Sent(f) /\ Fits(f) /\ (form[f] = Blank => f \notin KeptIfBlank(page))
             => /\ ram'[f] = form[f]
                /\ Plan_.counted => eeprom'[f] = form[f]]_appVars

\* A save changes what the user changed and nothing else.  The relay page
\* keeps to it whatever it was shown (a stale snapshot, blanks for a lost
\* answer) and whoever else changes the hub; the pages that send all their
\* fields only while they show what the hub has, in fields that have room in
\* their requests, and but for the local sensor that S1 switches on.  Code: the
\* comparison with _original in RelayDetailViewModel.SaveAsync, the full writes
\* of the others.
ComparedOnly(f) == page = "relay" /\ f # "colour" /\ original # None
UntouchedKept ==
    [][saving # None /\ saving.kind = "save"
       => \A f \in Fields : ram'[f] # ram[f]
             => \/ f \in touched
                \/ /\ ~ComparedOnly(f)
                   /\ ~current \/ ~Fits(f) \/ SwitchedOn(f)]_saving

\* On the pages that depend on the poller: once the keys stay right and nothing
\* is changed or lost any more (after the bounds are spent), the snapshot and
\* the dashboard show the hub as it is and the banner says so, whatever was
\* lost before.
\* Code: DashboardPoller.RunLoopAsync and BaseViewModel.AutoRefreshLoopAsync go
\* on after every error.
Polled == {"relay", "security", "dashboard"}
DashboardCatchesUp ==
    page \in Polled /\ <>[]Authorised(apiKeys["dashboard"], FALSE)
    => <>[](/\ snapshot = ram
            /\ page = "dashboard" => form = ram /\ reached)
=============================================================================
