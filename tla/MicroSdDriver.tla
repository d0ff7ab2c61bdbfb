---------------------------- MODULE MicroSdDriver ----------------------------
(***************************************************************************)
(* The driver of the SD card: it starts the card, lets it settle, looks    *)
(* every few seconds whether it is there and still the same one, and deals *)
(* out a few file slots.  The configuration file is looked for whenever a  *)
(* card becomes ready (the option CARD_CONFIG_LOADER of Local.h).  Time is *)
(* counted in ticks up to the intervals.                                   *)
(***************************************************************************)
EXTENDS Integers, FiniteSets

CONSTANTS
    Card,               \* cards that may be put in
    NearlyFull,         \* those with less than a tenth free
    WithConfig,         \* those with a config.txt
    Slot,               \* file slots, 1 .. SdMaximumOpenFiles
    SettlingDelay,      \* ticks from the start to the use of a card
    PresenceInterval,   \* ticks between two looks, and before a retry
    NoCard, Invalid

ASSUME DriverAssumption ==
    /\ NearlyFull \subseteq Card /\ WithConfig \subseteq Card
    /\ Slot = 1 .. Cardinality(Slot) /\ IsFiniteSet(Slot) /\ Slot # {}
    /\ Invalid \notin {"Logger", "ConfigLoader"}
    /\ SettlingDelay \in Nat /\ PresenceInterval \in Nat
    /\ NoCard \notin Card

VARIABLES
    card,           \* the card in the holder
    faults,         \* whether a card that is in may fail to answer
    started,        \* the card whose file system the driver has read
    busError,       \* the error code of the last start or of a command since
    initState, cardPresent, serial,
    files,          \* _files
    warnings,
    sinceInit, sincePresence,   \* ages of the last start and of the last look
    searched        \* the card on which config.txt was looked for last

holderVars == <<card, faults>>
driverVars == <<started, busError, initState, cardPresent, serial, files,
                warnings, sinceInit, sincePresence, searched>>

Handle == {"Logger", "ConfigLoader"}
ConfigFile == "config.txt"
Closed == [handle |-> Invalid, open |-> FALSE, name |-> Invalid]

-----------------------------------------------------------------------------
(* A command to the card: without a card it fails, and a card that the     *)
(* driver has not started may answer or not.                               *)
Answers ==
    IF card = NoCard THEN {FALSE}
    ELSE IF faults \/ started # card THEN BOOLEAN ELSE {TRUE}

\* sd.begin() needs a card and an answer.
Begins == IF card = NoCard THEN {FALSE} ELSE IF faults THEN BOOLEAN ELSE {TRUE}

isReady == initState = "Initialized" /\ cardPresent

-----------------------------------------------------------------------------
(* File slots.  A slot keeps the handle of a file that could not be opened.*)

HasHandle(fs, h) == \E i \in Slot : fs[i].handle = h
SlotOf(fs, h)    == CHOOSE i \in Slot :
                       fs[i].handle = h /\ \A j \in Slot : fs[j].handle = h => i <= j
FirstClosed(fs)  == CHOOSE i \in Slot :
                       ~fs[i].open /\ \A j \in Slot : ~fs[j].open => i <= j
IsOpen(fs, h)    == \E i \in Slot : fs[i].handle = h /\ fs[i].open

ClosedFile(fs, h) ==
    IF IsOpen(fs, h) THEN [fs EXCEPT ![SlotOf(fs, h)] = Closed] ELSE fs

AllClosed(fs) == [i \in Slot |-> IF fs[i].open THEN Closed ELSE fs[i]]

SlotFor(fs, h) ==
    IF HasHandle(fs, h) THEN SlotOf(fs, h) ELSE FirstClosed(fs)

\* The slots after openFile(h, name), which opens the file or does not.
OpenedFile(fs, h, name, opens) ==
    LET free == ClosedFile(fs, h)
        i    == SlotFor(free, h)
    IN  IF opens
          THEN [free EXCEPT ![i] = [handle |-> h, open |-> TRUE, name |-> name]]
          ELSE [free EXCEPT ![i] = [handle |-> h, open |-> FALSE,
                                    name |-> free[i].name]]

-----------------------------------------------------------------------------
(* SdCardConfigLoader on the driver.  All files are closed; a card in      *)
(* error ends it; then the file is looked for, opened, read and closed.    *)

LoaderFiles(opens) ==
    LET fs == OpenedFile(AllClosed(files), "ConfigLoader", ConfigFile, opens)
    IN  IF opens THEN ClosedFile(fs, "ConfigLoader") ELSE fs

UseConfigFile(error, found, opens, w) ==
    /\ cardPresent' = ~error
    /\ IF error THEN /\ warnings' = w \cup {"Error"}
                     /\ files' = AllClosed(files)
       ELSE IF ~found THEN warnings' = w \ {"Error"} /\ files' = AllClosed(files)
       ELSE /\ warnings' = IF opens THEN w \ {"Error"} ELSE w \cup {"Error"}
            /\ files' = LoaderFiles(opens)

\* onSdCardReady: the configuration is looked for on the card.  "before" is the
\* error code until then; a command that fails here leaves its own.
LoadOnReady(before, w) ==
    \E answered \in Answers, opens \in BOOLEAN :
        /\ ~faults => opens
        /\ UseConfigFile(before, answered /\ card \in WithConfig, opens, w)
        /\ busError' = (before \/ ~answered)
        /\ searched' = IF before \/ ~answered THEN searched ELSE card

\* C29, and C30, which writes the file on any card.
ConfigCommand ==
    /\ initState = "Initialized"
    /\ \E answered \in Answers, opens \in BOOLEAN, export \in BOOLEAN :
          /\ ~faults => opens
          /\ UseConfigFile(busError,
                           answered /\ (export \/ card \in WithConfig),
                           opens, warnings)
          /\ busError' = (busError \/ ~answered)
    /\ UNCHANGED <<started, initState, serial, sinceInit, sincePresence, searched>>

-----------------------------------------------------------------------------
(* update()                                                                *)

LowSpace(w) == IF card \in NearlyFull THEN w \cup {"LowSpace"} ELSE w \ {"LowSpace"}

\* The size and the free space of the card, and what they say: two questions in
\* the code, of which either may go unanswered, and one here.
AfterCardInfo(w, answered) == IF answered THEN LowSpace(w \ {"Error"})
                              ELSE w \cup {"Error"}

Begin ==
    /\ initState = "Initializing"
    /\ \E begins \in Begins :
          \/ /\ begins
             /\ initState' = "Settling" /\ cardPresent' = TRUE /\ started' = card
             /\ \E read \in IF faults THEN BOOLEAN ELSE {TRUE} :
                   /\ serial' = IF read THEN card ELSE NoCard
                   /\ busError' = ~read
             /\ warnings' = warnings \ {"Missing", "Error"}
          \/ /\ ~begins
             /\ initState' = "Failed" /\ cardPresent' = FALSE
             /\ warnings' = warnings \cup {"Missing"}
             /\ UNCHANGED <<started, serial, busError>>
    /\ sinceInit' = 0
    /\ UNCHANGED <<files, sincePresence, searched>>

Settled ==
    /\ initState = "Settling" /\ sinceInit >= SettlingDelay
    /\ initState' = "Initialized"
    /\ \E answered \in Answers :
          LoadOnReady(busError \/ ~answered, AfterCardInfo(warnings, answered))
    /\ UNCHANGED <<started, serial, sinceInit, sincePresence>>

Retry ==
    /\ initState = "Failed" /\ sinceInit >= PresenceInterval
    /\ initState' = "Initializing" /\ cardPresent' = FALSE
    /\ files' = AllClosed(files)
    /\ UNCHANGED <<started, busError, serial, warnings, sinceInit, sincePresence,
                   searched>>

PresenceDue == initState = "Initialized" /\ sincePresence >= PresenceInterval

\* fault: a card that answers nothing is taken to be there.
LostUnnoticed ==
    /\ PresenceDue /\ busError
    /\ sincePresence' = 0
    /\ UNCHANGED <<started, busError, initState, cardPresent, serial, files,
                   warnings, sinceInit, searched>>

Lost ==
    /\ PresenceDue /\ busError
    /\ files' = AllClosed(files)
    /\ initState' = "Failed" /\ cardPresent' = FALSE /\ serial' = NoCard
    /\ warnings' = (warnings \cup {"Missing"}) \ {"Error", "LowSpace"}
    /\ sincePresence' = 0
    /\ UNCHANGED <<started, busError, sinceInit, searched>>

\* The card answers, or does not, and it is not seen to be another one.
SameCard ==
    /\ PresenceDue /\ ~busError
    /\ sincePresence' = 0 /\ cardPresent' = TRUE
    /\ \E read \in Answers :
          /\ read => serial \in {NoCard, card}
          /\ busError' = ~read
          /\ warnings' = IF read THEN warnings \ {"Error"} ELSE warnings \cup {"Error"}
    /\ UNCHANGED <<started, initState, serial, files, sinceInit,
                   searched>>

\* fault: the number of the other card is not kept and its file not looked for.
OtherCardIgnored ==
    /\ PresenceDue /\ ~busError /\ TRUE \in Answers
    /\ serial \notin {NoCard, card}
    /\ sincePresence' = 0 /\ files' = AllClosed(files)
    /\ UNCHANGED <<started, busError, initState, cardPresent, serial, warnings,
                   sinceInit, searched>>

\* Another card: its configuration is loaded, its file system is not read anew.
OtherCard ==
    /\ PresenceDue /\ ~busError /\ TRUE \in Answers
    /\ serial \notin {NoCard, card}
    /\ sincePresence' = 0 /\ serial' = card
    /\ \E answered \in Answers :
          LoadOnReady(~answered, AfterCardInfo(warnings, answered))
    /\ UNCHANGED <<started, initState, sinceInit>>

NotDue ==
    /\ initState # "Initializing"
    /\ initState = "Settling" => sinceInit < SettlingDelay
    /\ initState = "Failed" => sinceInit < PresenceInterval
    /\ ~PresenceDue
    /\ UNCHANGED driverVars

DriverUpdate == Begin \/ Settled \/ Retry \/ Lost \/ SameCard \/ OtherCard \/ NotDue

-----------------------------------------------------------------------------
(* setup() starts the card, or does not: without pins the state stays.     *)
DriverInit ==
    /\ card \in Card \cup {NoCard} /\ faults = TRUE
    /\ started = NoCard /\ busError = FALSE /\ serial = NoCard
    /\ initState \in {"NotInitialized", "Initializing"}
    /\ cardPresent = FALSE
    /\ files = [i \in Slot |-> Closed]
    /\ warnings = IF initState = "NotInitialized" THEN {"SpiPins"} ELSE {}
    /\ sinceInit = 0 /\ sincePresence = 0
    /\ searched = NoCard

\* The user puts a card in or takes it out; contacts get better for good.
ChangeCard == card' \in (Card \cup {NoCard}) \ {card} /\ UNCHANGED faults
FaultsCease == faults /\ faults' = FALSE /\ UNCHANGED card
Holder == (ChangeCard \/ FaultsCease) /\ UNCHANGED driverVars

Older(age, limit) == IF age < limit THEN age + 1 ELSE age

Larger(a, b) == IF a < b THEN b ELSE a

DriverAges ==
    /\ sinceInit' = Older(sinceInit, Larger(SettlingDelay, PresenceInterval))
    /\ sincePresence' = Older(sincePresence, PresenceInterval)
    /\ UNCHANGED <<started, busError, initState, cardPresent, serial, files,
                   warnings, searched>>
=============================================================================
