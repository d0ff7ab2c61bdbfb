---------------------------- MODULE SdCardLogger ----------------------------
(***************************************************************************)
(* The logger of sensor readings over the driver of the SD card: a ring of *)
(* snapshots, one log file a day, and its own view of the card's state.    *)
(* In each turn of the loop the driver runs first and the logger after it, *)
(* in three steps; the card may come and go at any moment.                 *)
(***************************************************************************)
EXTENDS MicroSdDriver, Sequences

CONSTANTS
    Snapshot,           \* readings that differ
    BufferSize,         \* SD_BUFFER_SIZE
    MaxWrites,          \* SD_MAX_WRITES_PER_LOOP
    Date,               \* records with a day and a month
    WriteInterval, FileCheckInterval, StatusInterval

ASSUME LoggerAssumption ==
    /\ BufferSize \in Nat \ {0} /\ MaxWrites \in Nat \ {0}
    /\ WriteInterval \in Nat /\ FileCheckInterval \in Nat /\ StatusInterval \in Nat

VARIABLES
    phase,              \* who runs next: "driver", "status", "date" or "write"
    currentFile,        \* _currentFile: the slot it points into, 0 for none
    fileOpen, currentDay,
    buffer, bufferHead, bufferTail, bufferCount,
    sdCardErrorRaised, sdCardMissingRaised,
    sinceWrite, sinceFileCheck, sinceStatus,
    today,              \* the date of the hub's clock
    taken               \* records the last turn took off the buffer

fileVars   == <<currentFile, fileOpen, currentDay>>
bufferVars == <<buffer, bufferHead, bufferTail, bufferCount>>
raisedVars == <<sdCardErrorRaised, sdCardMissingRaised>>
ageVars    == <<sinceWrite, sinceFileCheck, sinceStatus>>
loggerVars == <<fileVars, bufferVars, raisedVars, ageVars, today, taken>>
sdCardVars == <<holderVars, driverVars, phase, loggerVars>>

\* What the driver keeps when the logger only uses its files.
driverRest == <<started, initState, cardPresent, serial, sinceInit,
                sincePresence, searched>>

-----------------------------------------------------------------------------
(* The ring buffer.                                                        *)

isBufferFull == bufferCount >= BufferSize
Behind(i) == (i + 1) % BufferSize

\* fault: the oldest record of a full ring keeps its place.
AddSnapshotOver(s) ==
    [buffer |-> [buffer EXCEPT ![bufferHead] = s],
     head   |-> Behind(bufferHead), tail |-> bufferTail,
     count  |-> IF isBufferFull THEN bufferCount ELSE bufferCount + 1]

\* The ring after addSnapshotToBuffer(s), which drops the oldest when full.
AddSnapshot(s) ==
    [buffer |-> [buffer EXCEPT ![bufferHead] = s],
     head   |-> Behind(bufferHead),
     tail   |-> IF isBufferFull THEN Behind(bufferTail) ELSE bufferTail,
     count  |-> IF isBufferFull THEN bufferCount ELSE bufferCount + 1]

-----------------------------------------------------------------------------
(* The log file.                                                           *)

\* closeCurrentFile, for a file that is open.
FilesWithoutLog == IF currentFile # 0 /\ fileOpen THEN ClosedFile(files, "Logger")
                   ELSE files

\* openOrCreateFile on these slots: today's file is opened, or not.
OpenOrCreate(fs, opens) ==
    /\ files' = OpenedFile(fs, "Logger", today, opens)
    /\ currentFile' = IF opens THEN SlotFor(ClosedFile(fs, "Logger"), "Logger") ELSE 0
    /\ fileOpen' = opens
    /\ currentDay' = today.day

\* What the driver says of an opening.
AfterOpening(w, opens) == IF opens THEN w \ {"Error"} ELSE w \cup {"Error"}

checkSdCardStatus ==
    \/ /\ initState = "Initialized"
       /\ warnings' = (warnings \ (IF sdCardMissingRaised THEN {"Missing"} ELSE {}))
                                \ (IF sdCardErrorRaised THEN {"Error"} ELSE {})
       /\ sdCardMissingRaised' = FALSE /\ sdCardErrorRaised' = FALSE
       /\ UNCHANGED <<files, fileVars>>
    \/ /\ initState \in {"Failed", "NotInitialized"}
       /\ files' = FilesWithoutLog
       /\ currentFile' = IF fileOpen THEN 0 ELSE currentFile
       /\ fileOpen' = FALSE /\ UNCHANGED currentDay
       /\ warnings' = (IF sdCardMissingRaised THEN warnings
                       ELSE warnings \cup {"Missing"})
                      \ (IF sdCardErrorRaised THEN {"Error"} ELSE {})
       /\ sdCardMissingRaised' = TRUE /\ sdCardErrorRaised' = FALSE
    \/ /\ initState \in {"Initializing", "Settling"}
       /\ UNCHANGED <<files, fileVars, warnings, raisedVars>>

\* The first step of update(), which ends here when the card is not ready.
Status ==
    /\ phase = "status" /\ phase' = IF isReady THEN "date" ELSE "driver"
    /\ IF sinceStatus >= StatusInterval
         THEN checkSdCardStatus /\ sinceStatus' = 0
         ELSE UNCHANGED <<files, fileVars, warnings, raisedVars, sinceStatus>>
    /\ UNCHANGED <<holderVars, driverRest, busError, bufferVars, sinceWrite,
                   sinceFileCheck, today, taken>>

\* Only the day of the month is compared, and only once a file was opened.
checkForDateChange ==
    IF today.day # currentDay /\ currentDay # 0
      THEN \E opens \in Answers :
              /\ OpenOrCreate(FilesWithoutLog, opens)
              /\ warnings' = AfterOpening(warnings, opens)
              /\ busError' = (busError \/ ~opens)
      ELSE UNCHANGED <<files, fileVars, warnings, busError>>

DateCheck ==
    /\ phase = "date" /\ phase' = "write"
    /\ IF sinceFileCheck >= FileCheckInterval
         THEN checkForDateChange /\ sinceFileCheck' = 0
         ELSE UNCHANGED <<files, fileVars, warnings, busError, sinceFileCheck>>
    /\ UNCHANGED <<holderVars, driverRest, bufferVars, raisedVars, sinceWrite,
                   sinceStatus, today, taken>>

\* fault: the pointer is used without a look at the file it points to.
HasLogBlind == currentFile # 0 /\ fileOpen

\* Whether writeRecordsToCard() finds its file open.
HasLog == currentFile # 0 /\ fileOpen /\ files[currentFile].open

SetRing(ring, n) ==
    /\ buffer' = ring.buffer /\ bufferHead' = ring.head
    /\ bufferTail' = (ring.tail + n) % BufferSize
    /\ bufferCount' = ring.count - n
    /\ taken' = n

\* Records leave the ring whether or not the card takes them.
WriteOut(ring) ==
    /\ SetRing(ring, IF ring.count < MaxWrites THEN ring.count ELSE MaxWrites)
    /\ sinceWrite' = 0 /\ sdCardErrorRaised' = FALSE

WriteToOpen(ring) ==
    /\ HasLog
    /\ WriteOut(ring)
    /\ \E answered \in Answers : busError' = (busError \/ ~answered)
    /\ warnings' = warnings \ (IF sdCardErrorRaised THEN {"Error"} ELSE {})
    /\ UNCHANGED <<files, fileVars>>

\* A stale pointer is dropped, then today's file is opened.
OpenAndWrite(ring) ==
    /\ ~HasLog
    /\ \E opens \in Answers :
          /\ OpenOrCreate(files, opens)
          /\ busError' = (busError \/ ~opens)
          /\ IF opens
               THEN WriteOut(ring) /\ warnings' = warnings \ {"Error"}
               ELSE /\ SetRing(ring, 0) /\ UNCHANGED sinceWrite
                    /\ warnings' = warnings \cup {"Error"}
                    /\ sdCardErrorRaised' = TRUE

\* A snapshot is taken and what fits into a turn is written.  A failed turn does
\* not start the interval again: the next turn takes another snapshot.
Write ==
    /\ phase = "write" /\ phase' = "driver"
    /\ IF sinceWrite >= WriteInterval
         THEN \E s \in Snapshot : LET ring == AddSnapshot(s)
                                  IN  WriteToOpen(ring) \/ OpenAndWrite(ring)
         ELSE /\ taken' = 0
              /\ UNCHANGED <<files, fileVars, bufferVars, warnings, busError,
                             sdCardErrorRaised, sinceWrite>>
    /\ UNCHANGED <<holderVars, driverRest, sdCardMissingRaised, sinceFileCheck,
                   sinceStatus, today>>

-----------------------------------------------------------------------------
(* The loop, the commands between two turns, the clock and the user.       *)

Driver ==
    /\ phase = "driver" /\ phase' = "status" /\ taken' = 0
    /\ DriverUpdate
    /\ UNCHANGED <<holderVars, fileVars, bufferVars, raisedVars, ageVars, today>>

CardCommand ==
    /\ phase = "driver" /\ ConfigCommand
    /\ UNCHANGED <<holderVars, phase, loggerVars>>

\* Time passes between two turns.
Tick ==
    /\ phase = "driver" /\ DriverAges
    /\ sinceWrite' = Older(sinceWrite, WriteInterval)
    /\ sinceFileCheck' = Older(sinceFileCheck, FileCheckInterval)
    /\ sinceStatus' = Older(sinceStatus, StatusInterval)
    /\ UNCHANGED <<holderVars, phase, fileVars, bufferVars, raisedVars, today, taken>>

\* The clock goes on or is set.
SetClock ==
    /\ phase = "driver" /\ today' \in Date \ {today}
    /\ UNCHANGED <<holderVars, driverVars, phase, fileVars, bufferVars, raisedVars,
                   ageVars, taken>>

HolderChanges == Holder /\ UNCHANGED <<phase, loggerVars>>

LoggerInit ==
    /\ DriverInit
    /\ phase = "driver"
    /\ currentFile = 0 /\ fileOpen = FALSE /\ currentDay = 0
    /\ buffer = [i \in 0 .. BufferSize - 1 |-> CHOOSE s \in Snapshot : TRUE]
    /\ bufferHead = 0 /\ bufferTail = 0 /\ bufferCount = 0
    /\ sdCardErrorRaised = FALSE /\ sdCardMissingRaised = FALSE
    /\ sinceWrite = 0 /\ sinceFileCheck = 0 /\ sinceStatus = 0
    /\ today \in Date /\ taken = 0

Loop == Driver \/ Status \/ DateCheck \/ Write
LoggerNext == Loop \/ CardCommand \/ Tick \/ SetClock \/ HolderChanges

\* The loop turns and time passes; everything else may never happen.
LoggerSpec ==
    LoggerInit /\ [][LoggerNext]_sdCardVars /\ WF_sdCardVars(Loop) /\ SF_sdCardVars(Tick)

-----------------------------------------------------------------------------
(* Properties.                                                             *)

\* Records only go to the log: whatever was closed, reopened or loaded from the
\* card in between, the file they are written to is open, was opened by the
\* logger, and is the one of the day its date check knows.
LogGoesToTheLog ==
    [][phase = "write" /\ taken' > 0
         => /\ files'[currentFile'].open
            /\ files'[currentFile'].handle = "Logger"
            /\ files'[currentFile'].name.day = currentDay']_sdCardVars

\* The ring of snapshots keeps the newest records in their order.
Queue == INSTANCE RecordQueue WITH
    queue <- [i \in 1 .. bufferCount |-> buffer[(bufferTail + i - 1) % BufferSize]]

ImplementsQueue == Queue!Spec

\* The card is in for good, in working order, the hub is set up to use it, and
\* what the driver uses is the file system it read from this very card.
CardStays ==
    /\ card # NoCard /\ ~faults /\ initState # "NotInitialized"
    /\ initState = "Initialized" => started = card

\* Whatever happened to the card before, once it stays the log goes on and the
\* warnings that it is missing or broken go away.
LogsAgain ==
    <>[]CardStays => /\ []<>(taken > 0)
                     /\ <>[](warnings \intersect {"Missing", "Error"} = {})

\* The card is not the one whose number the driver knows.
New(c) == initState \in {"Failed", "Initializing"} \/ serial \notin {NoCard, c}

\* A card that is put in for good where the driver has seen none, or another one,
\* has its configuration file looked for.  (One that is swapped and swapped back
\* between two looks of the driver may never have, nor one that replaces a card
\* whose number could not be read.)
EveryCardLoaded ==
    \A c \in Card : New(c) /\ [](card = c /\ ~faults) ~> searched = c
=============================================================================
