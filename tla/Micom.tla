------------------------------- MODULE Micom --------------------------------
(***************************************************************************)
(* The collector of the MiCOM protection relays.  One thread goes over the *)
(* relays whose reading is due: it learns what it must know of the relay,  *)
(* reads the directory of its disturbance recordings, downloads the ones   *)
(* it has not stored, block by block and channel by channel, and stores    *)
(* the latest fault.  The relay goes on recording meanwhile, and a         *)
(* recording may take the place of the one that is being downloaded.       *)
(*                                                                         *)
(* The recordings and the faults of a relay are counted, each by itself: a *)
(* recording may have no fault (a start from outside, a logic input), and  *)
(* a fault no recording.  A slot only ever gets a later recording, whose   *)
(* signature (its number, its date and its origin) is its count.           *)
(***************************************************************************)
EXTENDS Integers, FiniteSets

CONSTANTS
    Relays,
    Slots,        \* the places a relay has for recordings (five in the code)
    Channels,     \* channels of a recording (four in the code)
    Blocks,       \* blocks of a channel (up to sixteen in the code)
    MaxEvents,    \* bound: recordings of a relay
    MaxTrips,     \* bound: faults of a relay
    MaxRequests,  \* bound: requests of the operator
    MaxFaults     \* bound: readings and writes that fail, crashes

VARIABLES
    recordings, \* recordings each relay has made
    trips,      \* faults each relay has had
    recorded,   \* the recording each slot of a relay holds, 0 for none
    rows,       \* stored recordings: their signature and what was read, by slot
    faultRow,   \* the stored latest fault, 0 for none
    refresh,    \* state of the downloads: was one completed, place in the retries
    due,        \* has the time of the next reading come?
    known,      \* stored parameters of the relay
    parts,      \* parts of the profile read in this session, and what is wrong with them
    tries,      \* failures in a row, in memory
    enabled,    \* the operator's flag, in memory ...
    flagFile,   \* ... and on disk
    observing,  \* the flag at the last turn of the loop
    monitor,    \* where the thread is
    download,   \* the recording that is being read
    changes,
    faults

relayVars == <<recordings, trips, recorded>>
stored == <<rows, faultRow, refresh, known>>
flag == <<enabled, flagFile>>
micomVars == <<relayVars, stored, due, parts, tries, flag, observing, monitor, download>>
vars == <<micomVars, changes, faults>>

None == [signature |-> 0, blocks |-> {}]
Asleep == [at |-> "asleep", relay |-> CHOOSE r \in Relays : TRUE, todo |-> {},
           references |-> [s \in Slots |-> 0], left |-> {}, failed |-> FALSE, fault |-> 0]
Idle == [slot |-> CHOOSE s \in Slots : TRUE, channel |-> 1, block |-> 1, got |-> {},
         selected |-> 0]
RetryIntervals == 4 \* 30 minutes, 2 hours, 12 hours, a day
ProfileParts == {"identity", "transformers"}
Defects == {"invalid", "refused"}

Capped(n) == IF n < RetryIntervals THEN n ELSE RetryIntervals

OnlyIn(places) == [s \in Slots |-> IF s \in places THEN 1 ELSE 0]

\* A database that was just created; the relay may hold a recording, and has had no
\* fault yet.
Init ==
    /\ recordings = [r \in Relays |-> 1]
    /\ trips = [r \in Relays |-> 0]
    /\ recorded \in [Relays -> {OnlyIn(places) : places \in {{}} \cup {{s} : s \in Slots}}]
    /\ rows = [r \in Relays |-> [s \in Slots |-> None]]
    /\ faultRow = [r \in Relays |-> 0]
    /\ refresh = [r \in Relays |-> [updated |-> FALSE, retry |-> 0]]
    /\ due = [r \in Relays |-> TRUE]
    /\ known = [r \in Relays |-> {}]
    /\ parts = [r \in Relays |-> {}]
    /\ tries = [r \in Relays |-> 0]
    /\ enabled \in BOOLEAN /\ flagFile = enabled
    /\ observing = FALSE
    /\ monitor = Asleep
    /\ download = Idle
    /\ changes = 0 /\ faults = 0

Fail == faults < MaxFaults /\ faults' = faults + 1

\* What the database is told of a relay, of a recording and of a fault.
Failed(row, count) == [row EXCEPT !.retry = count]
Completed == [updated |-> TRUE, retry |-> 0]
Recording(signature, read) == [signature |-> signature, blocks |-> read]
Newer(row, read) == IF read > row THEN read ELSE row
WithPart(part) == [known EXCEPT ![monitor.relay] = @ \cup {part}]

At(place) == monitor.at = place
Goto(place) == monitor' = [monitor EXCEPT !.at = place]
Relay == monitor.relay

-----------------------------------------------------------------------------
(* The relays and the clock.                                               *)

\* A disturbance is recorded in a slot, whatever started the recording.
Records(r, s) ==
    /\ recordings[r] < MaxEvents
    /\ recordings' = [recordings EXCEPT ![r] = @ + 1]
    /\ recorded' = [recorded EXCEPT ![r][s] = recordings[r] + 1]
    /\ UNCHANGED <<trips, stored, due, parts, tries, flag, observing, monitor, download,
                   changes, faults>>

\* A new latest fault.
Trips(r) ==
    /\ trips[r] < MaxTrips
    /\ trips' = [trips EXCEPT ![r] = @ + 1]
    /\ UNCHANGED <<recordings, recorded, stored, due, parts, tries, flag, observing, monitor,
                   download, changes, faults>>

\* The 30 days of a completed reading, or the interval of a retry, are over.
Wait(r) ==
    /\ ~due[r]
    /\ due' = [due EXCEPT ![r] = TRUE]
    /\ UNCHANGED <<relayVars, stored, parts, tries, flag, observing, monitor, download,
                   changes, faults>>

-----------------------------------------------------------------------------
(* The operator's flag: memory first, then the file, which is not written  *)
(* again when the request is repeated after an error.                      *)

SetEnabled(value) ==
    /\ changes < MaxRequests
    /\ changes' = changes + 1
    /\ enabled' = value
    /\ \/ enabled = value /\ UNCHANGED <<flagFile, faults>>
       \/ enabled # value /\ flagFile' = value /\ UNCHANGED faults
       \/ enabled # value /\ Fail /\ UNCHANGED flagFile
    /\ UNCHANGED <<relayVars, stored, due, parts, tries, observing, monitor, download>>

-----------------------------------------------------------------------------
(* The loop.                                                               *)

\* A turn of the loop: a flag that was raised starts a session, and a reading
\* that is due starts a cycle over all the relays.
Turn ==
    /\ At("asleep")
    /\ observing' = enabled
    /\ parts' = IF enabled /\ ~observing THEN [r \in Relays |-> {}] ELSE parts
    /\ monitor' = IF enabled /\ \E r \in Relays : due[r]
                  THEN [monitor EXCEPT !.at = "cycle", !.todo = Relays] ELSE monitor
    /\ UNCHANGED <<relayVars, stored, due, tries, flag, download, changes, faults>>

NextRelay(r) ==
    /\ At("cycle") /\ enabled /\ r \in monitor.todo
    /\ monitor' = IF due[r]
                  THEN [monitor EXCEPT !.at = "format", !.relay = r, !.todo = @ \ {r},
                                       !.failed = FALSE]
                  ELSE [monitor EXCEPT !.todo = @ \ {r}]
    /\ UNCHANGED <<relayVars, stored, due, parts, tries, flag, observing, download, changes,
                   faults>>

EndCycle ==
    /\ At("cycle") /\ (monitor.todo = {} \/ ~enabled)
    /\ monitor' = Asleep /\ download' = Idle
    /\ UNCHANGED <<relayVars, stored, due, parts, tries, flag, observing, changes, faults>>

\* The reading of this relay is given up until the next of its intervals.
ScheduleRetry ==
    LET count == Capped(tries[Relay] + 1) IN
    /\ tries' = [tries EXCEPT ![Relay] = count]
    /\ refresh' = [refresh EXCEPT ![Relay] = Failed(@, count)]
    /\ due' = [due EXCEPT ![Relay] = FALSE]
    /\ Goto("cycle")

\* A parameter that is stored is never read again.
Learn(part, next) ==
    \/ /\ part \in known[Relay]
       /\ Goto(next)
       /\ UNCHANGED <<known, refresh, due, tries, faults>>
    \/ /\ part \notin known[Relay]
       /\ known' = WithPart(part)
       /\ Goto(next)
       /\ UNCHANGED <<refresh, due, tries, faults>>
    \/ /\ part \notin known[Relay]
       /\ Fail /\ ScheduleRetry
       /\ UNCHANGED known

GetDateFormat ==
    /\ At("format") /\ Learn("format", "frequency")
    /\ UNCHANGED <<relayVars, rows, faultRow, parts, flag, observing, download, changes>>

GetConfiguration ==
    /\ At("frequency") /\ Learn("frequency", "directory")
    /\ UNCHANGED <<relayVars, rows, faultRow, parts, flag, observing, download, changes>>

\* The directory names the recordings the relay holds, with their signatures; fault
\* is history, the latest fault by then.
ReadReferences ==
    /\ At("directory")
    /\ \/ /\ monitor' = [monitor EXCEPT
                !.at = "records", !.references = recorded[Relay],
                !.left = {s \in Slots : recorded[Relay][s] # 0}, !.fault = trips[Relay]]
          /\ UNCHANGED <<refresh, due, tries, faults>>
       \/ Fail /\ ScheduleRetry
    /\ UNCHANGED <<relayVars, rows, faultRow, known, parts, flag, observing, download,
                   changes>>

\* The flag is looked at before each recording; a stored one is not read again.
IsStored(s) == rows[Relay][s].signature = monitor.references[s]

NextRecord(s) ==
    /\ At("records") /\ enabled /\ s \in monitor.left
    /\ IF IsStored(s)
       THEN /\ monitor' = [monitor EXCEPT !.left = @ \ {s}]
            /\ UNCHANGED download
       ELSE /\ Goto("block")
            /\ download' = [Idle EXCEPT !.slot = s]
    /\ UNCHANGED <<relayVars, stored, due, parts, tries, flag, observing, changes, faults>>

Disabled ==
    /\ At("records") /\ ~enabled /\ monitor.left # {}
    /\ Goto("cycle")
    /\ UNCHANGED <<relayVars, stored, due, parts, tries, flag, observing, download, changes,
                   faults>>

\* Selecting a block copies it to the pages that are then read.
ReadBlock ==
    LET now == recorded[Relay][download.slot] IN
    /\ At("block")
    /\ download' = [download EXCEPT !.got = @ \cup {now}, !.selected = now,
                                    !.block = IF @ < Blocks THEN @ + 1 ELSE 1]
    /\ Goto(IF download.block < Blocks THEN "block" ELSE "index")
    /\ UNCHANGED <<relayVars, stored, due, parts, tries, flag, observing, changes, faults>>

RecordDone(failed) ==
    monitor' = [monitor EXCEPT !.at = "records", !.left = @ \ {download.slot},
                               !.failed = @ \/ failed]

\* A mutant of IndexMatches: the number of the recording alone is compared.
IndexMatchesSlot(index) == TRUE

\* The index read after the blocks of each channel must name the recording of
\* the directory.
IndexMatches(index) == index = monitor.references[download.slot]

\* The index is of the recording last selected, or of the one the slot holds.
ReadIndex ==
    /\ At("index")
    /\ \E index \in {download.selected, recorded[Relay][download.slot]} :
         \/ /\ ~IndexMatches(index)
            /\ RecordDone(TRUE)
            /\ UNCHANGED <<rows, download>>
         \/ /\ IndexMatches(index) /\ download.channel < Channels
            /\ download' = [download EXCEPT !.channel = @ + 1]
            /\ Goto("block")
            /\ UNCHANGED rows
         \/ /\ IndexMatches(index) /\ download.channel = Channels
            /\ rows' = [rows EXCEPT ![Relay][download.slot] =
                  Recording(monitor.references[download.slot], download.got)]
            /\ RecordDone(FALSE)
            /\ UNCHANGED download
    /\ UNCHANGED <<relayVars, faultRow, refresh, known, due, parts, tries, flag, observing,
                   changes, faults>>

\* An error of a recording is kept for the end: the next ones are read first.
RecordFails ==
    /\ monitor.at \in {"block", "index"} /\ Fail
    /\ RecordDone(TRUE)
    /\ UNCHANGED <<relayVars, stored, due, parts, tries, flag, observing, download, changes>>

\* A mutant of RecordsDone: a recording that failed is no error of the reading.
RecordsDoneAnyway ==
    /\ At("records") /\ monitor.left = {}
    /\ Goto("profile")
    /\ UNCHANGED <<relayVars, rows, faultRow, refresh, known, due, parts, tries, flag,
                   observing, download, changes, faults>>

RecordsDone ==
    /\ At("records") /\ monitor.left = {}
    /\ IF monitor.failed
       THEN ScheduleRetry
       ELSE Goto("profile") /\ UNCHANGED <<refresh, due, tries>>
    /\ UNCHANGED <<relayVars, rows, faultRow, known, parts, flag, observing, download,
                   changes, faults>>

\* The scale of the currents comes in two parts, each kept for the session when the
\* other fails.  A profile that could not be read, or is no scale ("invalid"), does
\* not fail the reading; one that is a scale and the table does not take ("refused": no
\* name, no secondary) does, and so does every reading until the parts are forgotten.
GetProfile ==
    LET missing == ProfileParts \ parts[Relay] IN
    /\ At("profile")
    /\ \/ /\ "profile" \in known[Relay]
          /\ Goto("fault")
          /\ UNCHANGED <<known, parts, refresh, due, tries, faults>>
       \/ /\ "profile" \notin known[Relay]
          /\ \E read \in SUBSET missing, defects \in SUBSET Defects :
               LET have == parts[Relay] \cup read \cup defects IN
               /\ read = {} => defects = {}
               /\ faults + Cardinality(missing \ read) + Cardinality(defects) <= MaxFaults
               /\ faults' = faults + Cardinality(missing \ read) + Cardinality(defects)
               /\ parts' = [parts EXCEPT ![Relay] = have]
               /\ IF have = ProfileParts \cup {"refused"}
                  THEN ScheduleRetry /\ UNCHANGED known
                  ELSE /\ known' = IF have = ProfileParts THEN WithPart("profile") ELSE known
                       /\ Goto("fault")
                       /\ UNCHANGED <<refresh, due, tries>>
    /\ UNCHANGED <<relayVars, rows, faultRow, flag, observing, download, changes>>

\* It is stored if it is newer.  The empty block of a relay without faults is one
\* without a date in one of the two formats, and the oldest of all in the other.
RefreshLatestFault ==
    /\ At("fault")
    /\ \/ /\ faultRow' = [faultRow EXCEPT ![Relay] = Newer(@, trips[Relay])]
          /\ Goto("complete")
          /\ UNCHANGED <<refresh, due, tries, faults>>
       \/ /\ trips[Relay] = 0
          /\ ScheduleRetry /\ UNCHANGED <<faultRow, faults>>
       \/ Fail /\ ScheduleRetry /\ UNCHANGED faultRow
    /\ UNCHANGED <<relayVars, rows, known, parts, flag, observing, download, changes>>

Complete ==
    /\ At("complete")
    /\ refresh' = [refresh EXCEPT ![Relay] = Completed]
    /\ tries' = [tries EXCEPT ![Relay] = 0]
    /\ due' = [due EXCEPT ![Relay] = FALSE]
    /\ Goto("cycle")
    /\ UNCHANGED <<relayVars, rows, faultRow, known, parts, flag, observing, download,
                   changes, faults>>

\* An error of the database is no reading error: it ends the thread, which the
\* supervisor starts again with the same memory.
ThreadDies ==
    /\ monitor.at # "asleep" /\ Fail
    /\ monitor' = Asleep /\ download' = Idle
    /\ UNCHANGED <<relayVars, stored, due, parts, tries, flag, observing, changes>>

\* A new process reads the flag and the parameters from disk.
Restart ==
    /\ Fail
    /\ enabled' = flagFile /\ observing' = FALSE
    /\ parts' = [r \in Relays |-> {}]
    /\ tries' = [r \in Relays |-> 0]
    /\ monitor' = Asleep /\ download' = Idle
    /\ UNCHANGED <<relayVars, stored, due, flagFile, changes>>

-----------------------------------------------------------------------------
Step ==
    \/ Turn \/ EndCycle \/ (\E r \in Relays : NextRelay(r))
    \/ GetDateFormat \/ GetConfiguration \/ ReadReferences
    \/ (\E s \in Slots : NextRecord(s)) \/ Disabled
    \/ ReadBlock \/ ReadIndex \/ RecordFails \/ RecordsDone
    \/ GetProfile \/ RefreshLatestFault \/ Complete

Environment ==
    \/ \E r \in Relays, s \in Slots : Records(r, s)
    \/ \E r \in Relays : Trips(r)
    \/ \E value \in BOOLEAN : SetEnabled(value)
    \/ ThreadDies \/ Restart

Next == Step \/ Environment \/ \E r \in Relays : Wait(r)

Spec == Init /\ [][Next]_vars

-----------------------------------------------------------------------------
Events == 0 .. MaxEvents

TypeOK ==
    /\ recordings \in [Relays -> Events] /\ trips \in [Relays -> 0 .. MaxTrips]
    /\ recorded \in [Relays -> [Slots -> Events]]
    /\ rows \in [Relays -> [Slots -> [signature : Events, blocks : SUBSET Events]]]
    /\ faultRow \in [Relays -> 0 .. MaxTrips]
    /\ refresh \in [Relays -> [updated : BOOLEAN, retry : 0 .. RetryIntervals]]
    /\ due \in [Relays -> BOOLEAN]
    /\ known \in [Relays -> SUBSET {"format", "frequency", "profile"}]
    /\ parts \in [Relays -> SUBSET (ProfileParts \cup Defects)]
    /\ tries \in [Relays -> 0 .. RetryIntervals]
    /\ enabled \in BOOLEAN /\ flagFile \in BOOLEAN /\ observing \in BOOLEAN
    /\ monitor \in [at : {"asleep", "cycle", "format", "frequency", "directory", "records",
                          "block", "index", "profile", "fault", "complete"},
                    relay : Relays, todo : SUBSET Relays, references : [Slots -> Events],
                    left : SUBSET Slots, failed : BOOLEAN, fault : 0 .. MaxTrips]
    /\ download \in [slot : Slots, channel : 1 .. Channels, block : 1 .. Blocks,
                     got : SUBSET Events, selected : Events]

\* micom_relay_reader.py, read_disturbance: everything a stored recording holds was
\* read from the one its signature names, though its blocks are read one by one
\* and the relay may put another one in its slot meanwhile.
RecordingsAreWhole ==
    \A r \in Relays, s \in Slots :
        rows[r][s] # None => rows[r][s].blocks = {rows[r][s].signature}

\* A reading is over for 30 days only when every recording of the directory it read
\* is stored, and a fault as late as any the relay had when it was read.
ReadingIsStored ==
    \A r \in Relays :
        due[r] /\ ~due'[r] /\ refresh'[r].retry = 0 =>
            /\ \A s \in Slots : rows'[r][s].signature = monitor.references[s]
            /\ faultRow'[r] >= monitor.fault

\* A stored recording or fault only gives way to a later one.
RowsOnlyAdvance ==
    \A r \in Relays :
        /\ faultRow'[r] >= faultRow[r]
        /\ \A s \in Slots : rows'[r][s].signature >= rows[r][s].signature

\* What the relay holds is stored, and so is its latest fault, unless its profile
\* is one the table does not take.
Agrees ==
    \A r \in Relays :
        /\ "refused" \notin parts[r] => faultRow[r] = trips[r]
        /\ \A s \in Slots : rows[r][s].signature = recorded[r][s]
=============================================================================
