--------------------------- MODULE BackendsProofs ---------------------------
(***************************************************************************)
(* One behaviour of Backends follows one service; what it keeps is an      *)
(* invariant of that service, and the others stand still.  Each part below *)
(* states such an invariant, shows that it holds at the beginning and that *)
(* every step of the service keeps it; the last part puts them together.   *)
(***************************************************************************)
EXTENDS Backends, FiniteSetTheorems, TLAPS

-----------------------------------------------------------------------------
(***************************************************************************)
(* The collector of the MiCOM relays                                       *)
(***************************************************************************)
Places == {"asleep", "cycle", "format", "frequency", "directory", "records", "block",
           "index", "profile", "fault", "complete"}
AfterRecords == {"profile", "fault", "complete"}
AfterDirectory == {"records", "block", "index"} \cup AfterRecords

RelayShapes ==
    /\ recordings \in [Relays -> Nat] /\ trips \in [Relays -> Nat]
    /\ recorded \in [Relays -> [Slots -> Nat]]
    /\ rows \in [Relays -> [Slots -> [signature : Nat, blocks : SUBSET Nat]]]
    /\ faultRow \in [Relays -> Nat]
    /\ refresh \in [Relays -> [updated : BOOLEAN, retry : Nat]]
    /\ due \in [Relays -> BOOLEAN]
    /\ tries \in [Relays -> Nat]
    /\ monitor \in [at : Places, relay : Relays \cup {Relay!Asleep.relay}, todo : SUBSET Relays,
                    references : [Slots -> Nat], left : SUBSET Slots, failed : BOOLEAN, fault : Nat]
    /\ download \in [slot : Slots \cup {Relay!Idle.slot}, channel : Nat, block : Nat,
                     got : SUBSET Nat, selected : Nat]
    /\ monitor.at \notin {"asleep", "cycle"} => monitor.relay \in Relays
    /\ monitor.at \in {"block", "index"} => download.slot \in Slots

\* A recording is never one that is still to come, nor a stored one later than the
\* recording the relay holds in the same slot.
EventsInOrder ==
    \A r \in Relays, s \in Slots :
        /\ recorded[r][s] <= recordings[r]
        /\ rows[r][s].signature <= recorded[r][s]

\* The directory read lies between what is stored and what the relay holds; what
\* is no longer left is stored, unless something failed.
DirectoryInOrder ==
    monitor.at \in AfterDirectory =>
        /\ \A s \in Slots : rows[Relay!Relay][s].signature <= monitor.references[s]
        /\ \A s \in Slots : monitor.references[s] <= recorded[Relay!Relay][s]
        /\ \A s \in Slots \ monitor.left :
             monitor.failed \/ rows[Relay!Relay][s].signature = monitor.references[s]
        /\ monitor.at \in AfterRecords => monitor.left = {} /\ ~monitor.failed
        /\ monitor.fault <= trips[Relay!Relay]
        /\ monitor.at = "complete" => monitor.fault <= faultRow[Relay!Relay]

\* What is read of a recording lies between the directory and the slot.
DownloadInOrder ==
    monitor.at \in {"block", "index"} =>
        /\ \A g \in download.got : monitor.references[download.slot] <= g /\ g <= download.selected
        /\ download.selected <= recorded[Relay!Relay][download.slot]
        /\ monitor.at = "index" => download.got # {}

RelayInv ==
    /\ RelayShapes
    /\ EventsInOrder
    /\ DirectoryInOrder
    /\ DownloadInOrder
    /\ Relay!RecordingsAreWhole

-----------------------------------------------------------------------------
LEMMA RelayInit == Relay!Init => RelayInv
<1> SUFFICES ASSUME Relay!Init PROVE RelayInv
  OBVIOUS
<1>1. /\ recorded \in [Relays -> [Slots -> Nat]]
      /\ \A r \in Relays, s \in Slots : recorded[r][s] <= 1
  <2>1. \A places : /\ Relay!OnlyIn(places) \in [Slots -> Nat]
                    /\ \A s \in Slots : Relay!OnlyIn(places)[s] <= 1
    BY DEF Relay!OnlyIn
  <2>2. \A r \in Relays : \E places : recorded[r] = Relay!OnlyIn(places)
    BY DEF Relay!Init
  <2>3. recorded = [r \in Relays |-> recorded[r]]
    BY DEF Relay!Init
  <2> QED
    BY <2>1, <2>2, <2>3
<1>2. Relay!Asleep \in [at : Places, relay : {Relay!Asleep.relay}, todo : SUBSET Relays,
                  references : [Slots -> Nat], left : SUBSET Slots, failed : BOOLEAN, fault : Nat]
      /\ Relay!Asleep.at = "asleep"
  BY DEF Relay!Asleep, Places
<1>3. Relay!Idle \in [slot : {Relay!Idle.slot}, channel : Nat, block : Nat, got : SUBSET Nat,
                      selected : Nat]
  BY DEF Relay!Idle
<1>4. RelayShapes
  BY <1>1, <1>2, <1>3 DEF Relay!Init, RelayShapes, Relay!None
<1>5. EventsInOrder
  BY <1>1 DEF Relay!Init, EventsInOrder, Relay!None
<1>6. DirectoryInOrder /\ DownloadInOrder /\ Relay!RecordingsAreWhole
  BY <1>2
  DEF Relay!Init, DirectoryInOrder, DownloadInOrder, Relay!RecordingsAreWhole, AfterDirectory,
              AfterRecords, Relay!None
<1> QED
  BY <1>4, <1>5, <1>6 DEF RelayInv

\* A reading that fails is put off: the thread goes on with the next relay.
LEMMA PutOff ==
    ASSUME RelayInv, Relay!ScheduleRetry, Relay!Relay \in Relays,
           UNCHANGED <<recordings, trips, recorded, rows, faultRow, download>>
    PROVE  RelayInv' /\ refresh'[Relay!Relay].retry # 0
<1>1. Relay!Capped(tries[Relay!Relay] + 1) \in Nat \ {0}
  BY DEF RelayInv, RelayShapes, Relay!Capped, Relay!RetryIntervals
<1>2. monitor' = [monitor EXCEPT !.at = "cycle"] /\ monitor' \in [at : Places,
         relay : Relays \cup {Relay!Asleep.relay}, todo : SUBSET Relays,
         references : [Slots -> Nat], left : SUBSET Slots, failed : BOOLEAN, fault : Nat]
      /\ monitor'.at = "cycle"
  BY DEF RelayInv, RelayShapes, Relay!ScheduleRetry, Relay!Goto, Places
<1>3. refresh' \in [Relays -> [updated : BOOLEAN, retry : Nat]] /\ tries' \in [Relays -> Nat]
      /\ due' \in [Relays -> BOOLEAN] /\ refresh'[Relay!Relay].retry # 0
  BY <1>1 DEF RelayInv, RelayShapes, Relay!ScheduleRetry, Relay!Failed
<1>4. RelayShapes'
  BY <1>2, <1>3 DEF RelayInv, RelayShapes
<1> QED
  BY <1>2, <1>3, <1>4 DEF RelayInv, EventsInOrder, DirectoryInOrder, DownloadInOrder,
                          Relay!RecordingsAreWhole, AfterDirectory, AfterRecords

\* Away from the directory only the shapes and the order of recordings are at stake.
LEMMA Away ==
    ASSUME RelayInv, RelayShapes', UNCHANGED <<recordings, trips, recorded, rows>>,
           monitor'.at \notin AfterDirectory
    PROVE  RelayInv'
BY DEF RelayInv, EventsInOrder, DirectoryInOrder, DownloadInOrder, Relay!RecordingsAreWhole,
       AfterDirectory, AfterRecords

\* So the thread may be put back to sleep at any time.
LEMMA Asleeps == Relay!Asleep \in [at : Places, relay : {Relay!Asleep.relay}, todo : SUBSET Relays,
                             references : [Slots -> Nat], left : SUBSET Slots, failed : BOOLEAN, fault : Nat]
                 /\ Relay!Asleep.at = "asleep"
                 /\ Relay!Idle \in [slot : {Relay!Idle.slot}, channel : Nat, block : Nat, got : SUBSET Nat,
                              selected : Nat]
BY DEF Relay!Asleep, Relay!Idle, Places

\* What no step but its own touches stays as it is.
Kept == UNCHANGED <<rows, faultRow>>

LEMMA KeptAdvances == RelayInv /\ Kept => Relay!RowsOnlyAdvance
BY DEF RelayInv, RelayShapes, Kept, Relay!RowsOnlyAdvance

LEMMA DueIsNotStored ==
    ASSUME RelayInv, due' = due \/ due' = [r \in Relays |-> due[r] \/ due'[r]]
    PROVE  Relay!ReadingIsStored
BY DEF RelayInv, RelayShapes, Relay!ReadingIsStored

-----------------------------------------------------------------------------
(* The relays, the operator and what ends the thread *)

LEMMA RecordingStep ==
    ASSUME RelayInv, NEW r \in Relays, NEW s \in Slots, Relay!Records(r, s) PROVE RelayInv'
<1> USE DEF RelayInv
<1>1. recordings' = [recordings EXCEPT ![r] = recordings[r] + 1] /\ recordings' \in [Relays -> Nat]
      /\ recorded' \in [Relays -> [Slots -> Nat]]
  BY DEF Relay!Records, RelayShapes
<1>2. UNCHANGED <<trips, rows, faultRow, refresh, due, tries, monitor, download>>
  BY DEF Relay!Records, Relay!stored
<1>3. RelayShapes'
  BY <1>1, <1>2 DEF RelayShapes
<1>4. \A q \in Relays, t \in Slots :
        recorded[q][t] <= recorded'[q][t] /\ recorded'[q][t] <= recordings'[q]
  BY <1>1 DEF Relay!Records, RelayShapes, EventsInOrder
<1>5. EventsInOrder'
  BY <1>2, <1>4, <1>1 DEF EventsInOrder, RelayShapes
<1>6. DirectoryInOrder'
  <2> SUFFICES ASSUME monitor.at \in AfterDirectory PROVE DirectoryInOrder'
    BY <1>2 DEF DirectoryInOrder
  <2>1. Relay!Relay \in Relays
    BY DEF RelayShapes, Relay!Relay, AfterDirectory, AfterRecords
  <2> QED
    BY <2>1, <1>1, <1>2, <1>4 DEF DirectoryInOrder, RelayShapes, Relay!Relay
<1>7. DownloadInOrder'
  BY <1>1, <1>2, <1>4 DEF DownloadInOrder, RelayShapes, Relay!Relay
<1> QED
  BY <1>2, <1>3, <1>5, <1>6, <1>7 DEF Relay!RecordingsAreWhole

LEMMA TripsStep ==
    ASSUME RelayInv, NEW r \in Relays, Relay!Trips(r) PROVE RelayInv'
<1>1. /\ trips' = [trips EXCEPT ![r] = trips[r] + 1]
      /\ UNCHANGED <<recordings, recorded, rows, faultRow, refresh, due, tries, monitor,
                     download>>
  BY DEF Relay!Trips, Relay!stored
<1>2. trips' \in [Relays -> Nat] /\ \A q \in Relays : trips[q] <= trips'[q]
  BY <1>1 DEF RelayInv, RelayShapes
<1>3. RelayShapes'
  BY <1>1, <1>2 DEF RelayInv, RelayShapes
<1>4. DirectoryInOrder'
  <2> SUFFICES ASSUME monitor.at \in AfterDirectory PROVE DirectoryInOrder'
    BY <1>1 DEF DirectoryInOrder
  <2>1. Relay!Relay \in Relays
    BY DEF RelayInv, RelayShapes, Relay!Relay, AfterDirectory, AfterRecords
  <2> QED
    BY <2>1, <1>1, <1>2 DEF RelayInv, DirectoryInOrder, RelayShapes, Relay!Relay
<1> QED
  BY <1>1, <1>3, <1>4
  DEF RelayInv, EventsInOrder, DownloadInOrder, Relay!RecordingsAreWhole, Relay!Relay

LEMMA WaitStep ==
    ASSUME RelayInv, NEW r \in Relays, Relay!Wait(r) PROVE RelayInv'
<1>1. UNCHANGED <<recordings, trips, recorded, rows, faultRow, refresh, tries, monitor, download>>
      /\ due' = [due EXCEPT ![r] = TRUE]
  BY DEF Relay!Wait, Relay!relayVars, Relay!stored
<1> QED
  BY <1>1 DEF RelayInv, RelayShapes, EventsInOrder, DirectoryInOrder, DownloadInOrder,
     Relay!RecordingsAreWhole,
              Relay!Relay

LEMMA SetEnabledStep ==
    ASSUME RelayInv, NEW value, Relay!SetEnabled(value) PROVE RelayInv'
<1>1. UNCHANGED <<recordings, trips, recorded, rows, faultRow, refresh, due, tries, monitor, download>>
  BY DEF Relay!SetEnabled, Relay!relayVars, Relay!stored
<1> QED
  BY <1>1 DEF RelayInv, RelayShapes, EventsInOrder, DirectoryInOrder, DownloadInOrder,
     Relay!RecordingsAreWhole,
              Relay!Relay

LEMMA RelayEndStep ==
    ASSUME RelayInv, Relay!ThreadDies \/ Relay!Restart PROVE RelayInv'
<1>1. /\ UNCHANGED <<recordings, trips, recorded, rows, faultRow, refresh, due>>
      /\ monitor' = Relay!Asleep /\ download' = Relay!Idle
      /\ tries' = tries \/ tries' = [r \in Relays |-> 0]
  BY DEF Relay!ThreadDies, Relay!Restart, Relay!relayVars, Relay!stored
<1>2. RelayShapes'
  BY <1>1, Asleeps DEF RelayInv, RelayShapes
<1> QED
  BY <1>1, <1>2, Away, Asleeps DEF AfterDirectory, AfterRecords

-----------------------------------------------------------------------------
(* The loop and the parameters *)

LEMMA LoopStep ==
    ASSUME RelayInv, Relay!Turn \/ Relay!EndCycle \/ \E r \in Relays : Relay!NextRelay(r)
    PROVE RelayInv'
<1>1. /\ UNCHANGED <<recordings, trips, recorded, rows, faultRow, refresh, due, tries>>
      /\ download' = download \/ download' = Relay!Idle
  BY DEF Relay!Turn, Relay!EndCycle, Relay!NextRelay, Relay!relayVars, Relay!stored
<1>2. /\ monitor' \in [at : Places, relay : Relays \cup {Relay!Asleep.relay}, todo : SUBSET Relays,
                       references : [Slots -> Nat], left : SUBSET Slots, failed : BOOLEAN, fault : Nat]
      /\ monitor'.at \in {"asleep", "cycle", "format"}
      /\ monitor'.at = "format" => monitor'.relay \in Relays
  <2> USE DEF RelayInv, RelayShapes, Places, Relay!At
  <2>1. CASE Relay!Turn
    BY <2>1 DEF Relay!Turn
  <2>2. CASE Relay!EndCycle
    BY <2>2, Asleeps DEF Relay!EndCycle
  <2>3. ASSUME NEW r \in Relays, Relay!NextRelay(r)
        PROVE  /\ monitor' \in [at : Places, relay : Relays \cup {Relay!Asleep.relay},
                                todo : SUBSET Relays, references : [Slots -> Nat],
                                left : SUBSET Slots, failed : BOOLEAN, fault : Nat]
               /\ monitor'.at \in {"cycle", "format"}
               /\ monitor'.at = "format" => monitor'.relay = r
    <3>1. CASE due[r]
      BY <2>3, <3>1 DEF Relay!NextRelay
    <3>2. CASE ~due[r]
      BY <2>3, <3>2 DEF Relay!NextRelay
    <3> QED
      BY <3>1, <3>2
  <2> QED
    BY <2>1, <2>2, <2>3
<1>3. RelayShapes'
  BY <1>1, <1>2, Asleeps DEF RelayInv, RelayShapes
<1> QED
  BY <1>1, <1>2, <1>3, Away DEF AfterDirectory, AfterRecords

LEMMA LearnStep ==
    ASSUME RelayInv, Relay!GetDateFormat \/ Relay!GetConfiguration
    PROVE  RelayInv' /\ Relay!ReadingIsStored
<1>1. UNCHANGED <<recordings, trips, recorded, rows, faultRow, download>> /\ Relay!Relay \in Relays
  BY DEF Relay!GetDateFormat, Relay!GetConfiguration, Relay!relayVars, Relay!At,
     Relay!Relay, RelayInv, RelayShapes
<1>2. CASE Relay!ScheduleRetry
  BY <1>1, <1>2, PutOff
  DEF Relay!ScheduleRetry, Relay!ReadingIsStored, RelayInv, RelayShapes, Relay!Relay
<1>3. CASE UNCHANGED <<refresh, due, tries>> /\ (Relay!Goto("frequency") \/ Relay!Goto("directory"))
  <2>1. RelayShapes' /\ monitor'.at \notin AfterDirectory
    BY <1>1, <1>3
    DEF Relay!Goto, Relay!Relay, RelayInv, RelayShapes, Places, AfterDirectory, AfterRecords
  <2> QED
    BY <1>1, <1>3, <2>1, Away, DueIsNotStored
<1> QED
  BY <1>2, <1>3 DEF Relay!GetDateFormat, Relay!GetConfiguration, Relay!Learn

-----------------------------------------------------------------------------
(* The directory and the recordings *)

LEMMA DirectoryStep ==
    ASSUME RelayInv, Relay!ReadReferences PROVE RelayInv' /\ Relay!ReadingIsStored
<1>1. UNCHANGED <<recordings, trips, recorded, rows, faultRow, download>> /\ Relay!Relay \in Relays
  BY DEF Relay!ReadReferences, Relay!relayVars, Relay!At, Relay!Relay, RelayInv, RelayShapes
<1>2. CASE Relay!ScheduleRetry
  BY <1>1, <1>2, PutOff
  DEF Relay!ScheduleRetry, Relay!ReadingIsStored, RelayInv, RelayShapes, Relay!Relay
<1>3. CASE /\ UNCHANGED <<refresh, due, tries>>
           /\ monitor' = [monitor EXCEPT
                 !.at = "records", !.references = recorded[Relay!Relay],
                 !.left = {s \in Slots : recorded[Relay!Relay][s] # 0},
                 !.fault = trips[Relay!Relay]]
  <2>1. /\ monitor'.at = "records" /\ monitor'.relay = monitor.relay
        /\ monitor'.references = recorded[Relay!Relay]
        /\ monitor'.left = {s \in Slots : recorded[Relay!Relay][s] # 0}
        /\ monitor'.fault = trips[Relay!Relay]
    BY <1>3 DEF RelayInv, RelayShapes
  <2>2. RelayShapes'
    BY <1>1, <1>3, <2>1 DEF RelayInv, RelayShapes, Places, Relay!Relay
  <2>3. DirectoryInOrder'
    BY <1>1, <2>1
    DEF RelayInv, RelayShapes, EventsInOrder, DirectoryInOrder, AfterRecords, Relay!Relay
  <2> QED
    BY <1>1, <1>3, <2>1, <2>2, <2>3, DueIsNotStored
    DEF RelayInv, EventsInOrder, DownloadInOrder, Relay!RecordingsAreWhole
<1> QED
  BY <1>2, <1>3 DEF Relay!ReadReferences

LEMMA NextRecordStep ==
    ASSUME RelayInv, Relay!Disabled \/ \E s \in Slots : Relay!NextRecord(s) PROVE RelayInv'
<1>1. UNCHANGED <<recordings, trips, recorded, rows, faultRow, refresh, due, tries>>
  BY DEF Relay!Disabled, Relay!NextRecord, Relay!relayVars, Relay!stored
<1>2. CASE Relay!Disabled
  <2>1. RelayShapes' /\ monitor'.at = "cycle"
    BY <1>1, <1>2 DEF Relay!Disabled, Relay!Goto, RelayInv, RelayShapes, Places
  <2> QED
    BY <1>1, <2>1, Away DEF AfterDirectory, AfterRecords
<1>3. ASSUME NEW s \in Slots, Relay!NextRecord(s) PROVE RelayInv'
  <2>0. monitor.at = "records" /\ Relay!Relay \in Relays
    BY <1>3 DEF Relay!NextRecord, Relay!At, Relay!Relay, RelayInv, RelayShapes
  <2>1. CASE Relay!IsStored(s)
    <3>1. monitor' = [monitor EXCEPT !.left = monitor.left \ {s}] /\ download' = download
      BY <1>3, <2>1 DEF Relay!NextRecord
    <3>2. RelayShapes'
      BY <1>1, <3>1 DEF RelayInv, RelayShapes
    <3>3. DirectoryInOrder'
      BY <1>1, <2>0, <2>1, <3>1
      DEF RelayInv, RelayShapes, DirectoryInOrder, Relay!IsStored, Relay!Relay,
                                    AfterDirectory, AfterRecords
    <3> QED
      BY <1>1, <2>0, <3>1, <3>2, <3>3
      DEF RelayInv, RelayShapes, EventsInOrder, DownloadInOrder, Relay!RecordingsAreWhole
  <2>2. CASE ~Relay!IsStored(s)
    <3>1. monitor' = [monitor EXCEPT !.at = "block"] /\ download' = [Relay!Idle EXCEPT !.slot = s]
      BY <1>3, <2>2 DEF Relay!NextRecord, Relay!Goto
    <3>2. RelayShapes'
      BY <1>1, <2>0, <3>1, Asleeps DEF RelayInv, RelayShapes, Places, Relay!Relay
    <3>3. DirectoryInOrder'
      BY <1>1, <2>0, <3>1
      DEF RelayInv, RelayShapes, DirectoryInOrder, Relay!Relay, AfterDirectory, AfterRecords
    <3>4. download'.got = {} /\ download'.selected = 0 /\ download'.slot = s
          /\ monitor'.at = "block" /\ monitor'.relay = monitor.relay
      BY <3>1 DEF Relay!Idle, RelayInv, RelayShapes
    <3>5. DownloadInOrder'
      BY <1>1, <2>0, <3>4 DEF DownloadInOrder, RelayInv, RelayShapes, Relay!Relay
    <3> QED
      BY <1>1, <3>2, <3>3, <3>5 DEF RelayInv, EventsInOrder, Relay!RecordingsAreWhole
  <2> QED
    BY <2>1, <2>2
<1> QED
  BY <1>2, <1>3

\* A recording is over, well or not: the next one is looked for.
LEMMA RecordOver ==
    ASSUME RelayInv, NEW failed \in BOOLEAN, Relay!RecordDone(failed),
           monitor.at \in {"block", "index"},
           UNCHANGED <<recordings, trips, recorded, faultRow, refresh, due, tries, download>>,
           rows' \in [Relays -> [Slots -> [signature : Nat, blocks : SUBSET Nat]]],
           EventsInOrder', Relay!RecordingsAreWhole',
           \A s \in Slots : /\ rows'[Relay!Relay][s].signature <= monitor.references[s]
                            /\ \/ rows'[Relay!Relay][s] = rows[Relay!Relay][s]
                               \/ rows'[Relay!Relay][s].signature = monitor.references[s],
           failed \/ rows'[Relay!Relay][download.slot].signature = monitor.references[download.slot]
    PROVE  RelayInv'
<1>1. /\ monitor'.at = "records" /\ monitor'.relay = monitor.relay
      /\ monitor'.references = monitor.references
      /\ monitor'.left = monitor.left \ {download.slot}
      /\ monitor'.failed = (monitor.failed \/ failed) /\ monitor'.fault = monitor.fault
  BY DEF Relay!RecordDone, RelayInv, RelayShapes
<1>2. RelayShapes'
  BY <1>1 DEF Relay!RecordDone, RelayInv, RelayShapes, Places
<1>3. DirectoryInOrder'
  BY <1>1
  DEF RelayInv, RelayShapes, DirectoryInOrder, AfterDirectory, AfterRecords, Relay!Relay
<1>4. DownloadInOrder'
  BY <1>1 DEF DownloadInOrder
<1> QED
  BY <1>2, <1>3, <1>4 DEF RelayInv

LEMMA ReadBlockStep ==
    ASSUME RelayInv, Relay!ReadBlock PROVE RelayInv'
<1> DEFINE now == recorded[Relay!Relay][download.slot]
<1>1. UNCHANGED <<recordings, trips, recorded, rows, faultRow, refresh, due, tries>>
      /\ monitor.at = "block" /\ Relay!Relay \in Relays /\ download.slot \in Slots /\ now \in Nat
  BY DEF Relay!ReadBlock, Relay!relayVars, Relay!stored, Relay!At, Relay!Relay, RelayInv,
     RelayShapes
<1>2. /\ monitor'.at \in {"block", "index"} /\ monitor'.relay = monitor.relay
      /\ monitor'.references = monitor.references /\ monitor'.left = monitor.left
      /\ monitor'.failed = monitor.failed /\ monitor'.fault = monitor.fault
      /\ monitor' \in [at : Places, relay : Relays \cup {Relay!Asleep.relay}, todo : SUBSET Relays,
                       references : [Slots -> Nat], left : SUBSET Slots, failed : BOOLEAN, fault : Nat]
  BY DEF Relay!ReadBlock, Relay!Goto, RelayInv, RelayShapes, Places
<1>3. /\ download'.got = download.got \cup {now} /\ download'.selected = now
      /\ download'.slot = download.slot
      /\ download' \in [slot : Slots \cup {Relay!Idle.slot}, channel : Nat, block : Nat,
                        got : SUBSET Nat, selected : Nat]
  <2> DEFINE next == IF download.block < Blocks THEN download.block + 1 ELSE 1
  <2>1. download' = [download EXCEPT !.got = download.got \cup {now}, !.selected = now,
                                     !.block = next]
    BY DEF Relay!ReadBlock
  <2>2. next \in Nat
    BY DEF RelayInv, RelayShapes
  <2> HIDE DEF next
  <2> QED
    BY <1>1, <2>1, <2>2 DEF RelayInv, RelayShapes
<1>4. RelayShapes'
  BY <1>1, <1>2, <1>3 DEF RelayInv, RelayShapes, Relay!Relay
<1>5. DirectoryInOrder'
  BY <1>1, <1>2 DEF RelayInv, DirectoryInOrder, AfterDirectory, AfterRecords, Relay!Relay
<1>6. monitor.references[download.slot] \in Nat /\ monitor.references[download.slot] <= now
  BY <1>1 DEF RelayInv, RelayShapes, DirectoryInOrder, AfterDirectory
<1>7. DownloadInOrder'
  BY <1>1, <1>2, <1>3, <1>6 DEF RelayInv, RelayShapes, DownloadInOrder, Relay!Relay
<1> QED
  BY <1>1, <1>4, <1>5, <1>7 DEF RelayInv, EventsInOrder, Relay!RecordingsAreWhole

\* An index that names the recording of the directory closes the interval the
\* blocks lie in.
LEMMA OneRecording ==
    ASSUME RelayInv, monitor.at = "index", NEW index \in {download.selected,
           recorded[Relay!Relay][download.slot]},
           Relay!IndexMatches(index)
    PROVE  download.got = {monitor.references[download.slot]}
<1>1. Relay!Relay \in Relays /\ download.slot \in Slots /\ download.got # {}
  BY DEF RelayInv, RelayShapes, DownloadInOrder, Relay!Relay
<1>2. ASSUME NEW g \in download.got PROVE g = monitor.references[download.slot]
  <2> DEFINE first == monitor.references[download.slot]
             now == recorded[Relay!Relay][download.slot]
  <2>1. /\ first \in Nat /\ g \in Nat /\ download.selected \in Nat /\ now \in Nat
        /\ first <= g /\ g <= download.selected /\ download.selected <= now
    BY <1>1 DEF RelayInv, RelayShapes, DownloadInOrder
  <2>2. first = download.selected \/ first = now
    BY DEF Relay!IndexMatches
  <2> HIDE DEF first, now
  <2>3. g = first
    BY <2>1, <2>2
  <2> QED
    BY <2>3 DEF first
<1> QED
  BY <1>1, <1>2

LEMMA ReadIndexStep ==
    ASSUME RelayInv, Relay!ReadIndex PROVE RelayInv' /\ Relay!RowsOnlyAdvance
<1>1. UNCHANGED <<recordings, trips, recorded, faultRow, refresh, due, tries>>
      /\ monitor.at = "index" /\ Relay!Relay \in Relays /\ download.slot \in Slots
  BY DEF Relay!ReadIndex, Relay!relayVars, Relay!At, Relay!Relay, RelayInv, RelayShapes
<1> DEFINE slot == download.slot
           first == monitor.references[slot]
<1>2. PICK index \in {download.selected, recorded[Relay!Relay][slot]} :
         \/ /\ ~Relay!IndexMatches(index)
            /\ Relay!RecordDone(TRUE)
            /\ UNCHANGED <<rows, download>>
         \/ /\ Relay!IndexMatches(index) /\ download.channel < Channels
            /\ download' = [download EXCEPT !.channel = download.channel + 1]
            /\ Relay!Goto("block")
            /\ UNCHANGED rows
         \/ /\ Relay!IndexMatches(index) /\ download.channel = Channels
            /\ rows' = [rows EXCEPT ![Relay!Relay][slot] = Relay!Recording(first, download.got)]
            /\ Relay!RecordDone(FALSE)
            /\ UNCHANGED download
  BY DEF Relay!ReadIndex
<1>3. CASE Relay!RecordDone(TRUE) /\ UNCHANGED <<rows, download>>
  <2>1. RelayInv'
    <3>1. EventsInOrder' /\ Relay!RecordingsAreWhole'
      BY <1>1, <1>3 DEF RelayInv, EventsInOrder, Relay!RecordingsAreWhole
    <3>2. \A s \in Slots : rows[Relay!Relay][s].signature <= monitor.references[s]
      BY <1>1 DEF RelayInv, DirectoryInOrder, AfterDirectory
    <3> QED
      BY <1>1, <1>3, <3>1, <3>2, RecordOver DEF RelayInv, RelayShapes
  <2> QED
    BY <1>1, <1>3, <2>1, KeptAdvances DEF Kept
<1>4. CASE /\ download' = [download EXCEPT !.channel = download.channel + 1]
           /\ Relay!Goto("block") /\ UNCHANGED rows
  <2>1. /\ monitor' = [monitor EXCEPT !.at = "block"]
        /\ monitor'.at = "block" /\ monitor'.relay = monitor.relay
        /\ monitor'.references = monitor.references /\ monitor'.left = monitor.left
        /\ monitor'.failed = monitor.failed /\ monitor'.fault = monitor.fault
        /\ download'.got = download.got /\ download'.selected = download.selected
        /\ download'.slot = download.slot
    BY <1>4 DEF Relay!Goto, RelayInv, RelayShapes
  <2>2. RelayShapes'
    <3>1. monitor' \in [at : Places, relay : Relays \cup {Relay!Asleep.relay}, todo : SUBSET Relays,
                        references : [Slots -> Nat], left : SUBSET Slots, failed : BOOLEAN, fault : Nat]
      BY <2>1 DEF RelayInv, RelayShapes, Places
    <3>2. download.channel + 1 \in Nat
      BY DEF RelayInv, RelayShapes
    <3> DEFINE next == download.channel + 1
    <3>3. download' = [download EXCEPT !.channel = next] /\ next \in Nat
      BY <1>4, <3>2
    <3> HIDE DEF next
    <3>4. download' \in [slot : Slots \cup {Relay!Idle.slot}, channel : Nat, block : Nat,
                         got : SUBSET Nat, selected : Nat]
      BY <3>3 DEF RelayInv, RelayShapes
    <3> QED
      BY <1>1, <1>4, <2>1, <3>1, <3>4 DEF RelayInv, RelayShapes, Relay!Relay
  <2>3. DirectoryInOrder' /\ DownloadInOrder'
    BY <1>1, <1>4, <2>1 DEF RelayInv, DirectoryInOrder, DownloadInOrder, AfterDirectory,
                            AfterRecords, Relay!Relay
  <2> QED
    BY <1>1, <1>4, <2>2, <2>3, KeptAdvances
    DEF RelayInv, EventsInOrder, Relay!RecordingsAreWhole, Kept
<1>5. CASE /\ Relay!IndexMatches(index) /\ Relay!RecordDone(FALSE) /\ UNCHANGED download
           /\ rows' = [rows EXCEPT ![Relay!Relay][slot] = Relay!Recording(first, download.got)]
  <2>1. download.got = {first}
    BY <1>1, <1>2, <1>5, OneRecording
  <2>2. /\ first \in Nat /\ rows[Relay!Relay][slot].signature <= first
        /\ first <= recorded[Relay!Relay][slot]
        /\ \A s \in Slots : rows[Relay!Relay][s].signature <= monitor.references[s]
    BY <1>1 DEF RelayInv, RelayShapes, DirectoryInOrder, AfterDirectory
  <2>3. Relay!Recording(first, download.got) \in [signature : Nat, blocks : SUBSET Nat]
        /\ Relay!Recording(first, download.got).signature = first
        /\ Relay!Recording(first, download.got).blocks = {first}
    BY <2>1, <2>2 DEF Relay!Recording
  <2> HIDE DEF first, slot
  <2>4. /\ rows' \in [Relays -> [Slots -> [signature : Nat, blocks : SUBSET Nat]]]
        /\ rows'[Relay!Relay][slot] = Relay!Recording(first, download.got)
        /\ \A r \in Relays, s \in Slots :
             r # Relay!Relay \/ s # slot => rows'[r][s] = rows[r][s]
    BY <1>1, <1>5, <2>3 DEF RelayInv, RelayShapes, slot
  <2>5. /\ rows'[Relay!Relay][slot].signature = first /\ rows'[Relay!Relay][slot].blocks = {first}
        /\ slot \in Slots
    BY <1>1, <2>3, <2>4 DEF slot
  <2>6. ASSUME NEW r \in Relays, NEW s \in Slots
        PROVE  /\ recorded'[r][s] <= recordings'[r]
               /\ rows'[r][s].signature <= recorded'[r][s]
               /\ rows'[r][s].signature >= rows[r][s].signature
               /\ rows'[r][s] # Relay!None => rows'[r][s].blocks = {rows'[r][s].signature}
    <3>1. /\ recorded'[r][s] = recorded[r][s] /\ recordings'[r] = recordings[r]
          /\ recorded[r][s] <= recordings[r] /\ rows[r][s].signature <= recorded[r][s]
          /\ rows[r][s] # Relay!None => rows[r][s].blocks = {rows[r][s].signature}
          /\ rows[r][s].signature \in Nat
      BY <1>1 DEF RelayInv, RelayShapes, EventsInOrder, Relay!RecordingsAreWhole
    <3>2. CASE r = Relay!Relay /\ s = slot
      BY <2>2, <2>5, <3>1, <3>2 DEF slot
    <3>3. CASE r # Relay!Relay \/ s # slot
      BY <2>4, <3>1, <3>3
    <3> QED
      BY <3>2, <3>3
  <2>7. EventsInOrder' /\ Relay!RecordingsAreWhole'
    BY <2>6 DEF EventsInOrder, Relay!RecordingsAreWhole
  <2>8. Relay!RowsOnlyAdvance
    BY <1>1, <2>6 DEF RelayInv, RelayShapes, Relay!RowsOnlyAdvance
  <2>9. \A s \in Slots : /\ rows'[Relay!Relay][s].signature <= monitor.references[s]
                         /\ \/ rows'[Relay!Relay][s] = rows[Relay!Relay][s]
                            \/ rows'[Relay!Relay][s].signature = monitor.references[s]
    BY <1>1, <2>2, <2>3, <2>4 DEF first
  <2>10. rows'[Relay!Relay][slot].signature = monitor.references[slot]
    BY <2>3, <2>4 DEF first
  <2> QED
    BY <1>1, <1>5, <2>4, <2>7, <2>8, <2>9, <2>10, RecordOver DEF slot
<1> QED
  BY <1>2, <1>3, <1>4, <1>5

LEMMA RecordFailsStep ==
    ASSUME RelayInv, Relay!RecordFails PROVE RelayInv'
<1>1. UNCHANGED <<recordings, trips, recorded, rows, faultRow, refresh, due, tries, download>>
      /\ monitor.at \in {"block", "index"} /\ Relay!Relay \in Relays /\ Relay!RecordDone(TRUE)
  BY DEF Relay!RecordFails, Relay!relayVars, Relay!stored, Relay!Relay, RelayInv, RelayShapes
<1>2. EventsInOrder' /\ Relay!RecordingsAreWhole'
  BY <1>1 DEF RelayInv, EventsInOrder, Relay!RecordingsAreWhole
<1>3. \A s \in Slots : rows[Relay!Relay][s].signature <= monitor.references[s]
  BY <1>1 DEF RelayInv, DirectoryInOrder, AfterDirectory
<1> QED
  BY <1>1, <1>2, <1>3, RecordOver DEF RelayInv, RelayShapes

-----------------------------------------------------------------------------
(* The end of a reading *)

\* The thread goes from one of the last places to a later one.
LEMMA Onwards ==
    ASSUME RelayInv, NEW place \in AfterRecords, Relay!Goto(place),
           monitor.at \in AfterRecords \cup {"records"},
           monitor.at = "records" => monitor.left = {} /\ ~monitor.failed,
           UNCHANGED <<recordings, trips, recorded, rows, refresh, due, tries, download>>,
           faultRow' \in [Relays -> Nat],
           place = "complete" => monitor.fault <= faultRow'[Relay!Relay]
    PROVE  RelayInv'
<1>1. /\ monitor'.at = place /\ monitor'.relay = monitor.relay
      /\ monitor'.references = monitor.references /\ monitor'.left = monitor.left
      /\ monitor'.failed = monitor.failed /\ monitor'.fault = monitor.fault
  BY DEF Relay!Goto, RelayInv, RelayShapes
<1>2. RelayShapes'
  BY <1>1 DEF Relay!Goto, RelayInv, RelayShapes, Places, AfterRecords
<1>3. DirectoryInOrder' /\ DownloadInOrder'
  BY <1>1
  DEF RelayInv, DirectoryInOrder, DownloadInOrder, AfterDirectory, AfterRecords, Relay!Relay
<1> QED
  BY <1>2, <1>3 DEF RelayInv, EventsInOrder, Relay!RecordingsAreWhole

LEMMA RecordsDoneStep ==
    ASSUME RelayInv, Relay!RecordsDone PROVE RelayInv' /\ Relay!ReadingIsStored
<1>1. UNCHANGED <<recordings, trips, recorded, rows, faultRow, download>> /\ Relay!Relay \in Relays
      /\ monitor.at = "records" /\ monitor.left = {}
  BY DEF Relay!RecordsDone, Relay!relayVars, Relay!At, Relay!Relay, RelayInv, RelayShapes
<1>2. CASE Relay!ScheduleRetry
  BY <1>1, <1>2, PutOff
  DEF Relay!ScheduleRetry, Relay!ReadingIsStored, RelayInv, RelayShapes, Relay!Relay
<1>3. CASE ~monitor.failed /\ Relay!Goto("profile") /\ UNCHANGED <<refresh, due, tries>>
  BY <1>1, <1>3, Onwards, DueIsNotStored DEF AfterRecords, RelayInv, RelayShapes
<1> QED
  BY <1>2, <1>3 DEF Relay!RecordsDone

LEMMA GetProfileStep ==
    ASSUME RelayInv, Relay!GetProfile PROVE RelayInv' /\ Relay!ReadingIsStored
<1>1. UNCHANGED <<recordings, trips, recorded, rows, faultRow, download>>
      /\ monitor.at = "profile" /\ Relay!Relay \in Relays
  BY DEF Relay!GetProfile, Relay!relayVars, Relay!At, Relay!Relay, RelayInv, RelayShapes
<1>2. CASE Relay!ScheduleRetry
  BY <1>1, <1>2, PutOff
  DEF Relay!ScheduleRetry, Relay!ReadingIsStored, RelayInv, RelayShapes, Relay!Relay
<1>3. CASE Relay!Goto("fault") /\ UNCHANGED <<refresh, due, tries>>
  BY <1>1, <1>3, Onwards, DueIsNotStored DEF AfterRecords, RelayInv, RelayShapes
<1> QED
  BY <1>2, <1>3 DEF Relay!GetProfile

LEMMA FaultStep ==
    ASSUME RelayInv, Relay!RefreshLatestFault
    PROVE RelayInv' /\ Relay!ReadingIsStored /\ Relay!RowsOnlyAdvance
<1>1. UNCHANGED <<recordings, trips, recorded, rows, download>> /\ Relay!Relay \in Relays
      /\ monitor.at = "fault"
  BY DEF Relay!RefreshLatestFault, Relay!relayVars, Relay!At, Relay!Relay, RelayInv,
     RelayShapes
<1>2. CASE Relay!ScheduleRetry /\ UNCHANGED faultRow
  BY <1>1, <1>2, PutOff, KeptAdvances
  DEF Relay!ScheduleRetry, Relay!ReadingIsStored, RelayInv, RelayShapes, Relay!Relay, Kept
<1>3. CASE /\ faultRow' = [faultRow EXCEPT
                 ![Relay!Relay] = Relay!Newer(faultRow[Relay!Relay], trips[Relay!Relay])]
           /\ Relay!Goto("complete") /\ UNCHANGED <<refresh, due, tries>>
  <2>1. /\ faultRow' \in [Relays -> Nat] /\ faultRow'[Relay!Relay] >= trips[Relay!Relay]
        /\ \A r \in Relays : faultRow'[r] >= faultRow[r]
    BY <1>1, <1>3 DEF RelayInv, RelayShapes, Relay!Newer
  <2>2. monitor.fault <= faultRow'[Relay!Relay]
    BY <1>1, <2>1 DEF RelayInv, RelayShapes, DirectoryInOrder, AfterDirectory, AfterRecords
  <2> QED
    BY <1>1, <1>3, <2>1, <2>2, Onwards, DueIsNotStored
    DEF AfterRecords, RelayInv, RelayShapes, Relay!RowsOnlyAdvance
<1> QED
  BY <1>2, <1>3 DEF Relay!RefreshLatestFault

LEMMA CompleteStep ==
    ASSUME RelayInv, Relay!Complete PROVE RelayInv' /\ Relay!ReadingIsStored
<1>1. /\ UNCHANGED <<recordings, trips, recorded, rows, faultRow, download>> /\ Relay!Relay \in Relays
      /\ monitor.at = "complete" /\ Relay!Goto("cycle")
      /\ refresh' = [refresh EXCEPT ![Relay!Relay] = Relay!Completed]
      /\ tries' = [tries EXCEPT ![Relay!Relay] = 0]
      /\ due' = [due EXCEPT ![Relay!Relay] = FALSE]
  BY DEF Relay!Complete, Relay!relayVars, Relay!At, Relay!Relay, RelayInv, RelayShapes
<1>2. RelayShapes' /\ monitor'.at = "cycle"
  BY <1>1 DEF RelayInv, RelayShapes, Relay!Goto, Relay!Completed, Places, Relay!Relay
<1>3. /\ \A s \in Slots : rows[Relay!Relay][s].signature = monitor.references[s]
      /\ monitor.fault <= faultRow[Relay!Relay]
  BY <1>1 DEF RelayInv, DirectoryInOrder, AfterDirectory, AfterRecords
<1>4. Relay!ReadingIsStored
  BY <1>1, <1>3 DEF Relay!ReadingIsStored, RelayInv, RelayShapes
<1> QED
  BY <1>1, <1>2, <1>4, Away DEF AfterDirectory, AfterRecords

-----------------------------------------------------------------------------
(* Every step *)

LEMMA RelayNext ==
    RelayInv /\ (Relay!Next \/ UNCHANGED ofRelay)
        => RelayInv' /\ Relay!ReadingIsStored /\ Relay!RowsOnlyAdvance
<1> SUFFICES ASSUME RelayInv, (Relay!Next \/ UNCHANGED ofRelay)
             PROVE  RelayInv' /\ Relay!ReadingIsStored /\ Relay!RowsOnlyAdvance
  OBVIOUS
<1>1. ASSUME NEW r \in Relays, NEW s \in Slots, Relay!Records(r, s)
      PROVE  RelayInv' /\ Relay!ReadingIsStored /\ Relay!RowsOnlyAdvance
  BY <1>1, RecordingStep, KeptAdvances, DueIsNotStored DEF Relay!Records, Relay!stored, Kept
<1>17. ASSUME NEW r \in Relays, Relay!Trips(r)
       PROVE  RelayInv' /\ Relay!ReadingIsStored /\ Relay!RowsOnlyAdvance
  BY <1>17, TripsStep, KeptAdvances, DueIsNotStored DEF Relay!Trips, Relay!stored, Kept
<1>2. ASSUME NEW r \in Relays, Relay!Wait(r)
      PROVE  RelayInv' /\ Relay!ReadingIsStored /\ Relay!RowsOnlyAdvance
  <2>1. due' = [due EXCEPT ![r] = TRUE] /\ UNCHANGED <<rows, faultRow>>
    BY <1>2 DEF Relay!Wait, Relay!stored
  <2>2. Relay!ReadingIsStored
    BY <2>1 DEF RelayInv, RelayShapes, Relay!ReadingIsStored
  <2> QED
    BY <1>2, <2>1, <2>2, WaitStep, KeptAdvances DEF Kept
<1>3. ASSUME NEW value \in BOOLEAN, Relay!SetEnabled(value)
      PROVE  RelayInv' /\ Relay!ReadingIsStored /\ Relay!RowsOnlyAdvance
  BY <1>3, SetEnabledStep, KeptAdvances, DueIsNotStored
  DEF Relay!SetEnabled, Relay!stored, Kept
<1>4. CASE Relay!ThreadDies \/ Relay!Restart
  BY <1>4, RelayEndStep, KeptAdvances, DueIsNotStored
  DEF Relay!ThreadDies, Relay!Restart, Relay!stored, Kept
<1>5. CASE Relay!Turn \/ Relay!EndCycle \/ \E r \in Relays : Relay!NextRelay(r)
  BY <1>5, LoopStep, KeptAdvances, DueIsNotStored
  DEF Relay!Turn, Relay!EndCycle, Relay!NextRelay, Relay!stored, Kept
<1>6. CASE Relay!GetDateFormat \/ Relay!GetConfiguration
  BY <1>6, LearnStep, KeptAdvances DEF Relay!GetDateFormat, Relay!GetConfiguration, Kept
<1>7. CASE Relay!ReadReferences
  BY <1>7, DirectoryStep, KeptAdvances DEF Relay!ReadReferences, Kept
<1>8. CASE Relay!Disabled \/ \E s \in Slots : Relay!NextRecord(s)
  BY <1>8, NextRecordStep, KeptAdvances, DueIsNotStored
  DEF Relay!Disabled, Relay!NextRecord, Relay!stored, Kept
<1>9. CASE Relay!ReadBlock
  BY <1>9, ReadBlockStep, KeptAdvances, DueIsNotStored DEF Relay!ReadBlock, Relay!stored, Kept
<1>10. CASE Relay!ReadIndex
  BY <1>10, ReadIndexStep, DueIsNotStored DEF Relay!ReadIndex
<1>11. CASE Relay!RecordFails
  BY <1>11, RecordFailsStep, KeptAdvances, DueIsNotStored
  DEF Relay!RecordFails, Relay!stored, Kept
<1>12. CASE Relay!RecordsDone
  BY <1>12, RecordsDoneStep, KeptAdvances DEF Relay!RecordsDone, Kept
<1>13. CASE Relay!GetProfile
  BY <1>13, GetProfileStep, KeptAdvances DEF Relay!GetProfile, Kept
<1>14. CASE Relay!RefreshLatestFault
  BY <1>14, FaultStep
<1>15. CASE Relay!Complete
  BY <1>15, CompleteStep, KeptAdvances DEF Relay!Complete, Kept
<1>16. CASE UNCHANGED ofRelay
  <2>1. UNCHANGED <<recordings, trips, recorded, rows, faultRow, refresh, due, tries, monitor, download>>
    BY <1>16 DEF ofRelay
  <2>2. RelayInv'
    BY <2>1 DEF RelayInv, RelayShapes, EventsInOrder, DirectoryInOrder, DownloadInOrder,
                Relay!RecordingsAreWhole, Relay!Relay
  <2> QED
    BY <2>1, <2>2, KeptAdvances, DueIsNotStored DEF Kept
<1> QED
  BY <1>1, <1>2, <1>3, <1>4, <1>5, <1>6, <1>7, <1>8, <1>9, <1>10, <1>11, <1>12, <1>13, <1>14,
     <1>15, <1>16, <1>17 DEF Relay!Next, Relay!Step, Relay!Environment

-----------------------------------------------------------------------------
(***************************************************************************)
(* The download of the flow meters                                         *)
(***************************************************************************)
States == {"past", "waiting", "retrying", "suspended", "complete"}
Calendar == [state : States, attempts : Nat, retryAt : Nat]

FlowShapes ==
    /\ hour \in Nat /\ source \in Int /\ expired \in Int
    /\ cycle \in Calendar
    /\ measurements \subseteq Int
    /\ busy \in BOOLEAN
    /\ run \in [at : {"none", "locations", "pages", "save", "finish"},
                by : {"automatic", "manual"}, cycle : Calendar,
                wanted : SUBSET Int, fetched : SUBSET Int,
                outcome : {"running", "error", "new_data", "no_new_data"}]
    /\ downloads \in Nat
    /\ run.at # "none" => busy

\* A calendar that still has an attempt to make has not made them all.
Within(c) ==
    /\ c.attempts <= Len(RetryHours) + 1
    /\ c.state \in {"waiting", "retrying"} => c.attempts <= Len(RetryHours)

\* It counts the downloads of the day, if it is of this day.
Counts(c) ==
    /\ c.state = "past" <=> c = Flow!Past
    /\ downloads <= c.attempts

CyclesInOrder ==
    /\ Within(cycle) /\ Counts(cycle)
    /\ Within(run.cycle)
    /\ run.at # "none" /\ run.by = "automatic" =>
           Counts(run.cycle) /\ run.cycle.state \in {"past", "retrying", "suspended"}

\* All that was asked for comes, or nothing; what came is stored, what is older excepted.
RunInOrder ==
    /\ run.at = "locations" => run.fetched = {}
    /\ run.at = "save" => run.wanted \subseteq run.fetched \/ run.fetched = {}
    /\ run.at # "none" /\ run.outcome = "new_data" =>
           run.at = "finish" /\ \A m \in run.wanted : m > expired => m \in measurements

FlowInv == FlowShapes /\ CyclesInOrder /\ RunInOrder

-----------------------------------------------------------------------------
(* The calendar *)

LEMMA CalendarOfToday ==
    ASSUME FlowInv, WaitsAreHours
    PROVE  /\ Flow!TodaysCycle \in Calendar /\ Within(Flow!TodaysCycle) /\ Counts(Flow!TodaysCycle)
           /\ Flow!TodaysCycle.state # "past"
           /\ Flow!TodaysCycle.state = "complete" => cycle.state = "complete"
<1>1. Flow!NewCycle \in Calendar /\ Flow!NewCycle.state = "waiting" /\ Flow!NewCycle.attempts = 0
      /\ Flow!Past.state = "past" /\ Flow!Past.attempts = 0 /\ Flow!NewCycle # Flow!Past
  BY DEF Flow!NewCycle, Flow!Past, Calendar, States
<1>2. Len(RetryHours) \in Nat
  BY DEF WaitsAreHours
<1>3. CASE cycle = Flow!Past
  BY <1>1, <1>2, <1>3 DEF FlowInv, FlowShapes, CyclesInOrder, Within, Counts, Flow!TodaysCycle
<1>4. CASE cycle # Flow!Past
  BY <1>4 DEF FlowInv, FlowShapes, CyclesInOrder, Counts, Flow!TodaysCycle
<1> QED
  BY <1>3, <1>4

LEMMA CountedOfToday ==
    ASSUME FlowInv, WaitsAreHours, Flow!Due(Flow!TodaysCycle)
    PROVE  LET c == Flow!Counted(Flow!TodaysCycle) IN
           /\ c \in Calendar /\ Within(c) /\ downloads + 1 <= c.attempts
           /\ c.state \in {"retrying", "suspended"}
<1> DEFINE t == Flow!TodaysCycle
           n == t.attempts + 1
<1>1. /\ t \in Calendar /\ t.state \in {"waiting", "retrying"}
      /\ downloads <= t.attempts /\ t.attempts <= Len(RetryHours)
      /\ Len(RetryHours) \in Nat /\ n \in Nat
  BY CalendarOfToday DEF Flow!Due, Calendar, States, Within, Counts, WaitsAreHours
<1> HIDE DEF t
<1>2. CASE n <= Len(RetryHours)
  <2> DEFINE at == hour + RetryHours[n]
  <2>1. n \in 1 .. Len(RetryHours)
    BY <1>1, <1>2 DEF Calendar
  <2>2. at \in Nat
    BY <2>1 DEF WaitsAreHours, FlowInv, FlowShapes
  <2>3. Flow!Counted(t) = [t EXCEPT !.attempts = n, !.state = "retrying", !.retryAt = at]
    BY <1>2 DEF Flow!Counted
  <2> HIDE DEF at, n
  <2>4. /\ Flow!Counted(t) \in Calendar /\ Flow!Counted(t).attempts = n
        /\ Flow!Counted(t).state = "retrying"
    BY <1>1, <2>2, <2>3 DEF Calendar, States
  <2> QED
    BY <1>1, <1>2, <2>4 DEF Within, t, n, FlowInv, FlowShapes, Calendar
<1>3. CASE ~(n <= Len(RetryHours))
  <2>1. PICK zero \in Nat :
          Flow!Counted(t) = [t EXCEPT !.attempts = n, !.state = "suspended", !.retryAt = zero]
    BY <1>3 DEF Flow!Counted
  <2> HIDE DEF n
  <2>2. /\ Flow!Counted(t) \in Calendar /\ Flow!Counted(t).attempts = n
        /\ Flow!Counted(t).state = "suspended"
    BY <1>1, <2>1 DEF Calendar, States
  <2> QED
    BY <1>1, <1>3, <2>2 DEF Within, t, n, FlowInv, FlowShapes, Calendar
<1> QED
  BY <1>2, <1>3
-----------------------------------------------------------------------------
(* Kinds of steps *)

\* A download goes on or there is none: at most the calendar of the day is looked at.
LEMMA LookStep ==
    ASSUME FlowInv, UNCHANGED <<run, downloads>>,
           hour' \in Nat, source' \in Int, expired' \in Int, expired <= expired',
           measurements' \subseteq Int,
           \A m \in measurements : m > expired' => m \in measurements',
           busy' \in BOOLEAN, busy => busy',
           cycle' \in Calendar, Within(cycle'), Counts(cycle')
    PROVE  FlowInv'
<1>1. FlowShapes'
  BY DEF FlowInv, FlowShapes
<1>2. CyclesInOrder'
  BY DEF FlowInv, FlowShapes, CyclesInOrder, Within, Counts
<1>3. RunInOrder'
  BY DEF FlowInv, FlowShapes, RunInOrder
<1> QED
  BY <1>1, <1>2, <1>3 DEF FlowInv

\* A download begins with the calendar that was just stored.
LEMMA BeginStep ==
    ASSUME FlowInv, NEW by \in {"automatic", "manual"}, Flow!Begin(by, cycle'),
           UNCHANGED <<hour, source, expired>>, measurements' \subseteq Int,
           downloads' \in Nat, cycle' \in Calendar, Within(cycle'),
           cycle'.state = "past" <=> cycle' = Flow!Past, downloads' <= cycle'.attempts,
           by = "automatic" => cycle'.state \in {"retrying", "suspended"}
    PROVE  FlowInv'
<1>1. /\ run' = [at |-> "locations", by |-> by, cycle |-> cycle',
                 wanted |-> (expired + 1) .. source, fetched |-> {}, outcome |-> "running"]
      /\ busy' = TRUE
  BY DEF Flow!Begin, Flow!NoRun
<1>2. FlowShapes'
  BY <1>1 DEF FlowInv, FlowShapes
<1>3. CyclesInOrder'
  BY <1>1 DEF FlowInv, FlowShapes, CyclesInOrder, Within, Counts
<1>4. RunInOrder'
  BY <1>1 DEF RunInOrder
<1> QED
  BY <1>2, <1>3, <1>4 DEF FlowInv

\* A download goes on.
LEMMA GoOnStep ==
    ASSUME FlowInv, UNCHANGED <<hour, source, expired, cycle, busy, downloads>>,
           run.at # "none", measurements' \subseteq Int,
           NEW at \in {"locations", "pages", "save", "finish"},
           NEW fetched \in SUBSET Int,
           NEW result \in {"running", "error", "new_data", "no_new_data"},
           run' = [run EXCEPT !.at = at, !.fetched = fetched, !.outcome = result],
           RunInOrder'
    PROVE  FlowInv'
<1>1. /\ run' \in [at : {"none", "locations", "pages", "save", "finish"},
                by : {"automatic", "manual"}, cycle : Calendar,
                wanted : SUBSET Int, fetched : SUBSET Int,
                outcome : {"running", "error", "new_data", "no_new_data"}]
      /\ run'.by = run.by /\ run'.cycle = run.cycle
  BY DEF FlowInv, FlowShapes
<1>2. FlowShapes'
  BY <1>1 DEF FlowInv, FlowShapes
<1>3. CyclesInOrder'
  BY <1>1 DEF FlowInv, FlowShapes, CyclesInOrder, Within, Counts
<1> QED
  BY <1>2, <1>3 DEF FlowInv

\* A download is over, well or not.
LEMMA OverStep ==
    ASSUME FlowInv, WaitsAreHours, UNCHANGED <<hour, source, expired, measurements,
           downloads>>,
           run' = Flow!NoRun, busy' \in BOOLEAN,
           cycle' \in Calendar, Within(cycle'), Counts(cycle')
    PROVE  FlowInv'
<1>1. Flow!NoRun \in [at : {"none", "locations", "pages", "save", "finish"},
                by : {"automatic", "manual"}, cycle : Calendar,
                wanted : SUBSET Int, fetched : SUBSET Int,
                outcome : {"running", "error", "new_data", "no_new_data"}]
      /\ Flow!NoRun.at = "none" /\ Within(Flow!NoRun.cycle)
  BY DEF Flow!NoRun, Flow!Past, Flow!NewCycle, Calendar, States, Within, WaitsAreHours
<1>2. FlowShapes'
  BY <1>1 DEF FlowInv, FlowShapes
<1>3. CyclesInOrder'
  BY <1>1 DEF FlowInv, FlowShapes, CyclesInOrder, Within, Counts
<1>4. RunInOrder'
  BY <1>1 DEF RunInOrder
<1> QED
  BY <1>2, <1>3, <1>4 DEF FlowInv

LEMMA FlowInit == ASSUME WaitsAreHours PROVE Flow!Init => FlowInv
<1> SUFFICES ASSUME Flow!Init PROVE FlowInv
  OBVIOUS
<1>1. /\ Flow!Past \in Calendar /\ Flow!Past.state = "past" /\ Flow!Past.attempts = 0
      /\ Flow!NoRun = [at |-> "none", by |-> "automatic", cycle |-> Flow!Past, wanted |-> {},
                  fetched |-> {}, outcome |-> "running"]
  BY DEF Flow!Past, Flow!NewCycle, Calendar, States, Flow!NoRun
<1>2. FlowShapes
  <2>1. Flow!NoRun \in [at : {"none", "locations", "pages", "save", "finish"},
                   by : {"automatic", "manual"}, cycle : Calendar,
                   wanted : SUBSET Int, fetched : SUBSET Int,
                   outcome : {"running", "error", "new_data", "no_new_data"}]
        /\ Flow!NoRun.at = "none"
    BY <1>1
  <2>2. /\ run = Flow!NoRun /\ cycle = Flow!Past /\ hour = 0 /\ source = 1 /\ expired = 0
        /\ measurements = {} /\ busy = FALSE /\ downloads = 0
    BY DEF Flow!Init
  <2>3. Flow!Past \in Calendar
    BY <1>1
  <2>4. /\ run \in [at : {"none", "locations", "pages", "save", "finish"},
                   by : {"automatic", "manual"}, cycle : Calendar,
                   wanted : SUBSET Int, fetched : SUBSET Int,
                   outcome : {"running", "error", "new_data", "no_new_data"}]
        /\ run.at = "none" /\ cycle \in Calendar
    BY <2>1, <2>2, <2>3
  <2>5. /\ hour \in Nat /\ source \in Int /\ expired \in Int
        /\ measurements \subseteq Int /\ downloads \in Nat
    BY <2>2
  <2>6. busy \in BOOLEAN
    BY <2>2
  <2> QED
    BY <2>4, <2>5, <2>6 DEF FlowShapes
<1>3. CyclesInOrder
  BY <1>1 DEF Flow!Init, CyclesInOrder, Within, Counts, WaitsAreHours
<1>4. RunInOrder
  BY <1>1 DEF Flow!Init, RunInOrder
<1> QED
  BY <1>2, <1>3, <1>4 DEF FlowInv
-----------------------------------------------------------------------------
(* Every step *)

\* The day does not become complete by itself.
LEMMA NotCompleted ==
    ASSUME cycle'.state = "complete" => cycle.state = "complete" PROVE Flow!DayIsStored
BY DEF Flow!DayIsStored

LEMMA ClockStep ==
    ASSUME FlowInv, WaitsAreHours, Flow!Hour \/ Flow!Midnight \/ Flow!Measure
    PROVE FlowInv' /\ Flow!DayIsStored
<1>1. CASE Flow!Hour \/ Flow!Measure
  <2>1. /\ UNCHANGED <<run, downloads, cycle, measurements, busy, expired>>
        /\ hour' \in Nat /\ source' \in Int /\ expired \in Int /\ expired <= expired
        /\ cycle \in Calendar /\ Within(cycle) /\ Counts(cycle)
    BY <1>1 DEF Flow!Hour, Flow!Measure, Flow!flowStored, FlowInv, FlowShapes, CyclesInOrder
  <2>2. FlowInv'
    BY <2>1, LookStep DEF FlowInv, FlowShapes
  <2> QED
    BY <2>1, <2>2, NotCompleted
<1>2. CASE Flow!Midnight
  <2>1. /\ UNCHANGED <<source, measurements, busy>> /\ hour' = 0 /\ downloads' = 0
        /\ cycle' = Flow!Past /\ run' = [run EXCEPT !.cycle = Flow!Past]
        /\ expired' \in expired .. source
    BY <1>2 DEF Flow!Midnight
  <2>2. Flow!Past \in Calendar /\ Flow!Past.state = "past" /\ Flow!Past.attempts = 0
    BY DEF Flow!Past, Flow!NewCycle, Calendar, States
  <2>3. /\ run' \in [at : {"none", "locations", "pages", "save", "finish"},
                   by : {"automatic", "manual"}, cycle : Calendar,
                   wanted : SUBSET Int, fetched : SUBSET Int,
                   outcome : {"running", "error", "new_data", "no_new_data"}]
        /\ run'.at = run.at /\ run'.wanted = run.wanted /\ run'.fetched = run.fetched
        /\ run'.outcome = run.outcome /\ run'.cycle = Flow!Past
    BY <2>1, <2>2 DEF FlowInv, FlowShapes
  <2>4. FlowShapes'
    BY <2>1, <2>2, <2>3 DEF FlowInv, FlowShapes
  <2>5. CyclesInOrder'
    BY <2>1, <2>2, <2>3 DEF CyclesInOrder, Within, Counts, WaitsAreHours
  <2>6. RunInOrder'
    BY <2>1, <2>3 DEF FlowInv, FlowShapes, RunInOrder
  <2> QED
    BY <2>1, <2>2, <2>4, <2>5, <2>6, NotCompleted DEF FlowInv
<1> QED
  BY <1>1, <1>2

\* The status, a request, and the beginning of a download that fails.
LEMMA CalendarStep ==
    ASSUME FlowInv, WaitsAreHours, Flow!Status \/ Flow!RequestManual \/ Flow!BeginFails
    PROVE  FlowInv' /\ Flow!DayIsStored
<1>1. /\ UNCHANGED <<hour, source, expired, measurements, run, downloads>>
      /\ (busy' = busy \/ busy' = TRUE)
      /\ cycle' = cycle \/ cycle' = Flow!TodaysCycle
           \/ (Flow!Due(Flow!TodaysCycle) /\ cycle' = Flow!Counted(Flow!TodaysCycle))
  BY DEF Flow!Status, Flow!RequestManual, Flow!BeginFails, Flow!clockVars, Flow!flowStored
<1>2. /\ cycle' \in Calendar /\ Within(cycle') /\ Counts(cycle')
      /\ cycle'.state = "complete" => cycle.state = "complete"
  <2>1. CASE cycle' = cycle
    BY <2>1 DEF FlowInv, FlowShapes, CyclesInOrder
  <2>2. CASE cycle' = Flow!TodaysCycle
    BY <2>2, CalendarOfToday
  <2>3. CASE Flow!Due(Flow!TodaysCycle) /\ cycle' = Flow!Counted(Flow!TodaysCycle)
    <3>1. /\ cycle' \in Calendar /\ Within(cycle') /\ downloads + 1 <= cycle'.attempts
          /\ cycle'.state \in {"retrying", "suspended"}
      BY <2>3, CountedOfToday
    <3>2. Flow!Past.state = "past"
      BY DEF Flow!Past, Flow!NewCycle
    <3> QED
      BY <3>1, <3>2 DEF Counts, FlowInv, FlowShapes, Calendar
  <2> QED
    BY <1>1, <2>1, <2>2, <2>3
<1>3. busy' \in BOOLEAN /\ (busy => busy')
  <2>1. busy \in BOOLEAN
    BY DEF FlowInv, FlowShapes
  <2>2. CASE busy' = busy
    BY <2>1, <2>2
  <2>3. CASE busy' = TRUE
    BY <2>3
  <2> QED
    BY <1>1, <2>2, <2>3
<1>4. /\ hour' \in Nat /\ source' \in Int /\ expired' \in Int /\ expired <= expired'
      /\ measurements' \subseteq Int
      /\ \A m \in measurements : m > expired' => m \in measurements'
  BY <1>1 DEF FlowInv, FlowShapes
<1>5. FlowInv'
  BY <1>1, <1>2, <1>3, <1>4, LookStep
<1> QED
  BY <1>2, <1>5, NotCompleted

LEMMA TickStep ==
    ASSUME FlowInv, WaitsAreHours, Flow!Tick PROVE FlowInv' /\ Flow!DayIsStored
<1>1. /\ UNCHANGED <<hour, source, expired>> /\ measurements' \subseteq Int
      /\ \A m \in measurements : m > expired => m \in measurements'
  BY DEF Flow!Tick, Flow!clockVars, Flow!Prune, FlowInv, FlowShapes
<1>2. Flow!Past.state = "past"
  BY DEF Flow!Past, Flow!NewCycle
<1>3. CASE UNCHANGED <<cycle, busy, run, downloads>>
  <2>1. cycle' \in Calendar /\ Within(cycle') /\ Counts(cycle')
    BY <1>3 DEF FlowInv, FlowShapes, CyclesInOrder
  <2> QED
    BY <1>1, <1>3, <2>1, LookStep, NotCompleted DEF FlowInv, FlowShapes
<1>4. CASE cycle' = Flow!TodaysCycle /\ UNCHANGED <<busy, run, downloads>>
  <2>1. /\ cycle' \in Calendar /\ Within(cycle') /\ Counts(cycle')
        /\ cycle'.state = "complete" => cycle.state = "complete"
    BY <1>4, CalendarOfToday
  <2> QED
    BY <1>1, <1>4, <2>1, LookStep, NotCompleted DEF FlowInv, FlowShapes
<1>5. CASE /\ Flow!Due(Flow!TodaysCycle) /\ cycle' = Flow!Counted(Flow!TodaysCycle)
           /\ downloads' = downloads + 1 /\ Flow!Begin("automatic", cycle')
  <2>1. /\ cycle' \in Calendar /\ Within(cycle') /\ downloads' <= cycle'.attempts
        /\ cycle'.state \in {"retrying", "suspended"} /\ downloads' \in Nat
    BY <1>5, CountedOfToday DEF FlowInv, FlowShapes
  <2>2. cycle'.state = "past" <=> cycle' = Flow!Past
    BY <1>2, <2>1
  <2> QED
    BY <1>1, <1>5, <2>1, <2>2, BeginStep, NotCompleted
<1> QED
  BY <1>3, <1>4, <1>5 DEF Flow!Tick

LEMMA ManualStep ==
    ASSUME FlowInv, WaitsAreHours, Flow!RunManual PROVE FlowInv' /\ Flow!DayIsStored
<1>1. /\ UNCHANGED <<hour, source, expired, measurements, downloads>>
      /\ cycle' = Flow!TodaysCycle /\ Flow!Begin("manual", cycle')
  BY DEF Flow!RunManual, Flow!clockVars
<1>2. /\ cycle' \in Calendar /\ Within(cycle')
      /\ cycle'.state = "past" <=> cycle' = Flow!Past
      /\ downloads' <= cycle'.attempts /\ downloads' \in Nat
      /\ cycle'.state = "complete" => cycle.state = "complete"
  BY <1>1, CalendarOfToday DEF Counts, FlowInv, FlowShapes
<1> QED
  BY <1>1, <1>2, BeginStep, NotCompleted DEF FlowInv, FlowShapes

LEMMA QueryStep ==
    ASSUME FlowInv, Flow!Query PROVE FlowInv' /\ Flow!DayIsStored
<1>1. /\ UNCHANGED <<hour, source, expired, cycle, busy, downloads>>
      /\ run.at \in {"locations", "pages"} /\ run.outcome # "new_data"
      /\ measurements' \subseteq Int
  BY DEF Flow!Query, Flow!clockVars, Flow!Prune, FlowInv, FlowShapes, RunInOrder
<1>2. CASE Flow!Outcome("error")
  <2>1. run' = [run EXCEPT !.at = "finish", !.fetched = run.fetched, !.outcome = "error"]
        /\ run'.at = "finish" /\ run'.outcome = "error"
    BY <1>2 DEF Flow!Outcome, FlowInv, FlowShapes
  <2>2. RunInOrder'
    BY <2>1 DEF RunInOrder
  <2>3. run.fetched \in SUBSET Int
    BY DEF FlowInv, FlowShapes
  <2> QED
    BY <1>1, <2>1, <2>2, <2>3, GoOnStep, NotCompleted
<1>3. ASSUME NEW at \in {"pages", "save"}, run.at = "locations", run' = [run EXCEPT !.at = at]
      PROVE  FlowInv' /\ Flow!DayIsStored
  <2>1. run' = [run EXCEPT !.at = at, !.fetched = run.fetched, !.outcome = run.outcome]
        /\ run'.at = at /\ run'.outcome = run.outcome /\ run'.fetched = run.fetched
    BY <1>3 DEF FlowInv, FlowShapes
  <2>2. RunInOrder'
    BY <1>1, <1>3, <2>1 DEF FlowInv, RunInOrder
  <2>3. /\ run.fetched \in SUBSET Int
        /\ run.outcome \in {"running", "error", "new_data", "no_new_data"}
    BY DEF FlowInv, FlowShapes
  <2> QED
    BY <1>1, <1>3, <2>1, <2>2, <2>3, GoOnStep, NotCompleted
<1>4. ASSUME NEW page \in {{m} : m \in run.wanted \cup Flow!Late} \cup {{}},
             run' = [run EXCEPT !.fetched = run.fetched \cup page,
                                !.at = IF run.wanted \subseteq run.fetched \cup page
                                       THEN "save" ELSE "pages"]
      PROVE  FlowInv' /\ Flow!DayIsStored
  <2> DEFINE got == run.fetched \cup page
             at == IF run.wanted \subseteq got THEN "save" ELSE "pages"
  <2>1. /\ got \in SUBSET Int /\ at \in {"save", "pages"}
        /\ run.outcome \in {"running", "error", "new_data", "no_new_data"}
    BY DEF FlowInv, FlowShapes, Flow!Late
  <2>2. at = "save" => run.wanted \subseteq got
    OBVIOUS
  <2>3. run' = [run EXCEPT !.at = at, !.fetched = got, !.outcome = run.outcome]
    BY <1>4 DEF FlowInv, FlowShapes
  <2> HIDE DEF at, got
  <2>4. run'.at = at /\ run'.fetched = got /\ run'.outcome = run.outcome
        /\ run'.wanted = run.wanted
    BY <2>3 DEF FlowInv, FlowShapes
  <2>5. RunInOrder'
    BY <1>1, <2>1, <2>2, <2>4 DEF RunInOrder
  <2> QED
    BY <1>1, <2>1, <2>3, <2>5, GoOnStep, NotCompleted
<1> QED
  BY <1>2, <1>3, <1>4 DEF Flow!Query

LEMMA SaveStep ==
    ASSUME FlowInv, Flow!Save PROVE FlowInv' /\ Flow!DayIsStored
<1>1. /\ UNCHANGED <<hour, source, expired, cycle, busy, downloads>>
      /\ run.at = "save" /\ (run.wanted \subseteq run.fetched \/ run.fetched = {})
      /\ measurements' \subseteq Int
  BY DEF Flow!Save, Flow!clockVars, Flow!Prune, FlowInv, FlowShapes, RunInOrder
<1>2. PICK result \in {"error", "new_data", "no_new_data"} :
        /\ Flow!Outcome(result)
        /\ result = "new_data" => /\ measurements' = Flow!Prune(measurements \cup run.fetched)
                                  /\ run.fetched # {}
  BY DEF Flow!Save, Flow!Prune
<1>3. /\ run' = [run EXCEPT !.at = "finish", !.fetched = run.fetched, !.outcome = result]
      /\ run'.at = "finish" /\ run'.outcome = result /\ run'.wanted = run.wanted
      /\ run.fetched \in SUBSET Int
  BY <1>2 DEF Flow!Outcome, FlowInv, FlowShapes
<1>4. RunInOrder'
  BY <1>1, <1>2, <1>3 DEF RunInOrder, Flow!Prune
<1> QED
  BY <1>1, <1>3, <1>4, GoOnStep, NotCompleted

LEMMA FlowEndStep ==
    ASSUME FlowInv, WaitsAreHours, Flow!FinishFails \/ Flow!Restart
    PROVE FlowInv' /\ Flow!DayIsStored
<1>1. /\ UNCHANGED <<hour, source, expired, measurements, downloads, cycle>>
      /\ run' = Flow!NoRun /\ (busy' = busy \/ busy' = FALSE)
  BY DEF Flow!FinishFails, Flow!Restart, Flow!clockVars
<1>2. cycle' \in Calendar /\ Within(cycle') /\ Counts(cycle') /\ busy' \in BOOLEAN
  BY <1>1 DEF FlowInv, FlowShapes, CyclesInOrder
<1> QED
  BY <1>1, <1>2, OverStep, NotCompleted

LEMMA FinishStep ==
    ASSUME FlowInv, WaitsAreHours, Flow!Finish PROVE FlowInv' /\ Flow!DayIsStored
<1>1. /\ UNCHANGED <<hour, source, expired, measurements, downloads>>
      /\ run.at = "finish" /\ run' = Flow!NoRun /\ busy' = FALSE /\ cycle' = Flow!Settled
  BY DEF Flow!Finish, Flow!clockVars
<1>2. run.by \in {"automatic", "manual"} /\ run.cycle \in Calendar
  BY DEF FlowInv, FlowShapes
<1>3. CASE run.by = "manual"
  <2>1. cycle' = cycle
    BY <1>1, <1>3 DEF Flow!Settled
  <2>2. cycle' \in Calendar /\ Within(cycle') /\ Counts(cycle')
    BY <2>1 DEF FlowInv, FlowShapes, CyclesInOrder
  <2> QED
    BY <1>1, <2>1, <2>2, OverStep, NotCompleted
<1>4. CASE run.by = "automatic" /\ ~(run.outcome = "new_data" /\ run.cycle # Flow!Past)
  <2>1. cycle' = run.cycle
    BY <1>1, <1>4 DEF Flow!Settled
  <2>2. cycle' \in Calendar /\ Within(cycle') /\ Counts(cycle') /\ cycle'.state # "complete"
    BY <1>1, <1>2, <1>4, <2>1 DEF FlowInv, CyclesInOrder
  <2> QED
    BY <1>1, <2>2, OverStep, NotCompleted
<1>5. CASE run.by = "automatic" /\ run.outcome = "new_data" /\ run.cycle # Flow!Past
  <2>1. PICK zero \in Nat :
          cycle' = [run.cycle EXCEPT !.state = "complete", !.retryAt = zero]
    BY <1>1, <1>5 DEF Flow!Settled
  <2>2. cycle' \in Calendar /\ cycle'.state = "complete" /\ cycle'.attempts = run.cycle.attempts
    BY <1>2, <2>1 DEF Calendar, States
  <2>3. Flow!Past.state = "past"
    BY DEF Flow!Past, Flow!NewCycle
  <2>4. Within(cycle') /\ Counts(cycle')
    BY <1>1, <1>5, <2>2, <2>3 DEF FlowInv, CyclesInOrder, Within, Counts
  <2>5. Flow!DayIsStored
    BY <1>1, <1>5 DEF FlowInv, RunInOrder, Flow!DayIsStored
  <2> QED
    BY <1>1, <2>2, <2>4, <2>5, OverStep
<1> QED
  BY <1>2, <1>3, <1>4, <1>5

LEMMA FlowNext ==
    ASSUME WaitsAreHours
    PROVE FlowInv /\ (Flow!Next \/ UNCHANGED ofFlow) => FlowInv' /\ Flow!DayIsStored
<1> SUFFICES ASSUME FlowInv, (Flow!Next \/ UNCHANGED ofFlow) PROVE FlowInv' /\ Flow!DayIsStored
  OBVIOUS
<1>1. CASE UNCHANGED ofFlow
  <2>1. UNCHANGED <<hour, source, expired, cycle, measurements, busy, run, downloads>>
    BY <1>1 DEF ofFlow
  <2>2. cycle' \in Calendar /\ Within(cycle') /\ Counts(cycle')
    BY <2>1 DEF FlowInv, FlowShapes, CyclesInOrder
  <2>3. FlowInv'
    BY <2>1, <2>2, LookStep DEF FlowInv, FlowShapes
  <2> QED
    BY <2>1, <2>3, NotCompleted
<1> QED
  BY <1>1, ClockStep, CalendarStep, TickStep, ManualStep, QueryStep, SaveStep, FlowEndStep,
     FinishStep
  DEF Flow!Next, Flow!Step, Flow!Clock, Flow!Environment

-----------------------------------------------------------------------------
(***************************************************************************)
(* The requests of Lechu                                                   *)
(***************************************************************************)
Router == [at : {"wait", "ask", "post", "emit", "dead"}, request : Requests \cup {Rpc!Waiting.request},
           attempt : Int, body : Nat, outcome : {"none", "ok", "error"}]

RpcShapes ==
    /\ kind \in [Requests -> Rpc!Kinds]
    /\ inbox \in Seq(Requests)
    /\ router \in Router
    /\ router.at # "wait" => router.request \in Requests
    /\ router.at = "emit" => router.outcome # "none"
    /\ minute \in Nat
    /\ served \in [Requests -> Nat]
    /\ answers \in [Requests -> Seq({"ok", "error", "lost"})]

\* A mail has the key of a request that asked for it, and no other has its key.
MailsInOrder ==
    /\ mails \subseteq [key : Requests \X {0}, body : Nat]
    /\ \A m \in mails : Rpc!IsMail(m.key[1])
    /\ \A m, n \in mails : m.key = n.key => m.body = n.body

\* Only what asks for a mail posts one, and what is said to be accepted is there.
AnswersInOrder ==
    /\ router.at = "post" => Rpc!IsMail(router.request)
    /\ router.at = "ask" => kind[router.request] = "read"
    /\ router.at = "emit" /\ router.outcome = "ok" /\ Rpc!IsMail(router.request) =>
           Rpc!MailsOf(router.request) # {}
    /\ \A r \in Requests : \A i \in 1 .. Len(answers[r]) :
           Rpc!IsMail(r) /\ answers[r][i] = "ok" => Rpc!MailsOf(r) # {}

RpcInv == RpcShapes /\ MailsInOrder /\ AnswersInOrder

-----------------------------------------------------------------------------
LEMMA RpcInit == Rpc!Init => RpcInv
<1> SUFFICES ASSUME Rpc!Init PROVE RpcInv
  OBVIOUS
<1>1. Rpc!Waiting \in Router /\ Rpc!Waiting.at = "wait"
  BY DEF Rpc!Waiting, Router
<1>2. /\ router = Rpc!Waiting /\ mails = {} /\ minute = 1 /\ inbox = <<>>
      /\ answers = [r \in Requests |-> <<>>] /\ served = [r \in Requests |-> 0]
      /\ kind \in [Requests -> Rpc!Kinds]
  BY DEF Rpc!Init
<1>3. RpcShapes
  BY <1>1, <1>2 DEF RpcShapes
<1>4. MailsInOrder /\ AnswersInOrder
  BY <1>1, <1>2 DEF MailsInOrder, AnswersInOrder
<1> QED
  BY <1>3, <1>4 DEF RpcInv

\* The thread goes on: what it asked for and what was accepted stay as they are.
LEMMA MailsStay ==
    ASSUME RpcInv, UNCHANGED <<kind, mails>> PROVE
    /\ MailsInOrder' /\ \A r : Rpc!MailsOf(r)' = Rpc!MailsOf(r) /\ Rpc!IsMail(r)' = Rpc!IsMail(r)
BY DEF RpcInv, MailsInOrder, Rpc!MailsOf, Rpc!IsMail

LEMMA OutsideStep ==
    ASSUME RpcInv, UNCHANGED <<kind, mails, router, answers, served>>,
           inbox' \in Seq(Requests), minute' \in Nat
    PROVE  RpcInv'
<1>1. RpcShapes'
  BY DEF RpcInv, RpcShapes
<1>2. AnswersInOrder'
  BY MailsStay DEF RpcInv, AnswersInOrder
<1> QED
  BY <1>1, <1>2, MailsStay DEF RpcInv

LEMMA DeliverStep == RpcInv /\ (\E r \in Requests : Rpc!Deliver(r)) => RpcInv'
<1> SUFFICES ASSUME RpcInv, NEW r \in Requests, Rpc!Deliver(r) PROVE RpcInv'
  OBVIOUS
<1>1. inbox' \in Seq(Requests) /\ minute' \in Nat
  BY DEF Rpc!Deliver, RpcInv, RpcShapes
<1> QED
  BY <1>1, OutsideStep DEF Rpc!Deliver

LEMMA EnvironmentStep == RpcInv /\ Rpc!Environment => RpcInv'
<1> SUFFICES ASSUME RpcInv, Rpc!Environment PROVE RpcInv'
  OBVIOUS
<1>1. inbox' \in Seq(Requests) /\ minute' \in Nat
  BY DEF Rpc!Environment, Rpc!Tick, Rpc!Duplicate, RpcInv, RpcShapes
<1> QED
  BY <1>1, OutsideStep DEF Rpc!Environment, Rpc!Tick, Rpc!Duplicate

LEMMA TakeStep == RpcInv /\ Rpc!Take => RpcInv'
<1> SUFFICES ASSUME RpcInv, Rpc!Take PROVE RpcInv'
  OBVIOUS
<1> DEFINE r == Head(inbox)
           taken == [Rpc!Waiting EXCEPT !.request = r, !.attempt = 1, !.body = Rpc!Body(r)]
<1>1. r \in Requests /\ Tail(inbox) \in Seq(Requests)
  BY DEF Rpc!Take, RpcInv, RpcShapes
<1>2. Rpc!Body(r) \in Nat
  BY DEF Rpc!Body, RpcInv, RpcShapes
<1>3. Rpc!Waiting \in Router /\ Rpc!Waiting.at = "wait"
  BY DEF Rpc!Waiting, Router
<1>4. taken \in Router /\ taken.request = r
  <2>1. PICK idle \in Router : idle = Rpc!Waiting
    BY <1>3
  <2>2. PICK n \in Int, body \in Nat : n = 1 /\ body = Rpc!Body(r)
    BY <1>2
  <2>3. taken = [idle EXCEPT !.request = r, !.attempt = n, !.body = body]
    BY <2>1, <2>2
  <2> HIDE DEF taken, r
  <2> QED
    BY <1>1, <2>3 DEF Router
<1>5. /\ router' \in Router
      /\ \/ router'.at = "wait"
         \/ router'.request = r /\ router'.at = "dead"
         \/ router'.request = r /\ router'.at = "emit" /\ router'.outcome = "error"
         \/ router'.request = r /\ router'.at = "ask" /\ kind[r] = "read"
         \/ router'.request = r /\ router'.at = "post" /\ Rpc!IsMail(r)
  <2> HIDE DEF taken
  <2>1. CASE kind[r] = "unanswerable"
    BY <1>3, <2>1 DEF Rpc!Take
  <2>2. CASE kind[r] = "unsupported"
    <3>1. router' = [taken EXCEPT !.at = "emit", !.outcome = "error"]
      BY <2>2 DEF Rpc!Take, taken
    <3> QED
      BY <1>4, <3>1 DEF Router
  <2>3. CASE kind[r] = "read"
    <3>1. router' = [taken EXCEPT !.at = "ask"]
      BY <2>3 DEF Rpc!Take, taken
    <3> QED
      BY <1>4, <2>3, <3>1 DEF Router
  <2>4. CASE kind[r] \in {"mail", "timed_mail"}
    <3>1. router' = [taken EXCEPT !.at = "post"]
      BY <2>4 DEF Rpc!Take, taken
    <3> QED
      BY <1>4, <2>4, <3>1 DEF Router, Rpc!IsMail
  <2>5. CASE kind[r] = "not_object"
    <3>1. router' = [taken EXCEPT !.at = "dead"]
      BY <2>5 DEF Rpc!Take, taken
    <3> QED
      BY <1>4, <3>1 DEF Router
  <2> QED
    BY <1>1, <2>1, <2>2, <2>3, <2>4, <2>5 DEF RpcInv, RpcShapes, Rpc!Kinds
<1>6. UNCHANGED <<kind, mails, answers, minute>> /\ inbox' = Tail(inbox)
      /\ served' = [served EXCEPT ![r] = served[r] + 1]
  BY DEF Rpc!Take
<1> HIDE DEF r, taken
<1>7. RpcShapes'
  BY <1>1, <1>5, <1>6 DEF RpcInv, RpcShapes
<1>8. AnswersInOrder'
  BY <1>5, <1>6, MailsStay DEF RpcInv, AnswersInOrder
<1> QED
  BY <1>6, <1>7, <1>8, MailsStay DEF RpcInv

\* The answer is known: what remains to show is that a good one is true.
LEMMA EmitStep ==
    ASSUME RpcInv, NEW result \in {"ok", "error"}, Rpc!Emit(result), router.at # "wait",
           UNCHANGED <<kind, inbox, minute, answers, served>>, MailsInOrder',
           \A r \in Requests : Rpc!MailsOf(r) # {} => Rpc!MailsOf(r)' # {},
           \A r \in Requests : r = router.request /\ result = "ok" /\ Rpc!IsMail(r) =>
               Rpc!MailsOf(r)' # {}
    PROVE  RpcInv'
<1>1. /\ router' \in Router /\ router'.request = router.request
      /\ router'.at = "emit" /\ router'.outcome = result
  BY DEF Rpc!Emit, RpcInv, RpcShapes, Router
<1>2. RpcShapes'
  BY <1>1 DEF RpcInv, RpcShapes
<1>3. result = "ok" /\ Rpc!IsMail(router.request) => Rpc!MailsOf(router.request)' # {}
  <2>1. PICK r \in Requests : r = router.request
    BY DEF RpcInv, RpcShapes
  <2>2. Rpc!MailsOf(router.request)' = Rpc!MailsOf(r)'
    BY <1>1, <2>1 DEF Rpc!MailsOf
  <2> QED
    BY <2>1, <2>2
<1>4. \A r \in Requests : \A i \in 1 .. Len(answers'[r]) :
          Rpc!IsMail(r)' /\ answers'[r][i] = "ok" => Rpc!MailsOf(r)' # {}
  BY DEF RpcInv, AnswersInOrder, Rpc!IsMail
<1>5. AnswersInOrder'
  BY <1>1, <1>3, <1>4 DEF AnswersInOrder, Rpc!IsMail
<1> QED
  BY <1>2, <1>5 DEF RpcInv

LEMMA AskStep == RpcInv /\ Rpc!Ask => RpcInv'
<1> SUFFICES ASSUME RpcInv, Rpc!Ask PROVE RpcInv'
  OBVIOUS
<1>1. /\ UNCHANGED <<kind, inbox, minute, answers, served, mails>> /\ router.at # "wait"
      /\ ~Rpc!IsMail(router.request) /\ (Rpc!Emit("ok") \/ Rpc!Emit("error"))
  BY DEF Rpc!Ask, RpcInv, AnswersInOrder, Rpc!IsMail
<1>2. /\ MailsInOrder' /\ \A r \in Requests : Rpc!MailsOf(r) # {} => Rpc!MailsOf(r)' # {}
      /\ \A r \in Requests : r = router.request => ~Rpc!IsMail(r)
  BY <1>1, MailsStay
<1>3. CASE Rpc!Emit("ok")
  BY <1>1, <1>2, <1>3, EmitStep
<1>4. CASE Rpc!Emit("error")
  BY <1>1, <1>2, <1>4, EmitStep
<1> QED
  BY <1>1, <1>3, <1>4

-----------------------------------------------------------------------------
(* The post *)

\* Mensagelo accepts a key it does not have, or the same mail again.
LEMMA AcceptedStep ==
    ASSUME RpcInv, router.at = "post", ~Rpc!Conflict, mails' = Rpc!Accepted, UNCHANGED kind
    PROVE  /\ MailsInOrder'
           /\ \A r \in Requests : Rpc!MailsOf(r) # {} \/ r = router.request => Rpc!MailsOf(r)' # {}
<1> DEFINE mail == [key |-> Rpc!Key, body |-> router.body]
<1>1. /\ Rpc!Key \in Requests \X {0} /\ Rpc!Key[1] = router.request /\ Rpc!IsMail(router.request)
      /\ router.body \in Nat
  BY DEF RpcInv, RpcShapes, AnswersInOrder, Router, Rpc!Key
<1>2. mails' = mails \cup {mail} /\ mail.key = Rpc!Key /\ mail.body = router.body
  BY DEF Rpc!Accepted
<1>3. mail \in [key : Requests \X {0}, body : Nat]
  BY <1>1
<1>4. \A m \in mails : m.key = Rpc!Key => m.body = router.body
  BY DEF Rpc!Conflict
<1> HIDE DEF mail
<1>5. MailsInOrder'
  <2>1. mails' \subseteq [key : Requests \X {0}, body : Nat]
    BY <1>2, <1>3 DEF RpcInv, MailsInOrder
  <2>2. \A m \in mails' : Rpc!IsMail(m.key[1])'
    BY <1>1, <1>2 DEF RpcInv, MailsInOrder, Rpc!IsMail
  <2>3. \A m, n \in mails' : m.key = n.key => m.body = n.body
    BY <1>2, <1>4 DEF RpcInv, MailsInOrder
  <2> QED
    BY <2>1, <2>2, <2>3 DEF MailsInOrder
<1>6. \A r \in Requests : r = router.request => mail \in Rpc!MailsOf(r)'
  BY <1>1, <1>2 DEF Rpc!MailsOf
<1>7. \A r \in Requests : Rpc!MailsOf(r) \subseteq Rpc!MailsOf(r)'
  BY <1>2 DEF Rpc!MailsOf
<1> QED
  BY <1>5, <1>6, <1>7

LEMMA PostStep == RpcInv /\ Rpc!Post => RpcInv'
<1> SUFFICES ASSUME RpcInv, Rpc!Post PROVE RpcInv'
  OBVIOUS
<1>1. UNCHANGED <<kind, inbox, minute, answers, served>> /\ router.at = "post"
  BY DEF Rpc!Post
<1>2. CASE ~Rpc!Conflict /\ mails' = Rpc!Accepted /\ Rpc!Emit("ok")
  BY <1>1, <1>2, AcceptedStep, EmitStep
<1>3. CASE Rpc!Emit("error") /\ (mails' = mails \/ (~Rpc!Conflict /\ mails' = Rpc!Accepted))
  <2>1. MailsInOrder' /\ \A r \in Requests : Rpc!MailsOf(r) # {} => Rpc!MailsOf(r)' # {}
    <3>1. CASE mails' = mails
      BY <1>1, <3>1, MailsStay
    <3>2. CASE ~Rpc!Conflict /\ mails' = Rpc!Accepted
      BY <1>1, <3>2, AcceptedStep
    <3> QED
      BY <1>3, <3>1, <3>2
  <2> QED
    BY <1>1, <1>3, <2>1, EmitStep
<1>4. CASE /\ router' = [router EXCEPT !.attempt = router.attempt + 1]
           /\ mails' = mails \/ (~Rpc!Conflict /\ mails' = Rpc!Accepted)
  <2>1. /\ router' \in Router /\ router'.at = "post" /\ router'.request = router.request
    <3> DEFINE next == router.attempt + 1
    <3>1. router \in Router /\ next \in Int /\ router' = [router EXCEPT !.attempt = next]
      BY <1>4 DEF RpcInv, RpcShapes, Router
    <3> HIDE DEF next
    <3> QED
      BY <1>1, <3>1 DEF Router
  <2>2. MailsInOrder' /\ \A r \in Requests : Rpc!MailsOf(r) # {} => Rpc!MailsOf(r)' # {}
    <3>1. CASE mails' = mails
      BY <1>1, <3>1, MailsStay
    <3>2. CASE ~Rpc!Conflict /\ mails' = Rpc!Accepted
      BY <1>1, <3>2, AcceptedStep
    <3> QED
      BY <1>4, <3>1, <3>2
  <2>3. RpcShapes'
    BY <1>1, <2>1 DEF RpcInv, RpcShapes
  <2>4. AnswersInOrder'
    BY <1>1, <2>1, <2>2 DEF RpcInv, AnswersInOrder, Rpc!IsMail
  <2> QED
    BY <2>2, <2>3, <2>4 DEF RpcInv
<1>5. /\ mails' = mails \/ (~Rpc!Conflict /\ mails' = Rpc!Accepted)
      /\ \/ Rpc!Emit("ok") /\ ~Rpc!Conflict /\ mails' = Rpc!Accepted
         \/ Rpc!Emit("error")
         \/ router' = [router EXCEPT !.attempt = router.attempt + 1]
  BY DEF Rpc!Post, Rpc!Repeat
<1> QED
  BY <1>2, <1>3, <1>4, <1>5

LEMMA AnswerStep == RpcInv /\ Rpc!Answer => RpcInv'
<1> SUFFICES ASSUME RpcInv, Rpc!Answer PROVE RpcInv'
  OBVIOUS
<1> DEFINE r == router.request
<1>1. /\ UNCHANGED <<kind, inbox, minute, served, mails>> /\ router.at = "emit"
      /\ router' = Rpc!Waiting /\ r \in Requests
      /\ router.outcome \in {"none", "ok", "error"}
  BY DEF Rpc!Answer, RpcInv, RpcShapes, Router
<1>2. Rpc!Waiting \in Router /\ Rpc!Waiting.at = "wait"
  BY DEF Rpc!Waiting, Router
<1>3. PICK said \in {router.outcome, "lost"} :
        answers' = [answers EXCEPT ![r] = Append(answers[r], said)]
  BY DEF Rpc!Answer
<1>4. said \in {"ok", "error", "lost"} /\ (said = "ok" => router.outcome = "ok")
  BY <1>1 DEF RpcInv, RpcShapes
<1> HIDE DEF r
<1>5. /\ answers' \in [Requests -> Seq({"ok", "error", "lost"})]
      /\ answers'[r] = Append(answers[r], said)
      /\ \A q \in Requests : q # r => answers'[q] = answers[q]
  BY <1>1, <1>3, <1>4 DEF RpcInv, RpcShapes
<1>6. RpcShapes'
  BY <1>1, <1>2, <1>5 DEF RpcInv, RpcShapes
<1>7. ASSUME NEW q \in Requests, NEW i \in 1 .. Len(answers'[q]),
             Rpc!IsMail(q)', answers'[q][i] = "ok"
      PROVE  Rpc!MailsOf(q)' # {}
  <2>1. Rpc!IsMail(q) /\ Rpc!MailsOf(q)' = Rpc!MailsOf(q)
    BY <1>1, <1>7, MailsStay
  <2>2. CASE q # r \/ i \in 1 .. Len(answers[q])
    <3>1. answers[q] \in Seq({"ok", "error", "lost"})
      BY DEF RpcInv, RpcShapes
    <3>2. i \in 1 .. Len(answers[q]) /\ answers[q][i] = "ok"
      BY <1>5, <1>7, <2>2, <3>1
    <3> QED
      BY <2>1, <3>2 DEF RpcInv, AnswersInOrder
  <2>3. CASE q = r /\ i \notin 1 .. Len(answers[q])
    <3>1. answers[r] \in Seq({"ok", "error", "lost"})
      BY <1>1 DEF RpcInv, RpcShapes
    <3>2. answers'[r][i] = said
      BY <1>4, <1>5, <1>7, <2>3, <3>1
    <3> QED
      BY <1>1, <1>4, <1>7, <2>1, <2>3, <3>2 DEF RpcInv, AnswersInOrder, r
  <2> QED
    BY <2>2, <2>3
<1>8. AnswersInOrder'
  BY <1>1, <1>2, <1>7 DEF AnswersInOrder
<1> QED
  BY <1>1, <1>6, <1>8, MailsStay DEF RpcInv

-----------------------------------------------------------------------------
LEMMA RpcNext == RpcInv /\ (Rpc!Next \/ UNCHANGED ofRpc) => RpcInv'
<1>1. RpcInv /\ UNCHANGED ofRpc => RpcInv'
  BY OutsideStep DEF ofRpc, RpcInv, RpcShapes
<1> QED
  BY <1>1, TakeStep, AskStep, PostStep, AnswerStep, DeliverStep, EnvironmentStep
  DEF Rpc!Next, Rpc!Step

\* What all look alike is one at most.
LEMMA OneAtMost ==
    ASSUME NEW S, \A x, y \in S : x = y
    PROVE  Cardinality(S) <= 1
<1>1. CASE S = {}
  BY <1>1, FS_EmptySet
<1>2. CASE S # {}
  <2>1. PICK x \in S : TRUE
    BY <1>2
  <2>2. S = {x}
    BY <2>1
  <2> QED
    BY <2>2, FS_Singleton
<1> QED
  BY <1>1, <1>2

\* The size of a set is the same for LechuRpc, which has an operator of its own for it.
LEMMA SizeOfMails == \A S : Rpc!Cardinality(S) = Cardinality(S)
BY DEF Rpc!Cardinality, Cardinality

\* However often the broker delivers a request and its post is repeated.
LEMMA MailsAreOne == RpcInv => Rpc!OneMailPerRequest
<1>1. ASSUME RpcInv PROVE Rpc!OneMailPerRequest
  <2>1. ASSUME NEW r \in Requests PROVE Cardinality(Rpc!MailsOf(r)) <= 1
    <3>1. ASSUME NEW m \in Rpc!MailsOf(r), NEW n \in Rpc!MailsOf(r) PROVE m = n
      <4>1. /\ m \in [key : Requests \X {0}, body : Nat] /\ n \in [key : Requests \X {0}, body : Nat]
            /\ m.key[1] = r /\ n.key[1] = r /\ m \in mails /\ n \in mails
        BY <1>1 DEF RpcInv, MailsInOrder, Rpc!MailsOf
      <4>2. m.key = <<r, 0>> /\ n.key = <<r, 0>>
        BY <4>1
      <4>3. m.body = n.body
        BY <1>1, <4>1, <4>2 DEF RpcInv, MailsInOrder
      <4> QED
        BY <4>1, <4>2, <4>3
    <3> QED
      BY <3>1, OneAtMost
  <2>2. ASSUME NEW r \in Requests, ~Rpc!IsMail(r) PROVE Rpc!MailsOf(r) = {}
    BY <1>1, <2>2 DEF RpcInv, MailsInOrder, Rpc!MailsOf
  <2>3. ASSUME NEW r \in Requests, Rpc!IsMail(r), NEW i \in 1 .. Len(answers[r]),
               answers[r][i] = "ok"
        PROVE  Rpc!MailsOf(r) # {}
    BY <1>1, <2>3 DEF RpcInv, AnswersInOrder
  <2>4. ASSUME NEW r \in Requests
        PROVE  /\ Cardinality(Rpc!MailsOf(r)) <= 1
               /\ Rpc!IsMail(r) /\ (\E i \in 1 .. Len(answers[r]) : answers[r][i] = "ok")
                      => Rpc!MailsOf(r) # {}
               /\ ~Rpc!IsMail(r) => Rpc!MailsOf(r) = {}
    BY <2>1, <2>2, <2>3
  <2> QED
    BY <2>4, SizeOfMails DEF Rpc!OneMailPerRequest
<1> QED
  BY <1>1

-----------------------------------------------------------------------------
(***************************************************************************)
(* The MQTT session of Lechu                                               *)
(***************************************************************************)
\* What the broker holds of the session, and what the process knows of it.  Between
\* its first two steps a stop has said that there is no session, or was overtaken.
SessionInOrder ==
    /\ ~wire /\ ~overtaken => presence # "online"
    /\ wire /\ online /\ net = "none" /\ stopping = "none" => presence = "online" \/ overtaken
    /\ stopping = "disconnect" /\ ~overtaken => presence # "online"

\* The requests are among the topics since before the session was looked at.
RequestsInOrder ==
    /\ rpcAsked = (rpc # "append")
    /\ wire /\ online /\ net # "connected" /\ rpc = "listening" => rpcHeard

MqttShapes ==
    /\ wire \in BOOLEAN /\ online \in BOOLEAN /\ rpcHeard \in BOOLEAN /\ rpcAsked \in BOOLEAN
    /\ net \in {"none", "connected", "repeat"}
    /\ rpc \in {"append", "check", "listening"}
    /\ overtaken \in BOOLEAN

MqttInv == MqttShapes /\ SessionInOrder /\ RequestsInOrder

LEMMA MqttInit == Mqtt!Init => MqttInv
BY DEF Mqtt!Init, MqttInv, MqttShapes, SessionInOrder, RequestsInOrder

\* The steps of the network thread: a connection, its callback, what paho repeats, its
\* end.
LEMMA NetworkStep == MqttInv /\ Mqtt!Network => MqttInv'
<1> SUFFICES ASSUME MqttInv, Mqtt!Network PROVE MqttInv'
  OBVIOUS
<1>1. CASE Mqtt!Connect
  BY <1>1 DEF Mqtt!Connect, MqttInv, MqttShapes, SessionInOrder, RequestsInOrder
<1>2. CASE Mqtt!OnConnect
  <2>1. UNCHANGED <<wire, online, rpcAsked, rpc, stopping>> /\ net' \in {"none", "repeat"}
    BY <1>2 DEF Mqtt!OnConnect
  <2>2. IF wire /\ online THEN presence' = "online" /\ overtaken' = (stopping = "disconnect")
        ELSE UNCHANGED <<presence, overtaken>>
    BY <1>2 DEF Mqtt!OnConnect, Mqtt!Announce, Mqtt!Says, MqttInv, MqttShapes
  <2>3. rpcHeard' = (rpcHeard \/ (wire /\ online /\ rpcAsked))
    BY <1>2 DEF Mqtt!OnConnect, Mqtt!Resubscribe
  <2>4. MqttShapes'
    BY <2>1, <2>2, <2>3 DEF MqttInv, MqttShapes
  <2>5. SessionInOrder'
    BY <2>1, <2>2 DEF MqttInv, MqttShapes, SessionInOrder
  <2>6. RequestsInOrder'
    BY <2>1, <2>3 DEF MqttInv, MqttShapes, RequestsInOrder
  <2> QED
    BY <2>4, <2>5, <2>6 DEF MqttInv
<1>3. CASE Mqtt!Repeat
  BY <1>3 DEF Mqtt!Repeat, Mqtt!statusVars, MqttInv, MqttShapes, SessionInOrder,
              RequestsInOrder
<1>4. CASE Mqtt!OnDisconnect
  BY <1>4 DEF Mqtt!OnDisconnect, Mqtt!brokerVars, Mqtt!statusVars, MqttInv, MqttShapes,
              SessionInOrder, RequestsInOrder
<1> QED
  BY <1>1, <1>2, <1>3, <1>4 DEF Mqtt!Network

\* The thread of the requests extends the list first, and then subscribes if there
\* is a session.
LEMMA SubscribeStep == MqttInv /\ Mqtt!RpcStarts => MqttInv'
<1> SUFFICES ASSUME MqttInv, Mqtt!RpcStarts PROVE MqttInv'
  OBVIOUS
<1>1. UNCHANGED <<wire, presence, overtaken, online, stopping, net>>
  BY DEF Mqtt!RpcStarts, Mqtt!sessionVars, Mqtt!statusVars
<1>2. CASE rpc = "append" /\ rpcAsked' = TRUE /\ rpc' = "check" /\ UNCHANGED rpcHeard
  BY <1>1, <1>2 DEF MqttInv, MqttShapes, SessionInOrder, RequestsInOrder
<1>3. CASE /\ rpc = "check" /\ rpc' = "listening"
           /\ rpcHeard' = (rpcHeard \/ (online /\ wire))
           /\ UNCHANGED rpcAsked
  BY <1>1, <1>3 DEF MqttInv, MqttShapes, SessionInOrder, RequestsInOrder
<1> QED
  BY <1>2, <1>3 DEF Mqtt!RpcStarts, Mqtt!Subscribe

\* What starts or monitors the session looks at it and leaves it alone.
LEMMA AloneStep ==
    ASSUME MqttInv,
           UNCHANGED <<wire, presence, overtaken, rpcHeard, online, stopping, net, rpcAsked, rpc>>
    PROVE  MqttInv'
BY DEF MqttInv, MqttShapes, SessionInOrder, RequestsInOrder

LEMMA EndOfSessionStep == MqttInv /\ (Mqtt!Lose \/ Mqtt!Restart) => MqttInv'
<1> SUFFICES ASSUME MqttInv, Mqtt!Lose \/ Mqtt!Restart PROVE MqttInv'
  OBVIOUS
<1>1. CASE Mqtt!Lose
  BY <1>1 DEF Mqtt!Lose, Mqtt!Cut, Mqtt!sessionVars, MqttInv, MqttShapes, SessionInOrder,
     RequestsInOrder
<1>2. CASE Mqtt!Restart
  BY <1>2 DEF Mqtt!Restart, Mqtt!Cut, Mqtt!Booted, MqttInv, MqttShapes, SessionInOrder,
     RequestsInOrder
<1> QED
  BY <1>1, <1>2

\* stop, step by step: what it says, the disconnection, the end of the loop, the flags.
LEMMA StopStep == MqttInv /\ (Mqtt!StopPublishes \/ Mqtt!Stopping) => MqttInv'
<1> SUFFICES ASSUME MqttInv, Mqtt!StopPublishes \/ Mqtt!Stopping PROVE MqttInv'
  OBVIOUS
<1>1. CASE Mqtt!StopPublishes
  <2>1. UNCHANGED <<wire, online, rpcHeard, net, rpcAsked, rpc>> /\ stopping' = "disconnect"
    BY <1>1 DEF Mqtt!StopPublishes
  <2>2. IF wire /\ online THEN presence' = "offline" /\ overtaken' = FALSE
        ELSE UNCHANGED presence /\ overtaken' = (overtaken \/ wire)
    BY <1>1 DEF Mqtt!StopPublishes, Mqtt!Says, MqttInv, MqttShapes
  <2> QED
    BY <2>1, <2>2 DEF MqttInv, MqttShapes, SessionInOrder, RequestsInOrder
<1>2. CASE Mqtt!StopDisconnects
  BY <1>2 DEF Mqtt!StopDisconnects, Mqtt!statusVars, MqttInv, MqttShapes, SessionInOrder,
              RequestsInOrder
<1>3. CASE Mqtt!StopJoins
  BY <1>3 DEF Mqtt!StopJoins, Mqtt!brokerVars, Mqtt!statusVars, MqttInv, MqttShapes,
              SessionInOrder, RequestsInOrder
<1>4. CASE Mqtt!Stopped
  BY <1>4 DEF Mqtt!Stopped, Mqtt!brokerVars, Mqtt!statusVars, MqttInv, MqttShapes,
              SessionInOrder, RequestsInOrder
<1> QED
  BY <1>1, <1>2, <1>3, <1>4 DEF Mqtt!Stopping

LEMMA MqttNext == MqttInv /\ (Mqtt!Next \/ UNCHANGED ofMqtt) => MqttInv'
<1> SUFFICES ASSUME MqttInv, (Mqtt!Next \/ UNCHANGED ofMqtt) PROVE MqttInv'
  OBVIOUS
<1>1. CASE Mqtt!Network
  BY <1>1, NetworkStep
<1>2. CASE Mqtt!RpcStarts
  BY <1>2, SubscribeStep
<1>3. CASE Mqtt!Lose \/ Mqtt!Restart
  BY <1>3, EndOfSessionStep
<1>4. CASE Mqtt!StopPublishes \/ Mqtt!Stopping
  BY <1>4, StopStep
<1>5. CASE Mqtt!Call \/ Mqtt!Started \/ Mqtt!Confirm
  BY <1>5, AloneStep
  DEF Mqtt!Call, Mqtt!Started, Mqtt!Confirm, Mqtt!brokerVars, Mqtt!statusVars
<1>6. CASE Mqtt!MailMonitor
  <2>1. CASE Mqtt!CheckMail
    BY <2>1, AloneStep DEF Mqtt!CheckMail, Mqtt!brokerVars, Mqtt!statusVars
  <2>2. CASE Mqtt!SendHealth
    BY <2>2, AloneStep DEF Mqtt!SendHealth, Mqtt!sessionVars, Mqtt!statusVars
  <2> QED
    BY <1>6, <2>1, <2>2 DEF Mqtt!MailMonitor
<1>7. CASE Mqtt!SwitchOn \/ Mqtt!MailServerChanges
  BY <1>7, AloneStep
  DEF Mqtt!SwitchOn, Mqtt!MailServerChanges, Mqtt!brokerVars, Mqtt!statusVars, Mqtt!sessionVars
<1>8. CASE UNCHANGED ofMqtt
  BY <1>8, AloneStep DEF ofMqtt
<1> QED
  BY <1>1, <1>2, <1>3, <1>4, <1>5, <1>6, <1>7, <1>8
  DEF Mqtt!Next, Mqtt!Threads, Mqtt!Environment

-----------------------------------------------------------------------------
(***************************************************************************)
(* The collector of the Janitza analysers                                  *)
(***************************************************************************)
Stages == {"asleep", "next", "ratios", "electrical", "powers", "lost", "failed", "store"}
Turn == [at : Stages, analyzer : Analyzers \cup {Analyzer!Resting.analyzer},
         todo : SUBSET Analyzers, current : Analyzer!Item, ratios : BOOLEAN]

\* The file and the memory agree, and the turn of an analyser knows that its ratios
\* were learnt, though the item it has is the one of its beginning.
AnalyzerInv ==
    /\ items \in [Analyzers -> Analyzer!Item] /\ itemsFile = items
    /\ turn \in Turn
    /\ turn.at \notin {"asleep", "next"} =>
           turn.analyzer \in Analyzers /\ (items[turn.analyzer].ratios => turn.ratios)

LEMMA Rests == Analyzer!Resting \in Turn /\ Analyzer!Resting.at = "asleep"
BY DEF Analyzer!Resting, Analyzer!Pending, Analyzer!Item, Turn, Stages

LEMMA AnalyzerInit == Analyzer!Init => AnalyzerInv
BY Rests DEF Analyzer!Init, AnalyzerInv, Analyzer!Pending, Analyzer!Item

\* What is kept of the ratios when nothing is stored.
LEMMA ItemsStay ==
    ASSUME AnalyzerInv, UNCHANGED <<items, itemsFile>>, turn' \in Turn,
           turn'.at \notin {"asleep", "next"} =>
               turn'.analyzer \in Analyzers /\ (items[turn'.analyzer].ratios => turn'.ratios)
    PROVE  AnalyzerInv' /\ Analyzer!RatiosAreKept
BY DEF AnalyzerInv, Analyzer!RatiosAreKept

\* An item that is stored knows of the ratios if the one before it did.
LEMMA UpdateStep ==
    ASSUME AnalyzerInv, NEW item \in Analyzer!Item, Analyzer!Update(turn.analyzer, item),
           turn.at \notin {"asleep", "next"}, turn.ratios => item.ratios, turn' \in Turn,
           turn'.at # "next" => turn'.analyzer = turn.analyzer /\ turn'.ratios
    PROVE  AnalyzerInv' /\ Analyzer!RatiosAreKept
<1>1. items' = [items EXCEPT ![turn.analyzer] = item] /\ itemsFile' = items'
      /\ turn.analyzer \in Analyzers
  BY DEF Analyzer!Update, AnalyzerInv
<1>2. items' \in [Analyzers -> Analyzer!Item]
  BY <1>1 DEF AnalyzerInv
<1>3. Analyzer!RatiosAreKept
  BY <1>1 DEF AnalyzerInv, Analyzer!RatiosAreKept
<1> QED
  BY <1>1, <1>2, <1>3 DEF AnalyzerInv

\* The thread wakes, goes to sleep, takes the next analyser, or reads its values.
LEMMA TurnStep ==
    ASSUME AnalyzerInv,
           Analyzer!Wake \/ Analyzer!Sleep \/ (\E a \in Analyzers : Analyzer!Collect(a))
                        \/ Analyzer!Withdraw \/ Analyzer!ReadValues \/ Analyzer!StoreFails
    PROVE  AnalyzerInv' /\ Analyzer!RatiosAreKept
<1> USE DEF AnalyzerInv, Turn, Stages
<1>1. CASE Analyzer!Wake
  BY <1>1, ItemsStay DEF Analyzer!Wake
<1>2. CASE Analyzer!Sleep
  BY <1>2, ItemsStay, Rests DEF Analyzer!Sleep
<1>3. ASSUME NEW a \in Analyzers, Analyzer!Collect(a)
      PROVE  AnalyzerInv' /\ Analyzer!RatiosAreKept
  <2>1. /\ turn' = [turn EXCEPT !.at = "ratios", !.analyzer = a, !.todo = turn.todo \ {a},
                                !.current = items[a], !.ratios = items[a].ratios]
        /\ UNCHANGED <<items, itemsFile>>
    BY <1>3 DEF Analyzer!Collect
  <2>2. items[a] \in Analyzer!Item /\ items[a].ratios \in BOOLEAN
    BY DEF Analyzer!Item
  <2>3. turn' \in Turn /\ turn'.analyzer = a /\ turn'.ratios = items[a].ratios
    BY <2>1, <2>2
  <2> QED
    BY <2>1, <2>3, ItemsStay
<1>4. CASE Analyzer!Withdraw \/ Analyzer!ReadValues \/ Analyzer!StoreFails
  <2>1. /\ UNCHANGED <<items, itemsFile>> /\ turn.at \notin {"asleep", "next"}
        /\ \E at \in {"next", "powers", "store", "lost", "failed"} : Analyzer!Continue(at)
    BY <1>4 DEF Analyzer!Withdraw, Analyzer!ReadValues, Analyzer!StoreFails
  <2>2. PICK at \in {"next", "powers", "store", "lost", "failed"} : Analyzer!Continue(at)
    BY <2>1
  <2>3. turn' \in Turn /\ turn'.analyzer = turn.analyzer /\ turn'.ratios = turn.ratios
    BY <2>2 DEF Analyzer!Continue
  <2> QED
    BY <2>1, <2>3, ItemsStay
<1> QED
  BY <1>1, <1>2, <1>3, <1>4

LEMMA LoadRatiosStep ==
    ASSUME AnalyzerInv, Analyzer!LoadRatios PROVE AnalyzerInv' /\ Analyzer!RatiosAreKept
<1> USE DEF Turn, Stages
<1>0. turn.at = "ratios" /\ turn \in Turn
  BY DEF Analyzer!LoadRatios, AnalyzerInv
<1>1. CASE /\ UNCHANGED <<items, itemsFile>>
           /\ Analyzer!Continue("electrical") \/ Analyzer!Continue("lost")
  <2>1. turn' \in Turn /\ turn'.analyzer = turn.analyzer /\ turn'.ratios = turn.ratios
    BY <1>0, <1>1 DEF Analyzer!Continue
  <2> QED
    BY <1>0, <1>1, <2>1, ItemsStay DEF AnalyzerInv
<1>2. CASE /\ Analyzer!Update(turn.analyzer, [turn.current EXCEPT !.ratios = TRUE])
           /\ turn' = [turn EXCEPT !.at = "electrical", !.ratios = TRUE]
  <2> DEFINE item == [turn.current EXCEPT !.ratios = TRUE]
  <2>1. item \in Analyzer!Item /\ item.ratios
    BY <1>0 DEF Analyzer!Item
  <2>2. /\ turn' \in Turn /\ turn'.analyzer = turn.analyzer /\ turn'.ratios
    BY <1>0, <1>2
  <2> HIDE DEF item
  <2>3. Analyzer!Update(turn.analyzer, item)
    BY <1>2 DEF item
  <2> QED
    BY <1>0, <2>1, <2>2, <2>3, UpdateStep
<1> QED
  BY <1>1, <1>2 DEF Analyzer!LoadRatios

LEMMA StoreStep ==
    ASSUME AnalyzerInv, Analyzer!Store PROVE AnalyzerInv' /\ Analyzer!RatiosAreKept
<1> USE DEF Turn, Stages
<1>1. PICK item \in {Analyzer!Measurement, Analyzer!Failure} : Analyzer!Update(turn.analyzer, item)
  BY DEF Analyzer!Store
<1>2. /\ turn.at \in {"store", "failed", "lost"} /\ turn \in Turn
      /\ turn' = [turn EXCEPT !.at = "next"]
  BY DEF Analyzer!Store, Analyzer!Continue, AnalyzerInv
<1>3. Analyzer!Measurement \in Analyzer!Item /\ Analyzer!Measurement.ratios
  BY DEF Analyzer!Measurement, Analyzer!Item
<1>4. Analyzer!Failure \in Analyzer!Item /\ (turn.ratios => Analyzer!Failure.ratios)
  BY <1>2 DEF Analyzer!Failure, Analyzer!Item
<1>5. turn' \in Turn /\ turn'.at = "next"
  BY <1>2
<1> QED
  BY <1>1, <1>2, <1>3, <1>4, <1>5, UpdateStep

LEMMA AnalyzerNext ==
    AnalyzerInv /\ (Analyzer!Next \/ UNCHANGED ofAnalyzer)
        => AnalyzerInv' /\ Analyzer!RatiosAreKept
<1> SUFFICES ASSUME AnalyzerInv, Analyzer!Next \/ UNCHANGED ofAnalyzer
             PROVE  AnalyzerInv' /\ Analyzer!RatiosAreKept
  OBVIOUS
<1>1. CASE Analyzer!Restart
  BY <1>1, ItemsStay, Rests DEF Analyzer!Restart, AnalyzerInv
<1>2. ASSUME NEW value \in BOOLEAN, Analyzer!SetEnabled(value)
      PROVE  AnalyzerInv' /\ Analyzer!RatiosAreKept
  BY <1>2, ItemsStay DEF Analyzer!SetEnabled, AnalyzerInv
<1>3. CASE UNCHANGED ofAnalyzer
  BY <1>3, ItemsStay DEF ofAnalyzer, AnalyzerInv
<1> QED
  BY <1>1, <1>2, <1>3, TurnStep, LoadRatiosStep, StoreStep
  DEF Analyzer!Next, Analyzer!Step, Analyzer!Environment

-----------------------------------------------------------------------------
(***************************************************************************)
(* The external check of a port                                            *)
(***************************************************************************)
Results == {"pendiente", "conectado", "desconectado", "error_nodo"}
Checking == [at : {"idle", "nodes", "start", "poll"},
             provider : {"globalping", "check-host", Primary}, number : Nat \ {0},
             excluded : SUBSET Probes, selected : SUBSET Probes,
             nodes : [Probes -> Results], failing : BOOLEAN]

ProbeShapes ==
    /\ answering \in BOOLEAN
    /\ outcome \in [Probes -> Results]
    /\ listed \subseteq Probes
    /\ check \in Checking

\* Who is asked was not asked before: Globalping, and the first attempt of
\* Check-Host, have nobody to leave out.
BatchInOrder ==
    /\ check.provider # "check-host" \/ check.number = 1 => check.excluded = {}
    /\ check.at = "poll" => /\ check.selected # {}
                            /\ Cardinality(check.selected) <= MaxNodes
                            /\ check.selected \cap check.excluded = {}
    /\ check.at # "poll" => check.nodes = Probe!Pending

\* What a probe found the port was during this check, and so was what a poll told
\* of it; a probe that failed may only connect yet.
FoundInOrder ==
    check.at # "idle" => answering \in witnessed

OutcomesInOrder ==
    check.at = "poll" =>
        \A n \in Probes :
            /\ outcome[n] = "conectado" => TRUE \in witnessed
            /\ outcome[n] = "desconectado" => FALSE \in witnessed /\ n \in shut
            /\ check.nodes[n] = "conectado" => TRUE \in witnessed
            /\ check.nodes[n] = "desconectado" => FALSE \in witnessed /\ n \in shut

\* A failure is counted from a poll that found the whole batch failing.
FailureInOrder == check.failing => check.at = "poll" /\ lasting

ProbeInv == ProbeShapes /\ BatchInOrder /\ FoundInOrder /\ OutcomesInOrder /\ FailureInOrder

\* The size of a set is the same for PortProbe, which has an operator of its own for it.
LEMMA SizeOfBatch == \A S : Probe!Cardinality(S) = Cardinality(S)
BY DEF Probe!Cardinality, Cardinality

LEMMA NoChecks ==
    /\ Probe!Pending \in [Probes -> Results]
    /\ Probe!NoCheck = [at |-> "idle", provider |-> Primary, number |-> 1, excluded |-> {},
                        selected |-> {}, nodes |-> Probe!Pending, failing |-> FALSE]
    /\ Probe!NoCheck \in Checking
BY DEF Probe!Pending, Probe!NoCheck, Results, Checking

LEMMA ProbeInit == Probe!Init => ProbeInv
BY NoChecks DEF Probe!Init, ProbeInv, ProbeShapes, BatchInOrder, FoundInOrder, OutcomesInOrder,
   FailureInOrder

\* The check is not at its polls: the probes have nothing to do with it.
LEMMA BetweenPolls ==
    ASSUME ProbeInv, UNCHANGED <<answering, witnessed>>, outcome' \in [Probes -> Results],
           listed' \subseteq Probes, check' \in Checking, check'.at # "poll",
           check'.at = "idle" \/ check.at # "idle", check'.nodes = Probe!Pending,
           ~check'.failing,
           check'.provider # "check-host" \/ check'.number = 1 => check'.excluded = {}
    PROVE  ProbeInv'
BY DEF ProbeInv, ProbeShapes, BatchInOrder, FoundInOrder, OutcomesInOrder,
   FailureInOrder

-----------------------------------------------------------------------------
(* How an attempt ends *)

\* The check is over with this verdict, or goes on with the other provider.
LEMMA VerdictStep ==
    ASSUME ProbeInv, NEW v, Probe!Verdict(v), UNCHANGED <<answering, witnessed>>,
           check.at # "idle", outcome' \in [Probes -> Results], listed' \subseteq Probes
    PROVE  ProbeInv' /\ (check'.at = "idle" => state' = v)
<1>1. CASE check' = [Probe!NoCheck EXCEPT !.at = "nodes", !.provider = "check-host"]
  <2>1. check' = [at |-> "nodes", provider |-> "check-host", number |-> 1, excluded |-> {},
                  selected |-> {}, nodes |-> Probe!Pending, failing |-> FALSE]
    BY <1>1, NoChecks
  <2>2. check' \in Checking
    BY <2>1, NoChecks DEF Checking
  <2> QED
    BY <2>1, <2>2, BetweenPolls
<1>2. CASE check' = Probe!NoCheck /\ state' = v
  BY <1>2, NoChecks, BetweenPolls
<1> QED
  BY <1>1, <1>2 DEF Probe!Verdict

\* An attempt is over: the next one leaves out who was asked.
LEMMA AttemptedStep ==
    ASSUME ProbeInv, NEW v, NEW excluded \in SUBSET Probes, Probe!Attempted(v, excluded),
           UNCHANGED <<answering, witnessed>>, check.at # "idle",
           outcome' \in [Probes -> Results], listed' \subseteq Probes
    PROVE  ProbeInv' /\ (check'.at = "idle" => state' = v)
<1>1. CASE check' = [Probe!NoCheck EXCEPT !.at = "start", !.provider = "check-host",
                                          !.number = check.number + 1, !.excluded = excluded]
  <2> DEFINE n == check.number + 1
  <2>1. n \in Nat /\ n > 1
    BY DEF ProbeInv, ProbeShapes, Checking
  <2>2. check' = [at |-> "start", provider |-> "check-host", number |-> n,
                  excluded |-> excluded, selected |-> {}, nodes |-> Probe!Pending,
                  failing |-> FALSE]
    BY <1>1, NoChecks
  <2> HIDE DEF n
  <2>3. check' \in Checking
    BY <2>1, <2>2, NoChecks DEF Checking
  <2> QED
    BY <2>1, <2>2, <2>3, BetweenPolls
<1>2. CASE Probe!Verdict(v)
  BY <1>2, VerdictStep
<1> QED
  BY <1>1, <1>2 DEF Probe!Attempted

-----------------------------------------------------------------------------
(* The port, the providers, and the beginning of a check *)

LEMMA ToggleStep == ProbeInv /\ Probe!Toggle => ProbeInv'
<1>1. Probe!Toggle => UNCHANGED <<check, lasting>>
  BY DEF Probe!Toggle
<1>2. ProbeInv /\ check' = check /\ lasting' = lasting => FailureInOrder'
  BY DEF ProbeInv, FailureInOrder
<1> QED
  BY <1>1, <1>2
  DEF Probe!Toggle, ProbeInv, ProbeShapes, BatchInOrder, FoundInOrder, OutcomesInOrder

LEMMA MeasureStep ==
    ASSUME ProbeInv, NEW n \in Probes, Probe!Measure(n) PROVE ProbeInv'
<1>1. PICK found \in {"conectado", "desconectado", "error_nodo"} :
        /\ outcome' = [outcome EXCEPT ![n] = found]
        /\ found = "conectado" => answering
        /\ found = "desconectado" => ~answering
        /\ shut' = shut \cup {m \in {n} : outcome'[m] = "desconectado"}
  BY DEF Probe!Measure
<1>2. UNCHANGED <<answering, listed, check, witnessed, lasting>> /\ check.at = "poll"
  BY DEF Probe!Measure
<1>3. ProbeShapes' /\ BatchInOrder' /\ FoundInOrder' /\ FailureInOrder'
  BY <1>1, <1>2 DEF ProbeInv, ProbeShapes, BatchInOrder, FoundInOrder, FailureInOrder, Results
<1>4. ASSUME NEW m \in Probes
      PROVE  /\ outcome'[m] = "conectado" => TRUE \in witnessed'
             /\ outcome'[m] = "desconectado" => FALSE \in witnessed' /\ m \in shut'
             /\ check'.nodes[m] = "conectado" => TRUE \in witnessed'
             /\ check'.nodes[m] = "desconectado" => FALSE \in witnessed' /\ m \in shut'
  <2>1. /\ outcome[m] = "conectado" => TRUE \in witnessed
        /\ outcome[m] = "desconectado" => FALSE \in witnessed /\ m \in shut
        /\ check.nodes[m] = "conectado" => TRUE \in witnessed
        /\ check.nodes[m] = "desconectado" => FALSE \in witnessed /\ m \in shut
    BY <1>2 DEF ProbeInv, OutcomesInOrder
  <2>2. (answering => TRUE \in witnessed) /\ (~answering => FALSE \in witnessed)
    BY <1>2 DEF ProbeInv, ProbeShapes, FoundInOrder
  <2>3. outcome'[m] = IF m = n THEN found ELSE outcome[m]
    BY <1>1 DEF ProbeInv, ProbeShapes
  <2>4. shut \subseteq shut' /\ (m = n /\ found = "desconectado" => m \in shut')
    BY <1>1, <2>3
  <2> QED
    BY <1>1, <1>2, <2>1, <2>2, <2>3, <2>4
<1>5. OutcomesInOrder'
  BY <1>4 DEF OutcomesInOrder
<1> QED
  BY <1>3, <1>5 DEF ProbeInv

LEMMA CheckBeginsStep ==
    ProbeInv /\ (Probe!Begin \/ Probe!RefreshNodes \/ Probe!Expire) => ProbeInv'
<1> SUFFICES ASSUME ProbeInv, Probe!Begin \/ Probe!RefreshNodes \/ Probe!Expire PROVE ProbeInv'
  OBVIOUS
<1>1. CASE Probe!Begin
  <2>1. PICK at \in {"start", "nodes"} : check' = [Probe!NoCheck EXCEPT !.at = at]
    BY <1>1 DEF Probe!Begin
  <2>2. check' \in Checking /\ check'.at = at /\ check'.excluded = {}
        /\ check'.nodes = Probe!Pending /\ ~check'.failing
    BY <2>1, NoChecks DEF Checking
  <2> QED
    BY <1>1, <2>2
    DEF Probe!Begin, ProbeInv, ProbeShapes, BatchInOrder, FoundInOrder, OutcomesInOrder,
   FailureInOrder
<1>2. CASE Probe!RefreshNodes
  <2>1. /\ UNCHANGED <<answering, outcome, witnessed>> /\ check.at = "nodes"
        /\ check' = [check EXCEPT !.at = "start"] /\ listed' \subseteq Probes
    BY <1>2 DEF Probe!RefreshNodes, ProbeInv, ProbeShapes
  <2>2. /\ check' \in Checking /\ check'.at = "start" /\ check'.provider = check.provider
        /\ check'.number = check.number /\ check'.excluded = check.excluded
        /\ check'.nodes = check.nodes
    BY <2>1 DEF ProbeInv, ProbeShapes, Checking
  <2>3. ~check'.failing
    BY <2>1 DEF ProbeInv, ProbeShapes, Checking, FailureInOrder
  <2> QED
    BY <2>1, <2>2, <2>3, BetweenPolls DEF ProbeInv, ProbeShapes, BatchInOrder
<1>3. CASE Probe!Expire
  BY <1>3 DEF Probe!Expire, ProbeInv, ProbeShapes, BatchInOrder, FoundInOrder, OutcomesInOrder,
   FailureInOrder
<1> QED
  BY <1>1, <1>2, <1>3

LEMMA StartStep == ProbeInv /\ Probe!StartCheck => ProbeInv' /\ Probe!Witnessed
<1> SUFFICES ASSUME ProbeInv, Probe!StartCheck PROVE ProbeInv' /\ Probe!Witnessed
  OBVIOUS
<1>1. /\ UNCHANGED <<answering, listed, witnessed>> /\ check.at = "start"
      /\ outcome' = Probe!Pending
  BY DEF Probe!StartCheck
<1>2. PICK candidates \in SUBSET Probes :
        /\ candidates \cap check.excluded = {}
        /\ \/ \E selected \in (SUBSET candidates) \ {{}} :
                /\ Cardinality(selected) <= MaxNodes
                /\ check' = [check EXCEPT !.at = "poll", !.selected = selected]
           \/ \E excluded \in SUBSET Probes : Probe!Attempted("desconocido", excluded)
           \/ Probe!Verdict("desconocido")
  <2>1. PICK candidates \in IF Probe!ProviderChooses THEN {Probes} ELSE Probe!Candidates \ {{}} :
          \/ \E selected \in (SUBSET candidates) \ {{}} :
                /\ Probe!Cardinality(selected) <= MaxNodes
                /\ check' = [check EXCEPT !.at = "poll", !.selected = selected]
          \/ Probe!Attempted("desconocido", check.excluded \cup
                                     (IF Probe!ProviderChooses THEN {} ELSE candidates))
          \/ Probe!Verdict("desconocido")
    BY DEF Probe!StartCheck
  <2>2. candidates \in SUBSET Probes /\ candidates \cap check.excluded = {}
    <3>1. CASE Probe!ProviderChooses
      BY <2>1, <3>1 DEF Probe!ProviderChooses, ProbeInv, BatchInOrder
    <3>2. CASE ~Probe!ProviderChooses
      BY <2>1, <3>2 DEF Probe!Candidates, Probe!Eligible, ProbeInv, ProbeShapes
    <3> QED
      BY <3>1, <3>2
  <2>3. check.excluded \cup (IF Probe!ProviderChooses THEN {} ELSE candidates) \in SUBSET Probes
    BY <2>2 DEF ProbeInv, ProbeShapes, Checking
  <2> QED
    BY <2>1, <2>2, <2>3, SizeOfBatch
<1>3. outcome' \in [Probes -> Results] /\ listed' \subseteq Probes
  BY <1>1, NoChecks DEF ProbeInv, ProbeShapes
<1>4. Probe!Witnessed
  BY <1>1 DEF Probe!Witnessed
<1>5. ASSUME NEW selected \in (SUBSET candidates) \ {{}}, Cardinality(selected) <= MaxNodes,
             check' = [check EXCEPT !.at = "poll", !.selected = selected]
      PROVE  ProbeInv'
  <2>1. /\ check' \in Checking /\ check'.at = "poll" /\ check'.selected = selected
        /\ check'.excluded = check.excluded /\ check'.provider = check.provider
        /\ check'.number = check.number /\ check'.nodes = check.nodes
    BY <1>2, <1>5 DEF ProbeInv, ProbeShapes, Checking
  <2>2. ~check'.failing
    BY <1>1, <1>5 DEF ProbeInv, ProbeShapes, Checking, FailureInOrder
  <2> QED
    BY <1>1, <1>2, <1>3, <1>5, <2>1, <2>2
    DEF ProbeInv, ProbeShapes, BatchInOrder, FoundInOrder, OutcomesInOrder, FailureInOrder,
        Probe!Pending
<1> QED
  BY <1>1, <1>2, <1>3, <1>4, <1>5, AttemptedStep, VerdictStep

LEMMA NoneLeftStep == ProbeInv /\ Probe!NoneLeft => ProbeInv' /\ Probe!Witnessed
<1> SUFFICES ASSUME ProbeInv, Probe!NoneLeft PROVE ProbeInv' /\ Probe!Witnessed
  OBVIOUS
<1>1. /\ UNCHANGED <<answering, outcome, listed, witnessed>> /\ check.at = "start"
      /\ Probe!Verdict("desconocido")
  BY DEF Probe!NoneLeft
<1>2. outcome' \in [Probes -> Results] /\ listed' \subseteq Probes
  BY <1>1 DEF ProbeInv, ProbeShapes
<1> QED
  BY <1>1, <1>2, VerdictStep DEF Probe!Witnessed

-----------------------------------------------------------------------------
(* The polls *)

\* What a poll tells of a probe, or an earlier one told, the port was.
Told(nodes) ==
    /\ nodes \in [Probes -> Results]
    /\ \A n \in Probes :
         /\ nodes[n] = "conectado" => TRUE \in witnessed
         /\ nodes[n] = "desconectado" => FALSE \in witnessed /\ n \in shut

LEMMA LatestIsTold ==
    ASSUME ProbeInv, check.at = "poll", NEW answer \in Probe!Answers
    PROVE  Told(Probe!Latest(answer))
<1>1. /\ answer \in [Probes -> Results]
      /\ \A n \in Probes : answer[n] = "pendiente" \/ answer[n] = outcome[n]
  BY DEF Probe!Answers, Probe!Fetched, Results
<1>2. ASSUME NEW n \in Probes
      PROVE  /\ outcome[n] = "conectado" => TRUE \in witnessed
             /\ outcome[n] = "desconectado" => FALSE \in witnessed /\ n \in shut
             /\ check.nodes[n] = "conectado" => TRUE \in witnessed
             /\ check.nodes[n] = "desconectado" => FALSE \in witnessed /\ n \in shut
             /\ check.nodes[n] \in Results
  BY DEF ProbeInv, ProbeShapes, OutcomesInOrder, Checking
<1>3. CASE check.provider # "check-host"
  BY <1>1, <1>2, <1>3 DEF Probe!Latest, Told
<1>4. CASE check.provider = "check-host"
  <2>1. Probe!Latest(answer) = [n \in Probes |-> Probe!Merged(n, answer)]
    BY <1>4 DEF Probe!Latest
  <2>2. ASSUME NEW n \in Probes
        PROVE  /\ Probe!Merged(n, answer) \in Results
               /\ Probe!Merged(n, answer) \in {check.nodes[n], answer[n]}
    BY <1>1, <1>2 DEF Probe!Merged
  <2> QED
    BY <1>1, <1>2, <2>1, <2>2 DEF Told
<1> QED
  BY <1>3, <1>4

\* A probe of the batch connected if their count is not zero.
LEMMA SomeConnected ==
    ASSUME NEW nodes, Probe!Count(nodes, "conectado") > 0
    PROVE  \E n \in check.selected : nodes[n] = "conectado"
<1> SUFFICES ASSUME ~\E n \in check.selected : nodes[n] = "conectado" PROVE FALSE
  OBVIOUS
<1>1. {n \in check.selected : nodes[n] = "conectado"} = {}
  OBVIOUS
<1>2. Probe!Count(nodes, "conectado") = 0
  BY <1>1, SizeOfBatch, FS_EmptySet DEF Probe!Count
<1> QED
  BY <1>2

\* Those that failed are the whole of a full batch.
LEMMA FullBatch ==
    ASSUME ProbeInv, check.at = "poll", NEW nodes, Probe!AllFailed(nodes)
    PROVE  /\ \A n \in check.selected : nodes[n] = "desconectado"
           /\ Cardinality(check.selected) = MaxNodes
<1> DEFINE failed == {n \in check.selected : nodes[n] = "desconectado"}
<1>1. Cardinality(failed) = MaxNodes
  BY SizeOfBatch DEF Probe!AllFailed, Probe!Count
<1>2. IsFiniteSet(check.selected) /\ Cardinality(check.selected) <= MaxNodes
  BY ProbesAssumption, FS_Subset DEF ProbeInv, ProbeShapes, Checking, BatchInOrder
<1>3. /\ Cardinality(failed) <= Cardinality(check.selected)
      /\ Cardinality(check.selected) = Cardinality(failed) => check.selected = failed
  BY <1>2, FS_Subset
<1>4. Cardinality(check.selected) \in Nat /\ MaxNodes \in Nat
  BY <1>2, FS_CardinalityType, ProbesAssumption
<1>5. Cardinality(check.selected) = MaxNodes
  BY <1>1, <1>2, <1>3, <1>4
<1> QED
  BY <1>1, <1>3, <1>5

\* Polling goes on, and remembers what it was told.
LEMMA PollGoesOn ==
    ASSUME ProbeInv, check.at = "poll", NEW nodes, Told(nodes), NEW failing \in BOOLEAN,
           check' = [check EXCEPT !.nodes = nodes, !.failing = failing],
           failing => lasting', UNCHANGED <<answering, outcome, listed, witnessed, shut>>
    PROVE  ProbeInv' /\ Probe!Witnessed
<1>1. /\ check' \in Checking /\ check'.at = "poll" /\ check'.nodes = nodes
      /\ check'.provider = check.provider /\ check'.number = check.number
      /\ check'.excluded = check.excluded /\ check'.selected = check.selected
  BY DEF ProbeInv, ProbeShapes, Checking, Told
<1>2. check'.failing = failing
  BY DEF ProbeInv, ProbeShapes, Checking
<1> QED
  BY <1>1, <1>2 DEF ProbeInv, ProbeShapes, BatchInOrder, FoundInOrder, OutcomesInOrder,
   FailureInOrder, Told,
              Probe!Witnessed

\* An attempt that comes to a verdict, or to none, ends the polls.
LEMMA ConcludedStep ==
    ASSUME ProbeInv, check.at = "poll", NEW v, NEW nodes, Probe!Concluded(v, nodes),
           UNCHANGED <<answering, outcome, listed, witnessed>>,
           v = "abierto" => TRUE \in witnessed,
           v = "cerrado" => /\ Told(nodes) /\ lasting
                            /\ \A n \in check.selected : nodes[n] = "desconectado"
                            /\ Cardinality(check.selected) = MaxNodes
    PROVE  ProbeInv' /\ Probe!Witnessed
<1>1. /\ Probe!Attempted(v, check.excluded \cup check.selected)
      /\ check.excluded \cup check.selected \in SUBSET Probes
      /\ outcome' \in [Probes -> Results] /\ listed' \subseteq Probes
  BY DEF Probe!Concluded, ProbeInv, ProbeShapes, Checking
<1>2. ProbeInv' /\ (check'.at = "idle" => state' = v)
  BY <1>1, AttemptedStep
<1>3. ASSUME v = "cerrado"
      PROVE  /\ FALSE \in witnessed
             /\ check.selected \cap check.excluded = {}
             /\ check.selected \subseteq shut
             /\ Cardinality(check.selected) = MaxNodes
             /\ lasting
  BY <1>3 DEF ProbeInv, ProbeShapes, BatchInOrder, Checking, Told
<1> QED
  BY <1>2, <1>3, SizeOfBatch DEF Probe!Witnessed

LEMMA PollStep == ProbeInv /\ Probe!Poll => ProbeInv' /\ Probe!Witnessed
<1> SUFFICES ASSUME ProbeInv, Probe!Poll PROVE ProbeInv' /\ Probe!Witnessed
  OBVIOUS
<1>1. check.at = "poll" /\ UNCHANGED <<answering, outcome, listed, witnessed, shut>>
  BY DEF Probe!Poll
<1>2. PICK answer \in Probe!Answers :
        LET nodes == Probe!Latest(answer) IN
        \/ Probe!Count(nodes, "conectado") > 0 /\ Probe!Concluded("abierto", nodes)
        \/ Probe!AllFailed(nodes) /\ check.failing /\ Probe!Concluded("cerrado", nodes)
        \/ Probe!Concluded("desconocido", nodes)
        \/ \E failing \in BOOLEAN :
             /\ check' = [check EXCEPT !.nodes = nodes, !.failing = failing]
             /\ failing => lasting'
  BY DEF Probe!Poll
<1> DEFINE nodes == Probe!Latest(answer)
<1>3. Told(nodes)
  BY <1>1, LatestIsTold
<1> HIDE DEF nodes
<1>4. CASE Probe!Count(nodes, "conectado") > 0 /\ Probe!Concluded("abierto", nodes)
  <2>1. PICK n \in check.selected : nodes[n] = "conectado"
    BY <1>4, SomeConnected
  <2>2. TRUE \in witnessed
    BY <1>3, <2>1 DEF Told, ProbeInv, ProbeShapes, Checking
  <2> QED
    BY <1>1, <1>4, <2>2, ConcludedStep
<1>5. CASE Probe!AllFailed(nodes) /\ check.failing /\ Probe!Concluded("cerrado", nodes)
  <2>1. lasting
    BY <1>1, <1>5 DEF ProbeInv, FailureInOrder
  <2> QED
    BY <1>1, <1>3, <1>5, <2>1, FullBatch, ConcludedStep
<1>6. CASE Probe!Concluded("desconocido", nodes)
  BY <1>1, <1>6, ConcludedStep
<1>7. CASE \E failing \in BOOLEAN :
             /\ check' = [check EXCEPT !.nodes = nodes, !.failing = failing]
             /\ failing => lasting'
  BY <1>1, <1>3, <1>7, PollGoesOn
<1> QED
  BY <1>2, <1>4, <1>5, <1>6, <1>7 DEF nodes

LEMMA DeadlineStep == ProbeInv /\ Probe!Deadline => ProbeInv' /\ Probe!Witnessed
<1> SUFFICES ASSUME ProbeInv, Probe!Deadline PROVE ProbeInv' /\ Probe!Witnessed
  OBVIOUS
<1>1. check.at = "poll" /\ UNCHANGED <<answering, outcome, listed, witnessed>>
  BY DEF Probe!Deadline
<1>2. CASE Probe!Concluded("desconocido", check.nodes)
  BY <1>1, <1>2, ConcludedStep
<1>3. CASE Probe!Verdict("desconocido")
  <2>1. outcome' \in [Probes -> Results] /\ listed' \subseteq Probes
    BY <1>1 DEF ProbeInv, ProbeShapes
  <2>2. ProbeInv' /\ (check'.at = "idle" => state' = "desconocido")
    BY <1>1, <1>3, <2>1, VerdictStep
  <2> QED
    BY <2>2 DEF Probe!Witnessed
<1> QED
  BY <1>2, <1>3 DEF Probe!Deadline

LEMMA ProbeNext ==
    ProbeInv /\ (Probe!Next \/ UNCHANGED ofProbe) => ProbeInv' /\ Probe!Witnessed
<1> SUFFICES ASSUME ProbeInv, Probe!Next \/ UNCHANGED ofProbe PROVE ProbeInv' /\ Probe!Witnessed
  OBVIOUS
<1>1. CASE Probe!Toggle \/ Probe!Begin \/ Probe!RefreshNodes \/ Probe!Expire
  <2>1. Probe!Witnessed
    BY <1>1 DEF Probe!Toggle, Probe!Begin, Probe!RefreshNodes, Probe!Expire, Probe!Witnessed
  <2> QED
    BY <1>1, <2>1, ToggleStep, CheckBeginsStep
<1>2. ASSUME NEW n \in Probes, Probe!Measure(n) PROVE ProbeInv' /\ Probe!Witnessed
  <2>1. Probe!Witnessed
    BY <1>2 DEF Probe!Measure, Probe!Witnessed
  <2> QED
    BY <1>2, <2>1, MeasureStep
<1>3. CASE UNCHANGED ofProbe
  BY <1>3 DEF ofProbe, ProbeInv, ProbeShapes, BatchInOrder, FoundInOrder, OutcomesInOrder,
   FailureInOrder,
              Probe!Witnessed
<1> QED
  BY <1>1, <1>2, <1>3, StartStep, NoneLeftStep, PollStep, DeadlineStep
  DEF Probe!Next, Probe!Step, Probe!Environment

-----------------------------------------------------------------------------
(***************************************************************************)
(* All of them                                                             *)
(***************************************************************************)
BackendsInv == RelayInv /\ AnalyzerInv /\ FlowInv /\ ProbeInv /\ RpcInv /\ MqttInv

\* A step of Backends is one of a service, and to the others nothing happens.
LEMMA StepsOfServices ==
    [Next]_vars =>
        /\ Relay!Next \/ UNCHANGED ofRelay
        /\ Analyzer!Next \/ UNCHANGED ofAnalyzer
        /\ Flow!Next \/ UNCHANGED ofFlow
        /\ Probe!Next \/ UNCHANGED ofProbe
        /\ Rpc!Next \/ UNCHANGED ofRpc
        /\ Mqtt!Next \/ UNCHANGED ofMqtt
<1> SUFFICES ASSUME [Next]_vars
             PROVE  /\ Relay!Next \/ UNCHANGED ofRelay
                    /\ Analyzer!Next \/ UNCHANGED ofAnalyzer
                    /\ Flow!Next \/ UNCHANGED ofFlow
                    /\ Probe!Next \/ UNCHANGED ofProbe
                    /\ Rpc!Next \/ UNCHANGED ofRpc
                    /\ Mqtt!Next \/ UNCHANGED ofMqtt
  OBVIOUS
<1>1. \/ Relay!Next /\ RelayAlone
      \/ Analyzer!Next /\ AnalyzerAlone
      \/ Flow!Next /\ FlowAlone
      \/ Probe!Next /\ ProbeAlone
      \/ Rpc!Next /\ RpcAlone
      \/ Mqtt!Next /\ MqttAlone
      \/ UNCHANGED vars
  <2>1. CASE RelayRuns \/ (\E r \in Relays : RelayWaits(r))
             \/ (followed = "relay" /\ Relay!Environment /\ RelayAlone)
    BY <2>1 DEF RelayRuns, RelayWaits, Relay!Next
  <2>2. CASE AnalyzerRuns
             \/ (followed = "analyzer" /\ Analyzer!Environment /\ AnalyzerAlone)
    BY <2>2 DEF AnalyzerRuns, Analyzer!Next
  <2>3. CASE FlowRuns \/ FlowWaits
             \/ (followed = "flow" /\ Flow!Environment /\ FlowAlone)
    BY <2>3 DEF FlowRuns, FlowWaits, Flow!Next
  <2>4. CASE ProbeRuns \/ ProbeEnds
             \/ (followed = "probe" /\ Probe!Environment /\ ProbeAlone)
    BY <2>4 DEF ProbeRuns, ProbeEnds, Probe!Next, Probe!Step
  <2>5. CASE RpcRuns \/ (\E r \in Requests : RpcHears(r))
             \/ (followed = "rpc" /\ Rpc!Environment /\ RpcAlone)
    BY <2>5 DEF RpcRuns, RpcHears, Rpc!Next
  <2>6. CASE MqttNetwork \/ MqttStarts \/ MqttStops \/ MqttListens \/ MqttMonitors
             \/ (followed = "mqtt" /\ Mqtt!Environment /\ MqttAlone)
    BY <2>6 DEF MqttNetwork, MqttStarts, MqttStops, MqttListens, MqttMonitors,
                Mqtt!Next, Mqtt!Threads
  <2> QED
    BY <2>1, <2>2, <2>3, <2>4, <2>5, <2>6 DEF Next, Suffers
<1> QED
  BY <1>1 DEF RelayAlone, AnalyzerAlone, FlowAlone, ProbeAlone, RpcAlone, MqttAlone, vars

LEMMA BackendsInit == Init => BackendsInv
BY RelayInit, AnalyzerInit, FlowInit, ProbeInit, RpcInit, MqttInit, WaitsAreHours
DEF Init, BackendsInv

LEMMA BackendsNext ==
    BackendsInv /\ [Next]_vars =>
        /\ BackendsInv'
        /\ Relay!ReadingIsStored /\ Relay!RowsOnlyAdvance /\ Analyzer!RatiosAreKept
        /\ Flow!DayIsStored /\ Probe!Witnessed
BY StepsOfServices, RelayNext, AnalyzerNext, FlowNext, ProbeNext, RpcNext, MqttNext,
   WaitsAreHours DEF BackendsInv

LEMMA BackendsAlways == Spec => []BackendsInv
<1>1. BackendsInv /\ [Next]_vars => BackendsInv'
  BY BackendsNext
<1> QED
  BY BackendsInit, <1>1, PTL DEF Spec

\* A stored recording holds blocks of one disturbance only, the one its signature
\* names, though they are read one by one while the relay goes on recording
\* (micom_relay_reader.py, read_disturbance).
THEOREM RecordingsAlwaysWhole == Spec => []RecordingsAreWhole
<1>1. BackendsInv => RecordingsAreWhole
  BY DEF BackendsInv, RelayInv, RecordingsAreWhole
<1> QED
  BY BackendsAlways, <1>1, PTL

\* A reading that is recorded as completed (relay_monitoring.py, read_relay_status) has
\* stored every recording its directory named, and a fault as late as those; a day of
\* the flow meters that is complete (sync.py, run) has all that GWF had when the
\* download began and that is still to be kept.
THEOREM CompletedAlwaysStored == Spec => CompletedMeansStored
<1>1. BackendsInv /\ [Next]_vars => [Relay!ReadingIsStored /\ Flow!DayIsStored]_vars
  BY BackendsNext
<1> QED
  BY BackendsAlways, <1>1, PTL DEF Spec, CompletedMeansStored

\* The ratios of an analyser (collector.py, _load_ratios and _store_failure) are lost
\* neither to a failure nor to a restart, and a stored recording or fault of a relay
\* is only ever replaced by a later one.
THEOREM LearntAlwaysKept == Spec => LearntIsKept
<1>1. BackendsInv /\ [Next]_vars => [Analyzer!RatiosAreKept /\ Relay!RowsOnlyAdvance]_vars
  BY BackendsNext
<1> QED
  BY BackendsAlways, <1>1, PTL DEF Spec, LearntIsKept

\* sync.py, _cycle and run: a day has one automatic download and its
\* retries, however often the service is started again or midnight passes during a
\* download, whose calendar then counts for nothing.
THEOREM AttemptsAlwaysLimited == Spec => []AttemptsAreLimited
<1>1. BackendsInv => AttemptsAreLimited
  BY WaitsAreHours DEF BackendsInv, FlowInv, FlowShapes, CyclesInOrder, Within, Counts,
                       AttemptsAreLimited, Flow!AttemptsAreLimited, Calendar
<1> QED
  BY BackendsAlways, <1>1, PTL

\* tcp_probe.py and globalping_probe.py, the polls of a check: a port that is said to
\* be open or shut was so at some moment of the check; shut by every probe of a full
\* batch, none of which had been asked before, and by two polls in a row.
THEOREM VerdictsAlwaysWitnessed == Spec => VerdictsAreWitnessed
<1>1. BackendsInv /\ [Next]_vars => [Probe!Witnessed]_vars
  BY BackendsNext
<1> QED
  BY BackendsAlways, <1>1, PTL DEF Spec, VerdictsAreWitnessed

\* mqtt_rpc.py, _handle_send_email_test and mensagelo_client.py: one mail for each
\* request, however often the broker delivers it and its post is repeated; and no
\* request is told of a mail that was not accepted.
THEOREM OneMailAlways == Spec => []OneMailPerRequest
<1>1. BackendsInv => OneMailPerRequest
  BY MailsAreOne DEF BackendsInv, OneMailPerRequest
<1> QED
  BY BackendsAlways, <1>1, PTL

\* mqtt_client_manager.py, subscribe and _on_driver_connect; mqtt_driver.py: the
\* requests are heard whichever of the two threads comes first, and the retained
\* status says whether there is a session, however the last one ended.
THEOREM SessionAlwaysHonest == Spec => []SessionIsHonest
<1>1. BackendsInv => SessionIsHonest
  BY DEF BackendsInv, MqttInv, MqttShapes, SessionInOrder, RequestsInOrder, SessionIsHonest,
         Mqtt!SessionIsHonest
<1> QED
  BY BackendsAlways, <1>1, PTL
=============================================================================
