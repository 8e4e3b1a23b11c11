--------------------------- MODULE RetentionProofs ---------------------------
(***************************************************************************)
(* Type correctness of the photo store, and its two safety properties, for *)
(* every value of the constants.                                           *)
(***************************************************************************)
EXTENDS Retention, TLAPS

LEMMA RetentionTypeInit == Init => TypeOK
  BY EventsAssumption, BoundsAssumption
  DEF Init, TypeOK, RowsOK, DiskOK, SweepOK, PurgeOK, Days, NoDay, NoEvent

(* Every step of the clock, the push worker, the sweep and the purge task  *)
(* preserves the types.                                                    *)
LEMMA RetentionTypeStep == TypeOK /\ [Next]_vars => TypeOK'
<1> SUFFICES ASSUME TypeOK, [Next]_vars PROVE TypeOK'
  OBVIOUS
<1> USE EventsAssumption, BoundsAssumption
    DEF TypeOK, RowsOK, DiskOK, SweepOK, PurgeOK, Days, NoDay, NoEvent,
        rows, disk, fetch, sweep, purge, clock, ImageDays, EventDays
<1>1. CASE Tick
  BY <1>1 DEF Tick
<1>2. ASSUME NEW e \in Events, Emit(e) PROVE TypeOK'
  BY <1>2 DEF Emit
<1>3. ASSUME NEW e \in Events, PushWritesFile(e) PROVE TypeOK'
  BY <1>3 DEF PushWritesFile
<1>20. ASSUME NEW e \in Events, InsertBare(e) PROVE TypeOK'
  BY <1>20 DEF InsertBare
<1>4. CASE PushInserts
  <2>1. CASE pushed \in stored
    BY <1>4, <2>1 DEF PushInserts
  <2>2. CASE pushed \notin stored
    <3>1. /\ stored' = stored \cup {pushed}
          /\ withPath' = withPath \cup {pushed}
          /\ announced' = [announced EXCEPT ![pushed] = @ + 1]
          /\ pushed \in Events
      BY <1>4, <2>2 DEF PushInserts
    <3>2. announced' \in [Events -> Nat]
      BY <3>1
    <3>3. RowsOK'
      BY <1>4, <3>1, <3>2 DEF PushInserts
    <3> QED
      BY <1>4, <3>3 DEF PushInserts
  <2> QED
    BY <2>1, <2>2
<1>5. CASE StartSweep
  BY <1>5 DEF StartSweep
<1>6. ASSUME NEW e \in Events, Import(e) PROVE TypeOK'
  <2>1. CASE Wanted(e)
    BY <1>6, <2>1 DEF Import
  <2>2. CASE ~ Wanted(e)
    BY <1>6, <2>2 DEF Import
  <2> QED
    BY <2>1, <2>2
<1>7. ASSUME NEW e \in Events, Upgrade(e) PROVE TypeOK'
  <2>1. withUrl' \in SUBSET stored
    BY <1>7 DEF Upgrade
  <2>2. SweepOK'
    <3>1. CASE UNCHANGED fetch
      BY <1>7, <3>1 DEF Upgrade
    <3>2. CASE job' = e /\ kind' = "handle"
      BY <1>7, <3>2 DEF Upgrade
    <3> QED
      BY <1>7, <3>1, <3>2 DEF Upgrade
  <2> QED
    BY <1>7, <2>1, <2>2 DEF Upgrade
<1>8. CASE StartBackfill
  <2>1. batch' \in SUBSET Events
    BY <1>8 DEF StartBackfill, Pending
  <2> QED
    BY <1>8, <2>1 DEF StartBackfill
<1>9. ASSUME NEW e \in Events, Backfill(e) PROVE TypeOK'
  BY <1>9 DEF Backfill
<1>10. CASE EndSweep
  BY <1>10 DEF EndSweep
<1>11. CASE FoundOnDisk
  BY <1>11 DEF FoundOnDisk, Downloading
<1>12. CASE Download
  BY <1>12 DEF Download, Downloading
<1>13. CASE DownloadFails
  BY <1>13 DEF DownloadFails, Downloading
<1>14. CASE SavePath
  BY <1>14 DEF SavePath
<1>15. CASE PurgePaths
  <2>1. paths' \subseteq withPath /\ withPath' = withPath \ paths'
    BY <1>15 DEF PurgePaths
  <2>2. cutoff' \in Int
    BY <1>15 DEF PurgePaths
  <2> QED
    BY <1>15, <2>1, <2>2 DEF PurgePaths
<1>16. CASE Unlink
  <2>1. files' \subseteq files /\ paths' = {} /\ cutoff' = 0
    BY <1>16 DEF Unlink
  <2>2. /\ purgePc' = "events"
        /\ UNCHANGED <<clock, rows, sweep, pushed, faults>>
    BY <1>16 DEF Unlink
  <2>3. written' \in [Events -> 0..LastDay]
    BY <1>16 DEF Unlink, WrittenOnDisk
  <2> QED
    BY <2>1, <2>2, <2>3
<1>17. CASE PurgeEvents
  <2>1. PICK gone \in SUBSET stored :
           /\ stored' = stored \ gone
           /\ withUrl' = withUrl \ gone
           /\ withPath' = withPath \ gone
    BY <1>17 DEF PurgeEvents
  <2> QED
    BY <1>17, <2>1 DEF PurgeEvents
<1>18. CASE Restart
  BY <1>18 DEF Restart
<1>19. CASE UNCHANGED vars
  BY <1>19 DEF vars
<1> QED
  BY <1>1, <1>2, <1>3, <1>4, <1>5, <1>6, <1>7, <1>8, <1>9, <1>10, <1>11, <1>12,
     <1>13, <1>14, <1>15, <1>16, <1>17, <1>18, <1>19, <1>20
  DEF Next, SweepStep, BackfillStep, FetchStep, PurgeStep

(* The rows, the files and the three tasks keep their types.               *)
THEOREM TypeCorrect == Spec => []TypeOK
<1>1. Init => TypeOK
  BY RetentionTypeInit
<1>2. TypeOK /\ [Next]_vars => TypeOK'
  BY RetentionTypeStep
<1> QED
  BY <1>1, <1>2, PTL DEF Spec

-----------------------------------------------------------------------------
(* FreshPhotoKept.  A path is in a row only once its file was written, and *)
(* the purge removes files of expired events only: a file is never older   *)
(* than its event, and the paths it holds expired before its cutoff.       *)
SafeToPoint(e) == Kept(e) => e \in files

KeepInv ==
    /\ TypeOK
    /\ FreshPhotoKept
    /\ \A e \in files : born[e] # NoDay /\ born[e] <= written[e]
    /\ \A e \in stored : born[e] # NoDay
    /\ \A e \in Events : born[e] <= today
    /\ job # NoEvent => born[job] # NoDay
    /\ batch \subseteq {e \in Events : born[e] # NoDay}
    /\ pushed # NoEvent => SafeToPoint(pushed) /\ born[pushed] # NoDay
    /\ kind = "save" => SafeToPoint(job)
    /\ purgePc = "unlink" =>
        /\ cutoff <= today - ImageDays
        /\ \A e \in paths : born[e] # NoDay /\ born[e] < cutoff

LEMMA KeepInit == Init => KeepInv
  BY RetentionTypeInit
  DEF Init, KeepInv, FreshPhotoKept, NoEvent, NoDay, TypeOK, Days

LEMMA KeepStep == KeepInv /\ [Next]_vars => KeepInv'
<1> SUFFICES ASSUME KeepInv, [Next]_vars PROVE KeepInv'
  OBVIOUS
<1>t. TypeOK'
  BY RetentionTypeStep DEF KeepInv
<1> USE EventsAssumption, BoundsAssumption
    DEF KeepInv, FreshPhotoKept, SafeToPoint, Kept, TypeOK, RowsOK, DiskOK,
        SweepOK, PurgeOK, Days, NoDay, NoEvent,
        rows, disk, fetch, sweep, purge, clock, ImageDays, EventDays
<1>1. CASE Tick
  BY <1>1, <1>t DEF Tick
<1>2. ASSUME NEW e \in Events, Emit(e) PROVE KeepInv'
  <2>1. /\ \A f \in Events \ {e} : born'[f] = born[f]
        /\ born'[e] = today
        /\ born[e] = NoDay
    BY <1>2 DEF Emit
  <2>2. UNCHANGED <<options, today, rows, disk, sweep, pushed, purge>>
    BY <1>2 DEF Emit
  <2>3. /\ e \notin files /\ e \notin stored
        /\ e # job /\ e # pushed /\ e \notin batch
    BY <2>1
  <2>4. /\ FreshPhotoKept'
        /\ \A f \in files' : born'[f] # NoDay /\ born'[f] <= written'[f]
    BY <2>1, <2>2, <2>3
  <2>5. /\ \A f \in stored' : born'[f] # NoDay
        /\ \A f \in Events : born'[f] <= today'
        /\ job' # NoEvent => born'[job'] # NoDay
        /\ batch' \subseteq {f \in Events : born'[f] # NoDay}
    BY <2>1, <2>2, <2>3
  <2>6. pushed' # NoEvent => SafeToPoint(pushed)' /\ born'[pushed'] # NoDay
    BY <2>1, <2>2, <2>3
  <2>7. kind' = "save" => SafeToPoint(job)'
    BY <2>1, <2>2, <2>3
  <2>8. purgePc' = "unlink" =>
          /\ cutoff' <= today' - ImageDays'
          /\ \A f \in paths' : born'[f] # NoDay /\ born'[f] < cutoff'
    <3>1. cutoff' = cutoff /\ today' = today /\ options' = options
          /\ purgePc' = purgePc /\ paths' = paths
      BY <2>2
    <3> QED
      BY <2>1, <3>1
  <2> QED
    BY <1>t, <2>4, <2>5, <2>6, <2>7, <2>8
<1>3. ASSUME NEW e \in Events, PushWritesFile(e) PROVE KeepInv'
  BY <1>3, <1>t DEF PushWritesFile
<1>20. ASSUME NEW e \in Events, InsertBare(e) PROVE KeepInv'
  BY <1>20, <1>t DEF InsertBare
<1>4. CASE PushInserts
  <2>1. CASE pushed \in stored
    BY <1>4, <1>t, <2>1 DEF PushInserts
  <2>2. CASE pushed \notin stored
    BY <1>4, <1>t, <2>2 DEF PushInserts
  <2> QED
    BY <2>1, <2>2
<1>5. CASE StartSweep
  BY <1>5, <1>t DEF StartSweep
<1>6. ASSUME NEW e \in Events, Import(e) PROVE KeepInv'
  BY <1>6, <1>t DEF Import, Searched
<1>7. ASSUME NEW e \in Events, Upgrade(e) PROVE KeepInv'
  BY <1>7, <1>t DEF Upgrade, Searched
<1>8. CASE StartBackfill
  <2>1. batch' \subseteq stored
    BY <1>8 DEF StartBackfill, Pending
  <2> QED
    BY <1>8, <1>t, <2>1 DEF StartBackfill
<1>9. ASSUME NEW e \in Events, Backfill(e) PROVE KeepInv'
  BY <1>9, <1>t DEF Backfill
<1>10. CASE EndSweep
  BY <1>10, <1>t DEF EndSweep
<1>11. CASE FoundOnDisk
  BY <1>11, <1>t DEF FoundOnDisk, Downloading
<1>12. CASE Download
  BY <1>12, <1>t DEF Download, Downloading
<1>13. CASE DownloadFails
  BY <1>13, <1>t DEF DownloadFails, Downloading
<1>14. CASE SavePath
  BY <1>14, <1>t DEF SavePath
<1>15. CASE PurgePaths
  <2>1. /\ paths' \subseteq withPath /\ withPath' = withPath \ paths'
        /\ cutoff' = today - ImageDays
    BY <1>15 DEF PurgePaths
  <2>2. \A e \in paths' : born[e] # NoDay /\ born[e] < cutoff'
    BY <1>15 DEF PurgePaths, ExpiredAt
  <2> QED
    BY <1>15, <1>t, <2>1, <2>2 DEF PurgePaths
<1>16. CASE Unlink
  <2>1. /\ files' \subseteq files
        /\ \A e \in files \ files' : e \in paths \/ written[e] < cutoff
    BY <1>16 DEF Unlink
  <2>2. \A e \in files \ files' : ~ Kept(e)
    BY <1>16, <2>1 DEF Unlink
  <2>3. \A e \in files' : written'[e] = written[e]
    BY <1>16 DEF Unlink, WrittenOnDisk
  <2> QED
    BY <1>16, <1>t, <2>1, <2>2, <2>3 DEF Unlink
<1>17. CASE PurgeEvents
  <2>1. stored' \subseteq stored /\ withPath' \subseteq withPath
    BY <1>17 DEF PurgeEvents
  <2> QED
    BY <1>17, <1>t, <2>1 DEF PurgeEvents
<1>18. CASE Restart
  BY <1>18, <1>t DEF Restart
<1>19. CASE UNCHANGED vars
  BY <1>19, <1>t DEF vars
<1> QED
  BY <1>1, <1>2, <1>3, <1>4, <1>5, <1>6, <1>7, <1>8, <1>9, <1>10, <1>11, <1>12,
     <1>13, <1>14, <1>15, <1>16, <1>17, <1>18, <1>19, <1>20
  DEF Next, SweepStep, BackfillStep, FetchStep, PurgeStep

(* Whatever purges, sweeps, backfills and pushes interleave, a row whose   *)
(* photo has not expired never points at a missing file.                   *)
THEOREM PhotosInsideRetentionAreKept == Spec => []FreshPhotoKept
<1>1. Init => KeepInv
  BY KeepInit
<1>2. KeepInv /\ [Next]_vars => KeepInv'
  BY KeepStep
<1>3. KeepInv => FreshPhotoKept
  BY DEF KeepInv
<1> QED
  BY <1>1, <1>2, <1>3, PTL DEF Spec

-----------------------------------------------------------------------------
(* AnnouncedOnce.  An announced event without a row was deleted by the     *)
(* event purge, so it is older than EventDays; the sweep searches, and the *)
(* push worker delivers, only events that are younger.                     *)
Gone(e) == EventDays > 0 /\ born[e] < today - EventDays

OnceInv ==
    /\ TypeOK
    /\ \A e \in Events : announced[e] <= 1
    /\ \A e \in Events : announced[e] > 0 => e \in stored \/ Gone(e)
    /\ \A e \in Events : announced[e] > 0 => born[e] # NoDay
    /\ sweepPc # "idle" => since >= today - WindowDays - 1
    /\ pushed # NoEvent =>
        born[pushed] # NoDay /\ born[pushed] >= today - ResendDays

(* The options stay what they are until the entry is set up again.         *)
SettledOnce == HistoryOutlives => OnceInv

LEMMA OnceInit == Init => OnceInv
  BY RetentionTypeInit DEF Init, OnceInv, NoEvent

LEMMA OnceStep ==
    ASSUME HistoryOutlives, OnceInv, [Next]_vars PROVE OnceInv'
<1>t. TypeOK'
  BY RetentionTypeStep DEF OnceInv
<1> USE EventsAssumption, BoundsAssumption
    DEF OnceInv, Gone, HistoryOutlives, TypeOK, RowsOK,
        DiskOK, SweepOK, PurgeOK, Days, NoDay, NoEvent,
        rows, disk, fetch, sweep, purge, clock, ImageDays, EventDays
<1>1. CASE Tick
  BY <1>1, <1>t DEF Tick
<1>2. ASSUME NEW e \in Events, Emit(e) PROVE OnceInv'
  <2>1. /\ \A f \in Events \ {e} : born'[f] = born[f]
        /\ born'[e] = today
        /\ born[e] = NoDay
    BY <1>2 DEF Emit
  <2>2. UNCHANGED <<options, today, rows, disk, sweep, pushed, purge>>
    BY <1>2 DEF Emit
  <2>3. announced[e] = 0 /\ e # pushed
    BY <2>1
  <2> QED
    BY <1>t, <2>1, <2>2, <2>3
<1>3. ASSUME NEW e \in Events, PushWritesFile(e) PROVE OnceInv'
  BY <1>3, <1>t DEF PushWritesFile
<1>16. ASSUME NEW e \in Events, InsertBare(e) PROVE OnceInv'
  <2>1. /\ e \notin stored /\ born[e] # NoDay /\ ~ Gone(e)
        /\ stored' = stored \cup {e}
        /\ announced' = [announced EXCEPT ![e] = @ + 1]
        /\ UNCHANGED <<clock, sweepPc, since, pushed>>
    BY <1>16 DEF InsertBare, HistoryOutlives
  <2>2. announced[e] = 0
    BY <2>1
  <2> QED
    BY <1>t, <2>1, <2>2
<1>4. CASE PushInserts
  <2>1. CASE pushed \in stored
    BY <1>4, <1>t, <2>1 DEF PushInserts
  <2>2. CASE pushed \notin stored
    BY <1>4, <1>t, <2>2 DEF PushInserts
  <2> QED
    BY <2>1, <2>2
<1>5. CASE StartSweep
  BY <1>5, <1>t DEF StartSweep
<1>6. ASSUME NEW e \in Events, Import(e) PROVE OnceInv'
  <2>1. announced[e] = 0 /\ born[e] # NoDay
    BY <1>6 DEF Import, Searched
  <2>2. /\ stored' = stored \cup {e}
        /\ announced' = [announced EXCEPT ![e] = @ + 1]
        /\ UNCHANGED <<clock, sweepPc, since, pushed>>
    BY <1>6 DEF Import
  <2> QED
    BY <1>t, <2>1, <2>2
<1>7. ASSUME NEW e \in Events, Upgrade(e) PROVE OnceInv'
  BY <1>7, <1>t DEF Upgrade
<1>8. CASE StartBackfill
  BY <1>8, <1>t DEF StartBackfill
<1>9. ASSUME NEW e \in Events, Backfill(e) PROVE OnceInv'
  BY <1>9, <1>t DEF Backfill
<1>10. CASE EndSweep
  BY <1>10, <1>t DEF EndSweep
<1>11. CASE FoundOnDisk \/ Download \/ DownloadFails \/ SavePath
  BY <1>11, <1>t DEF FoundOnDisk, Download, DownloadFails, SavePath
<1>12. CASE PurgePaths \/ Unlink
  BY <1>12, <1>t DEF PurgePaths, Unlink
<1>13. CASE PurgeEvents
  <2>1. \A e \in stored \ stored' : Gone(e)
    BY <1>13 DEF PurgeEvents, ExpiredAt
  <2>2. UNCHANGED <<clock, announced, sweep, pushed>>
    BY <1>13 DEF PurgeEvents
  <2> QED
    BY <1>t, <2>1, <2>2
<1>14. CASE Restart
  BY <1>14, <1>t DEF Restart
<1>15. CASE UNCHANGED vars
  BY <1>15, <1>t DEF vars
<1> QED
  BY <1>1, <1>2, <1>3, <1>4, <1>5, <1>6, <1>7, <1>8, <1>9, <1>10, <1>11, <1>12,
     <1>13, <1>14, <1>15, <1>16
  DEF Next, SweepStep, BackfillStep, FetchStep, PurgeStep

(* No step of the tasks changes the options.                               *)
LEMMA OptionsStay == [Next]_vars => options' = options
<1> USE DEF rows, disk, fetch, sweep, purge, clock
<1>1. Tick \/ PushInserts \/ PurgeStep \/ DownloadFails \/ Restart
        => options' = options
  BY DEF Tick, PushInserts, PurgeStep, PurgePaths, Unlink, PurgeEvents,
         DownloadFails, Restart
<1>2. SweepStep => options' = options
  BY DEF SweepStep, BackfillStep, FetchStep, StartSweep, StartBackfill,
         Backfill, EndSweep, FoundOnDisk, Download, DownloadFails, SavePath
<1>3. \A e \in Events :
        Emit(e) \/ InsertBare(e) \/ PushWritesFile(e) \/ Import(e) \/ Upgrade(e)
          => options' = options
  BY DEF Emit, InsertBare, PushWritesFile, Import, Upgrade
<1> QED
  BY <1>1, <1>2, <1>3 DEF Next, vars

(* If events are kept for ever, or longer than the days the sweep searches *)
(* back and realtime copies come late, no event is taken for a new one     *)
(* twice although rows are deleted.                                        *)
THEOREM LongHistoryAnnouncedOnce == Spec => []AnnouncedOnce
<1>1. Init => SettledOnce
  BY OnceInit DEF SettledOnce
<1>2. SettledOnce /\ [Next]_vars => SettledOnce'
  <2>1. [Next]_vars => options' = options
    BY OptionsStay
  <2>2. options' = options /\ HistoryOutlives' => HistoryOutlives
    BY DEF HistoryOutlives, EventDays
  <2> QED
    BY <2>1, <2>2, OnceStep DEF SettledOnce
<1>3. SettledOnce => AnnouncedOnce
  BY DEF SettledOnce, OnceInv, AnnouncedOnce
<1> QED
  BY <1>1, <1>2, <1>3, PTL DEF Spec

=============================================================================
