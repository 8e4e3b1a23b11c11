------------------------------ MODULE Retention ------------------------------
(***************************************************************************)
(* Photos and their retention: image_manager.py, the purges of storage.py, *)
(* _daily_purge of __init__.py and the backfill of event_reconciler.py.    *)
(* A photo is known in three places, the row's URL, the row's path and the *)
(* file on disk.  The purge task, the sweep and the push worker change     *)
(* them one await at a time.                                               *)
(*                                                                         *)
(* Time passes in days.  Events are serials: a higher one is newer.        *)
(***************************************************************************)
EXTENDS Integers, FiniteSets

CONSTANTS
    Events,       \* the access decisions the terminal emits, each with a photo
    Unwanted,     \* decisions whose photos the options say not to store
    Unreachable,  \* photos that cannot be had: every download comes back empty,
                  \* and the terminal pushes no JPEG either
    Retentions,   \* settings of the two retention options that are looked at,
                  \* those under which images expire at all
    WindowDays,   \* _FIRST_RUN_LOOKBACK_DAYS
    ResendDays,   \* how many days late a realtime copy may still arrive
    Batch,        \* how many photos _backfill_pictures tries
    LastDay,      \* bound: the clock stops there
    MaxFaults     \* bound: empty downloads and restarts in a behaviour

ASSUME EventsAssumption ==
    /\ Events \subseteq Nat
    /\ Unwanted \subseteq Events
    /\ Unreachable \subseteq Events

ASSUME BoundsAssumption ==
    /\ Retentions \subseteq [images : Nat \ {0}, events : Nat]
    /\ WindowDays \in Nat \ {0} /\ ResendDays \in Nat /\ Batch \in Nat \ {0}
    /\ LastDay \in Nat \ {0} /\ MaxFaults \in Nat

Days == 1..LastDay
NoEvent == -1
NoDay == 0

VARIABLES
    options,      \* the entry's retention options
    today,
    born,         \* day of each event's timestamp (NoDay: not emitted yet)
    stored,       \* events with a row
    withUrl,      \* rows whose event_picture_url is set
    withPath,     \* rows whose event_picture_path is set
    announced,    \* how often each event was taken for a new one
    files,        \* events whose JPEG is on disk
    written,      \* day each file was last written (its mtime; NoDay: no file)
    sweepPc,      \* where the sweep is suspended
    since,        \* first day of the sweep's search window
    handled,      \* serial of the last record it handled
    batch,        \* rows _backfill_pictures has left to try
    job,          \* event whose photo the sweep is fetching
    kind,         \* the caller that will save it: async_handle or backfill
    pushed,       \* event whose inline JPEG the push worker has written
    purgePc,      \* where the purge task is suspended
    cutoff,       \* its cutoff day for images
    paths,        \* the paths it is about to unlink
    faults

rows   == <<stored, withUrl, withPath, announced>>
disk   == <<files, written>>
fetch  == <<job, kind>>
sweep  == <<sweepPc, since, handled, batch, fetch>>
purge  == <<purgePc, cutoff, paths>>
clock  == <<options, today, born>>
vars   == <<clock, rows, disk, sweep, pushed, purge, faults>>

ImageDays == options.images   \* OPT_IMAGE_RETENTION_DAYS
EventDays == options.events   \* OPT_EVENT_RETENTION_DAYS, 0 for ever

Init ==
    /\ options \in Retentions
    /\ today = 1 /\ born = [e \in Events |-> NoDay]
    /\ stored = {} /\ withUrl = {} /\ withPath = {}
    /\ announced = [e \in Events |-> 0]
    /\ files = {} /\ written = [e \in Events |-> NoDay]
    /\ sweepPc = "idle" /\ since = 1 /\ handled = NoEvent /\ batch = {}
    /\ job = NoEvent /\ kind = "none"
    /\ pushed = NoEvent
    /\ purgePc = "idle" /\ cutoff = 0 /\ paths = {}
    /\ faults = 0

-----------------------------------------------------------------------------
\* A handler ends on the day it began, a sweep on that day or the next.
Tick ==
    /\ today < LastDay
    /\ pushed = NoEvent
    /\ sweepPc # "idle" => since >= today - WindowDays
    /\ today' = today + 1
    /\ UNCHANGED <<options, born, rows, disk, sweep, pushed, purge, faults>>

\* Events are emitted in the order of their serials.
Emit(e) ==
    /\ born[e] = NoDay
    /\ \A f \in Events : f < e => born[f] # NoDay
    /\ born' = [born EXCEPT ![e] = today]
    /\ UNCHANGED <<options, today, rows, disk, sweep, pushed, purge, faults>>

-----------------------------------------------------------------------------
(* Realtime copies.  The push worker: _store_inline_jpeg, async_handle.    *)

\* The terminal pushes an event when it happens, and again later if it was not
\* answered.
PushWritesFile(e) ==
    /\ pushed = NoEvent
    /\ e \notin Unreachable
    /\ born[e] # NoDay /\ born[e] >= today - ResendDays
    /\ files' = files \cup {e}
    /\ written' = [written EXCEPT ![e] = today]
    /\ pushed' = e
    /\ UNCHANGED <<clock, rows, sweep, purge, faults>>

\* A copy without a JPEG, from the stream or the push: a new row, no path.
InsertBare(e) ==
    /\ born[e] # NoDay /\ born[e] >= today - ResendDays
    /\ e \notin stored
    /\ stored' = stored \cup {e}
    /\ announced' = [announced EXCEPT ![e] = @ + 1]
    /\ UNCHANGED <<clock, withUrl, withPath, disk, sweep, pushed, purge,
                   faults>>

\* The row is inserted with its path; a duplicate's path is dropped.
PushInserts ==
    /\ pushed # NoEvent
    /\ \/ /\ pushed \notin stored
          /\ stored' = stored \cup {pushed}
          /\ withPath' = withPath \cup {pushed}
          /\ announced' = [announced EXCEPT ![pushed] = @ + 1]
       \/ pushed \in stored /\ UNCHANGED <<stored, withPath, announced>>
    /\ pushed' = NoEvent
    /\ UNCHANGED <<clock, withUrl, disk, sweep, purge, faults>>

-----------------------------------------------------------------------------
(* The sweep.                                                              *)

\* Mutant: the search has no startTime.
StartSweep_WholeLog ==
    /\ sweepPc = "idle"
    /\ sweepPc' = "items"
    /\ since' = 1
    /\ UNCHANGED <<clock, rows, disk, handled, batch, fetch, pushed, purge,
                   faults>>

\* Every search asks for the last WindowDays days.
StartSweep ==
    /\ sweepPc = "idle"
    /\ sweepPc' = "items"
    /\ since' = today - WindowDays
    /\ UNCHANGED <<clock, rows, disk, handled, batch, fetch, pushed, purge,
                   faults>>

\* A record the sweep may still come to, inside the window it asked for.
Searched(e) == born[e] # NoDay /\ born[e] >= since /\ e > handled

Wanted(e) == e \notin Unwanted

\* A new record: the row gets its URL, then _enrich fetches a wanted photo.
Import(e) ==
    /\ sweepPc = "items" /\ job = NoEvent
    /\ Searched(e)
    /\ e \notin stored
    /\ stored' = stored \cup {e}
    /\ withUrl' = withUrl \cup {e}
    /\ announced' = [announced EXCEPT ![e] = @ + 1]
    /\ \/ Wanted(e) /\ job' = e /\ kind' = "handle"
       \/ ~ Wanted(e) /\ UNCHANGED fetch
    /\ handled' = e
    /\ UNCHANGED <<clock, withPath, disk, sweepPc, since, batch, pushed, purge,
                   faults>>

\* A duplicate: _maybe_upgrade adds the URL and fetches a wanted photo.
Upgrade(e) ==
    /\ sweepPc = "items" /\ job = NoEvent
    /\ Searched(e)
    /\ e \in stored
    /\ \/ /\ e \notin withPath /\ Wanted(e)
          /\ job' = e /\ kind' = "handle"
          /\ UNCHANGED withUrl
       \/ /\ e \in withPath \/ ~ Wanted(e)
          /\ e \notin withUrl
          /\ withUrl' = withUrl \cup {e}
          /\ UNCHANGED fetch
    /\ handled' = e
    /\ UNCHANGED <<clock, stored, withPath, announced, disk, sweepPc, since,
                   batch, pushed, purge, faults>>

\* async_events_missing_pictures
Pending == withUrl \ withPath

\* Mutant: LIMIT one too low.
NextBatch_OneShort(b) ==
    /\ b \subseteq Pending
    /\ Cardinality(b) = Batch - 1 \/ (b = Pending /\ Cardinality(b) < Batch)
    /\ \A e \in b, f \in Pending \ b : f < e

\* The newest Batch of them.
NextBatch(b) ==
    /\ b \subseteq Pending
    /\ Cardinality(b) = Batch \/ (b = Pending /\ Cardinality(b) < Batch)
    /\ \A e \in b, f \in Pending \ b : f < e

\* After the pages _backfill_pictures queries what is pending.
StartBackfill ==
    /\ sweepPc = "items" /\ job = NoEvent
    /\ sweepPc' = "backfill"
    /\ \E b \in SUBSET Pending : NextBatch(b) /\ batch' = b
    /\ handled' = NoEvent
    /\ UNCHANGED <<clock, rows, disk, since, fetch, pushed, purge, faults>>

\* Its next row, the newest of those left.
Backfill(e) ==
    /\ sweepPc = "backfill" /\ job = NoEvent
    /\ e \in batch
    /\ \A f \in batch : f <= e
    /\ batch' = batch \ {e}
    /\ job' = e /\ kind' = "backfill"
    /\ UNCHANGED <<clock, rows, disk, sweepPc, since, handled, pushed, purge,
                   faults>>

EndSweep ==
    /\ sweepPc = "backfill" /\ job = NoEvent
    /\ batch = {}
    /\ sweepPc' = "idle"
    /\ since' = 1
    /\ UNCHANGED <<clock, rows, disk, handled, batch, fetch, pushed, purge,
                   faults>>

-----------------------------------------------------------------------------
(* One photo: _download, then the caller's update of the row.              *)

Downloading == job # NoEvent /\ kind \in {"handle", "backfill"}

\* The file is already there: no request.
FoundOnDisk ==
    /\ Downloading
    /\ job \in files
    /\ kind' = "save"
    /\ UNCHANGED <<clock, rows, disk, sweepPc, since, handled, batch, job,
                   pushed, purge, faults>>

Download ==
    /\ Downloading
    /\ job \notin files /\ job \notin Unreachable
    /\ files' = files \cup {job}
    /\ written' = [written EXCEPT ![job] = today]
    /\ kind' = "save"
    /\ UNCHANGED <<clock, rows, sweepPc, since, handled, batch, job, pushed,
                   purge, faults>>

\* Nothing came back: an upgraded row still gets its URL.
DownloadFails ==
    /\ Downloading
    /\ job \notin files
    /\ \/ job \in Unreachable /\ UNCHANGED faults
       \/ faults < MaxFaults /\ faults' = faults + 1
    /\ withUrl' = withUrl \cup ({job} \cap stored)
    /\ job' = NoEvent /\ kind' = "none"
    /\ UNCHANGED <<clock, stored, withPath, announced, disk, sweepPc, since,
                   handled, batch, pushed, purge>>

\* UPDATE ... WHERE event_uid: no effect if the row was deleted meanwhile.
SavePath ==
    /\ kind = "save"
    /\ withUrl' = withUrl \cup ({job} \cap stored)
    /\ withPath' = withPath \cup ({job} \cap stored)
    /\ job' = NoEvent /\ kind' = "none"
    /\ UNCHANGED <<clock, stored, announced, disk, sweepPc, since, handled,
                   batch, pushed, purge, faults>>

-----------------------------------------------------------------------------
(* _daily_purge, every six hours.                                          *)

\* The timestamp is before the cutoff.
ExpiredAt(e, day) == e \in Events /\ born[e] # NoDay /\ born[e] < day

\* Mutant: the paths stay in the rows.
PurgePaths_KeepsPaths ==
    /\ purgePc = "idle"
    /\ cutoff' = today - ImageDays
    /\ paths' = {e \in withPath : ExpiredAt(e, cutoff')}
    /\ purgePc' = "unlink"
    /\ UNCHANGED <<clock, rows, disk, sweep, pushed, faults>>

\* async_purge_images_before: the paths leave the rows first.
PurgePaths ==
    /\ purgePc = "idle"
    /\ cutoff' = today - ImageDays
    /\ paths' = {e \in withPath : ExpiredAt(e, cutoff')}
    /\ withPath' = withPath \ paths'
    /\ purgePc' = "unlink"
    /\ UNCHANGED <<clock, stored, withUrl, announced, disk, sweep, pushed,
                   faults>>

\* A file that is gone has no mtime.
WrittenOnDisk == written' = [e \in Events |-> IF e \in files' THEN written[e]
                                              ELSE NoDay]

\* Mutant: no pass over orphaned files.
Unlink_NoOrphans ==
    /\ purgePc = "unlink"
    /\ files' = files \ paths
    /\ WrittenOnDisk
    /\ paths' = {} /\ cutoff' = 0
    /\ purgePc' = "events"
    /\ UNCHANGED <<clock, rows, sweep, pushed, faults>>

\* Mutant: the orphan pass also takes files written on the cutoff day.
Unlink_OffByOne ==
    /\ purgePc = "unlink"
    /\ files' = files \ (paths \cup {e \in files : written[e] <= cutoff})
    /\ WrittenOnDisk
    /\ paths' = {} /\ cutoff' = 0
    /\ purgePc' = "events"
    /\ UNCHANGED <<clock, rows, sweep, pushed, faults>>

\* Then the files go, and with them every file last written before the cutoff.
Unlink ==
    /\ purgePc = "unlink"
    /\ files' = files \ (paths \cup {e \in files : written[e] < cutoff})
    /\ WrittenOnDisk
    /\ paths' = {} /\ cutoff' = 0
    /\ purgePc' = "events"
    /\ UNCHANGED <<clock, rows, sweep, pushed, faults>>

\* async_purge_events_before
PurgeEvents ==
    /\ purgePc = "events"
    /\ LET gone == IF EventDays = 0 THEN {}
                   ELSE {e \in stored : ExpiredAt(e, today - EventDays)}
       IN /\ stored' = stored \ gone
          /\ withUrl' = withUrl \ gone
          /\ withPath' = withPath \ gone
    /\ purgePc' = "idle"
    /\ UNCHANGED <<clock, announced, disk, sweep, pushed, cutoff, paths,
                   faults>>

-----------------------------------------------------------------------------
\* Home Assistant stops: rows and files survive, the tasks do not.
Restart ==
    /\ faults < MaxFaults
    /\ faults' = faults + 1
    /\ sweepPc' = "idle" /\ since' = 1 /\ handled' = NoEvent /\ batch' = {}
    /\ job' = NoEvent /\ kind' = "none"
    /\ pushed' = NoEvent
    /\ purgePc' = "idle" /\ cutoff' = 0 /\ paths' = {}
    /\ UNCHANGED <<clock, rows, disk>>

FetchStep ==
    \/ FoundOnDisk \/ Download \/ SavePath
    \/ job \in Unreachable /\ DownloadFails
BackfillStep == \E e \in Events : Backfill(e)
SweepStep ==
    StartSweep \/ StartBackfill \/ BackfillStep \/ EndSweep \/ FetchStep
PurgeStep == PurgePaths \/ Unlink \/ PurgeEvents

Next ==
    \/ Tick \/ PushInserts \/ SweepStep \/ PurgeStep \/ DownloadFails \/ Restart
    \/ \E e \in Events :
        Emit(e) \/ InsertBare(e) \/ PushWritesFile(e) \/ Import(e) \/ Upgrade(e)

\* Both timers keep firing, requests and queries return, and time passes.
Fairness == WF_vars(SweepStep) /\ WF_vars(PurgeStep) /\ WF_vars(Tick)
            /\ WF_vars(PushInserts)

Spec == Init /\ [][Next]_vars
FairSpec == Spec /\ Fairness

-----------------------------------------------------------------------------
RowsOK ==
    /\ stored \in SUBSET Events
    /\ withUrl \in SUBSET stored
    /\ withPath \in SUBSET stored
    /\ announced \in [Events -> Nat]

DiskOK ==
    /\ files \in SUBSET Events
    /\ written \in [Events -> 0..LastDay]

SweepOK ==
    /\ sweepPc \in {"idle", "items", "backfill"}
    /\ since \in Int
    /\ handled \in Events \cup {NoEvent}
    /\ batch \in SUBSET Events
    /\ job \in Events \cup {NoEvent}
    /\ kind \in {"none", "handle", "backfill", "save"}
    /\ job = NoEvent <=> kind = "none"

PurgeOK ==
    /\ purgePc \in {"idle", "unlink", "events"}
    /\ cutoff \in Int
    /\ paths \in SUBSET Events

TypeOK ==
    /\ options \in Retentions
    /\ today \in Days
    /\ born \in [Events -> 0..LastDay]
    /\ pushed \in Events \cup {NoEvent}
    /\ faults \in 0..MaxFaults
    /\ RowsOK /\ DiskOK /\ SweepOK /\ PurgeOK

Kept(e) == born[e] >= today - ImageDays

(* A photo inside its retention is never lost: whatever purges run while    *)
(* the sweep and the push worker write photos, a row that points at a file  *)
(* and has not expired points at a file that exists.                        *)
FreshPhotoKept == \A e \in withPath : Kept(e) => e \in files

\* The history is kept for ever, or longer than a sweep searches back and the
\* terminal pushes again.
HistoryOutlives ==
    EventDays = 0 \/ (EventDays > WindowDays /\ EventDays > ResendDays)

(* An event is announced as new at most once, although its row is deleted   *)
(* one day, if the history outlives the sweep's window and late pushes.     *)
AnnouncedOnce == HistoryOutlives => \A e \in Events : announced[e] <= 1

Leftover(e) ==
    /\ e \notin stored /\ e \in files
    /\ written[e] < today - ImageDays
    /\ written[e] < today - EventDays

(* async_purge_events_before: "any leftover files are swept by the          *)
(* ImageManager's orphan pass".                                             *)
LeftoversSwept == \A e \in Events : Leftover(e) ~> e \notin files

(* A path that a purge racing the backfill left without its file does not   *)
(* stay: a later purge clears it, or the file comes back.                   *)
DanglingHeals ==
    \A e \in Events : (e \in withPath \ files) ~> (e \notin withPath \ files)

(* _backfill_pictures fetches the photos that were skipped earlier: one     *)
(* that is wanted and can be had is had, unless it expires first, although  *)
(* newer rows whose photos never come are tried before it.                  *)
PendingFetched ==
    \A e \in Events \ (Unreachable \cup Unwanted) :
        (e \in withUrl) ~> (e \in files \/ ~ Kept(e) \/ e \notin stored)

=============================================================================
