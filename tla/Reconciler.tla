----------------------------- MODULE Reconciler -----------------------------
(***************************************************************************)
(* The reconciliation sweep of event_reconciler.py: it pages through the   *)
(* terminal's AcsEvent log and hands every record to the gateway, so that  *)
(* events the realtime path missed are stored all the same.                *)
(*                                                                         *)
(* The terminal numbers its events 1, 2, ... and never deletes one.  Wall- *)
(* clock cutoffs are kept as serials: an event is inside the sweep's       *)
(* search window iff its serial is >= windowFrom (7 days), and recent for  *)
(* async_oldest_missing_url_serial iff it is >= recentFrom (2 days).       *)
(*                                                                         *)
(* A step is what runs between two awaits; the realtime path (stream or    *)
(* push) may insert a row between any two steps of a sweep.                *)
(***************************************************************************)
EXTENDS Integers, FiniteSets

CONSTANTS
    LastSerial,          \* bound: how many events the terminal ever emits
    Decisions,           \* serials that are granted/denied access decisions
    Photos,              \* decisions whose AcsEvent record has a pictureURL
    Poison,              \* photos whose body can never be read (non-ISAPI error)
    SerialOverlap,       \* _SERIAL_OVERLAP
    MaxPagesPerRun,      \* _MAX_PAGES_PER_RUN
    PageSize,            \* ACS_EVENT_MAX_RESULTS
    MaxBackfillSerials,  \* _MAX_BACKFILL_SERIALS
    MaxFaults            \* bound: failed requests and restarts in a behaviour

Serials == 1..LastSerial

ASSUME BoundsAssumption ==
    /\ LastSerial \in Nat \ {0}
    /\ SerialOverlap \in Nat
    /\ MaxPagesPerRun \in Nat \ {0}
    /\ PageSize \in Nat \ {0}
    /\ MaxBackfillSerials \in Nat
    /\ MaxFaults \in Nat

ASSUME EventsAssumption ==
    /\ Decisions \subseteq Serials
    /\ Photos \subseteq Decisions
    /\ Poison \subseteq Photos

VARIABLES
    terminal,     \* highest serial the terminal has emitted
    windowFrom,   \* first serial inside the 7-day search window
    recentFrom,   \* first serial inside the 2-day missing-photo lookback
    stored,       \* serials with a row in the events table
    withUrl,      \* rows whose event_picture_url is set
    withPhoto,    \* rows whose event_picture_path is set
    pc,           \* where the sweep is suspended
    maxSerial,    \* max_serial read by the sweep (0: None)
    cursor,       \* serial of the next record: position in the search result
    horizon,      \* newest serial the search is certain to cover (end_iso)
    pageNo,       \* page_no
    pageEnd,      \* last serial of the page being handled
    status,       \* responseStatusStrg of that page
    faults        \* failed requests and restarts so far

log   == <<terminal, windowFrom, recentFrom>>
rows  == <<stored, withUrl, withPhoto>>
sweep == <<pc, maxSerial, cursor, horizon, pageNo, pageEnd, status>>
vars  == <<log, rows, sweep, faults>>

Larger(a, b)  == IF a >= b THEN a ELSE b
Smaller(a, b) == IF a <= b THEN a ELSE b

Init ==
    /\ terminal = 0 /\ windowFrom = 1 /\ recentFrom = 1
    /\ stored = {} /\ withUrl = {} /\ withPhoto = {}
    /\ pc = "idle" /\ maxSerial = 0
    /\ cursor = 1 /\ horizon = 0 /\ pageNo = 0 /\ pageEnd = 0 /\ status = "OK"
    /\ faults = 0

-----------------------------------------------------------------------------
(* The terminal, the clock and the realtime path.                          *)

TerminalEmits ==
    /\ terminal < LastSerial
    /\ terminal' = terminal + 1
    /\ UNCHANGED <<windowFrom, recentFrom, rows, sweep, faults>>

RecentAges ==
    /\ recentFrom <= terminal
    /\ recentFrom' = recentFrom + 1
    /\ UNCHANGED <<terminal, windowFrom, rows, sweep, faults>>

WindowAges ==
    /\ windowFrom < recentFrom
    /\ windowFrom' = windowFrom + 1
    /\ UNCHANGED <<terminal, recentFrom, rows, sweep, faults>>

\* The stream or the push queue delivers an event: the row has no pictureURL.
Realtime(s) ==
    /\ s \in recentFrom..terminal
    /\ s \notin stored
    /\ stored' = stored \cup {s}
    /\ UNCHANGED <<log, withUrl, withPhoto, sweep, faults>>

-----------------------------------------------------------------------------
(* The sweep.                                                              *)

\* The locals of _reconcile, once the page loop is left.
LeavePages(to) ==
    /\ pc' = to
    /\ maxSerial' = 0 /\ cursor' = 1 /\ horizon' = 0
    /\ pageNo' = 0 /\ pageEnd' = 0 /\ status' = "OK"

\* storage.async_max_serial, the first await of _reconcile.
ReadMaxSerial ==
    /\ pc = "idle"
    /\ \/ stored = {} /\ maxSerial' = 0
       \/ /\ maxSerial' \in stored
          /\ \A s \in stored : s <= maxSerial'
    /\ pc' = "plan"
    /\ UNCHANGED <<log, rows, cursor, horizon, pageNo, pageEnd, status, faults>>

\* storage.async_oldest_missing_url_serial ranges over these rows.
MissingUrl == {s \in stored \cap Decisions : s \notin withUrl /\ s >= recentFrom}

\* Mutant: resume right after the newest stored serial.
OverlapBegin_NoOverlap(max) == max + 1

\* The fixed overlap: begin_serial before the missing-photo widening.
OverlapBegin(max) == IF max = 0 THEN 1 ELSE Larger(1, max - SerialOverlap + 1)

\* Mutant: the widening is not bounded.
WidenedTo_Uncapped(missing, max) == missing

\* The widening is bounded, so a row that never gets a photo cannot anchor
\* the sweep to a low serial.
WidenedTo(missing, max) ==
    IF max = 0 THEN missing ELSE Larger(missing, max - MaxBackfillSerials)

\* Mutant: the later of the two starting points instead of the earlier.
BeginSerial_Later(begin, max) ==
    \/ MissingUrl = {} /\ begin = OverlapBegin(max)
    \/ \E m \in MissingUrl :
        /\ \A s \in MissingUrl : m <= s
        /\ begin = Larger(OverlapBegin(max), WidenedTo(m, max))

\* begin_serial, given what the two queries returned.
BeginSerial(begin, max) ==
    \/ MissingUrl = {} /\ begin = OverlapBegin(max)
    \/ \E m \in MissingUrl :
        /\ \A s \in MissingUrl : m <= s
        /\ begin = IF max = 0 THEN WidenedTo(m, max)
                   ELSE Smaller(OverlapBegin(max), WidenedTo(m, max))

Plan ==
    /\ pc = "plan"
    /\ \E begin \in 1..LastSerial + 1 :
        /\ BeginSerial(begin, maxSerial)
        /\ cursor' = Larger(begin, windowFrom)
    /\ horizon' = terminal
    /\ maxSerial' = 0
    /\ pc' = "page"
    /\ UNCHANGED <<log, rows, pageNo, pageEnd, status, faults>>

\* One page.  Records newer than the horizon may or may not be in the result.
FetchPage ==
    /\ pc = "page"
    /\ \E last \in horizon..terminal :
        \/ cursor > last /\ LeavePages("backfill")
        \/ /\ cursor <= last
           /\ pageEnd' = Smaller(cursor + PageSize - 1, last)
           /\ status' = IF pageEnd' < last THEN "MORE" ELSE "OK"
           /\ pc' = "items"
           /\ UNCHANGED <<maxSerial, cursor, horizon, pageNo>>
    /\ UNCHANGED <<log, rows, faults>>

\* Mutant: skip the failed page and go on with the next one.
PageFails_Skips ==
    /\ pc = "page"
    /\ faults < MaxFaults
    /\ faults' = faults + 1
    /\ cursor' = Smaller(cursor + PageSize, LastSerial + 1)
    /\ UNCHANGED <<log, rows, pc, maxSerial, horizon, pageNo, pageEnd, status>>

\* HikvisionError on a page breaks out of the page loop; an error while the
\* page's body is read is not wrapped and ends the sweep.
PageFails ==
    /\ pc = "page"
    /\ faults < MaxFaults
    /\ faults' = faults + 1
    /\ \E to \in {"backfill", "idle"} : LeavePages(to)
    /\ UNCHANGED <<log, rows>>

\* After the record at the cursor: the next record, the next page, or the end.
Advance ==
    \/ /\ cursor < pageEnd
       /\ cursor' = cursor + 1
       /\ UNCHANGED <<pc, maxSerial, horizon, pageNo, pageEnd, status>>
    \/ /\ cursor = pageEnd /\ status = "MORE" /\ pageNo + 1 < MaxPagesPerRun
       /\ cursor' = cursor + 1
       /\ pageNo' = pageNo + 1
       /\ pc' = "page"
       /\ pageEnd' = 0 /\ status' = "OK"
       /\ UNCHANGED <<maxSerial, horizon>>
    \/ /\ cursor = pageEnd /\ ~ (status = "MORE" /\ pageNo + 1 < MaxPagesPerRun)
       /\ LeavePages("backfill")

NeedsDownload(s) == s \in Photos /\ s \notin withPhoto

\* gateway.async_handle of the record at the cursor, its photo obtained.
HandleItem ==
    /\ pc = "items"
    /\ ~ (NeedsDownload(cursor) /\ cursor \in Poison)
    /\ stored' = stored \cup {cursor}
    /\ withUrl' = withUrl \cup ({cursor} \cap Photos)
    /\ withPhoto' = withPhoto \cup ({cursor} \cap Photos)
    /\ Advance
    /\ UNCHANGED <<log, faults>>

\* HikvisionError while downloading: _download answers None, the row keeps
\* its URL without a file and the sweep goes on.
PhotoFails ==
    /\ pc = "items"
    /\ NeedsDownload(cursor)
    /\ faults < MaxFaults
    /\ faults' = faults + 1
    /\ stored' = stored \cup {cursor}
    /\ withUrl' = withUrl \cup {cursor}
    /\ Advance
    /\ UNCHANGED <<log, withPhoto>>

\* Any other error while a response body is read (a timeout, a broken
\* payload) is no HikvisionError: it leaves async_handle and _reconcile.  A
\* new row was inserted before; the upgrade of an old row writes nothing.
HandlingBreaks ==
    /\ pc = "items"
    /\ cursor \notin stored \/ NeedsDownload(cursor)
    /\ \/ cursor \in Poison /\ UNCHANGED faults
       \/ faults < MaxFaults /\ faults' = faults + 1
    /\ stored' = stored \cup {cursor}
    /\ withUrl' = IF cursor \in stored THEN withUrl
                  ELSE withUrl \cup ({cursor} \cap Photos)
    /\ LeavePages("idle")
    /\ UNCHANGED <<log, withPhoto>>

\* _backfill_pictures fetches some of the pending photos, then the sweep ends.
FinishSweep ==
    /\ pc = "backfill"
    /\ \E got \in SUBSET ((withUrl \ withPhoto) \ Poison) :
        withPhoto' = withPhoto \cup got
    /\ LeavePages("idle")
    /\ UNCHANGED <<log, stored, withUrl, faults>>

\* Home Assistant stops or the entry reloads: the rows survive, the sweep not.
Restart ==
    /\ pc # "idle"
    /\ faults < MaxFaults
    /\ faults' = faults + 1
    /\ LeavePages("idle")
    /\ UNCHANGED <<log, rows>>

-----------------------------------------------------------------------------
SweepStep ==
    \/ ReadMaxSerial \/ Plan \/ FetchPage \/ HandleItem \/ FinishSweep
    \/ cursor \in Poison /\ NeedsDownload(cursor) /\ HandlingBreaks

Environment ==
    \/ TerminalEmits \/ RecentAges \/ WindowAges
    \/ PageFails \/ PhotoFails \/ HandlingBreaks \/ Restart

SweepOnlyNext == SweepStep \/ Environment
Next == SweepOnlyNext \/ \E s \in Serials : Realtime(s)

\* The interval timer keeps firing and every request returns or times out.
Fairness == WF_vars(SweepStep)

\* The realtime path is down (stream degraded, push off): sweeps alone.
SweepOnlySpec == Init /\ [][SweepOnlyNext]_vars
FairSweepOnlySpec == SweepOnlySpec /\ Fairness

Spec == Init /\ [][Next]_vars
FairSpec == Spec /\ Fairness

-----------------------------------------------------------------------------
LogOK ==
    /\ terminal \in 0..LastSerial
    /\ windowFrom \in 1..LastSerial + 1
    /\ recentFrom \in windowFrom..LastSerial + 1

RowsOK ==
    /\ stored \subseteq 1..terminal
    /\ withUrl \subseteq stored \cap Photos
    /\ withPhoto \subseteq withUrl

SweepOK ==
    /\ pc \in {"idle", "plan", "page", "items", "backfill"}
    /\ maxSerial \in 0..terminal
    /\ cursor \in 1..LastSerial + 1
    /\ horizon \in 0..terminal
    /\ pageNo \in 0..MaxPagesPerRun - 1
    /\ pageEnd \in 0..terminal
    /\ status \in {"MORE", "OK"}
    /\ pc = "items" => cursor <= pageEnd

TypeOK == LogOK /\ RowsOK /\ SweepOK /\ faults \in 0..MaxFaults

Settled(s) == s \in stored \/ s < windowFrom

(* A sweep resumes from the newest stored serial (_reconcile reads          *)
(* async_max_serial), which is sound only if nothing in the search window   *)
(* below a stored serial is missing, whatever pages failed, photos broke or *)
(* restarts cut the earlier sweeps short.                                   *)
NoGap == \A m \in stored : \A s \in 1..m : Settled(s)

(* Why NoGap is inductive: between its two queries the sweep holds the      *)
(* newest stored serial, and in its pages nothing below the cursor is       *)
(* missing.  Holds when no realtime insert moves the maximum meanwhile.     *)
SweepResumes ==
    /\ pc = "plan" =>
        /\ \A s \in stored : s <= maxSerial
        /\ maxSerial # 0 => maxSerial \in stored
    /\ pc \in {"page", "items"} => \A s \in 1..cursor - 1 : Settled(s)

(* Whatever the realtime path inserts meanwhile, a sweep that is under way  *)
(* has passed over a missing event only if that is older than the overlap;  *)
(* every other one it stores, or it is still to come.                       *)
SkipsOnlyTheOld ==
    pc \in {"page", "items"} =>
        \A s \in 1..cursor - 1 :
            Settled(s) \/ \E m \in stored : s <= m - SerialOverlap

(* Every event the terminal has stored reaches the events table, unless it  *)
(* leaves the 7-day search window first.                                    *)
EventuallyStored == \A s \in Serials : (s <= terminal) ~> Settled(s)

(* With the realtime path inserting newer rows at any moment, a missed      *)
(* event is still imported as long as it stays among the SerialOverlap      *)
(* newest serials.                                                          *)
OverlapHeals ==
    \A s \in Serials :
        (s <= terminal)
            ~> (Settled(s) \/ \E m \in stored : s <= m - SerialOverlap)

(* A live decision stored without its pictureURL gets it from a later sweep *)
(* as long as it is recent and within MaxBackfillSerials of the newest row, *)
(* however many door events have outrun the overlap since.                  *)
UrlChased ==
    \A s \in Photos \ Poison :
        (s \in stored)
            ~> (\/ s \in withUrl
                \/ s < recentFrom
                \/ \E m \in stored : s < m - MaxBackfillSerials)

=============================================================================
