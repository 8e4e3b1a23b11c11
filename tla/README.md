# Formal model of the Hikvision Access integration

Hikvision Access is a Home Assistant integration for face-recognition
terminals.  Each config entry is one terminal with its own ISAPI client, SQLite
store, realtime route, reconciliation sweep and entities.  This directory holds
TLA+ modules of its control logic, TLC configurations that check them on small
instances, and TLAPS proofs of the properties that matter most.

All paths below are relative to `custom_components/hikvision_access/`.

## 1. Inventory

| Part | State it keeps | Operations | Hard behaviours | What makes it correct |
|---|---|---|---|---|
| Reconciler (`event_reconciler.py`) | locals of one sweep; "running" lock; everything lasting is in the store | plan from the newest stored serial, fetch pages, hand records to the gateway, backfill photos | realtime inserts between any two awaits, failing pages, records whose handling raises, restarts | no event in the search window is skipped; progress |
| Gateway (`gateway.py`, `event_mapper.py`) | `last_event`, `last_access_event` | `async_handle`, `_enrich`, `_maybe_upgrade`, `async_restore` | three concurrent sources of the same event; cancellation between INSERT and announcement | one bus event per access event; the "last access" surface agrees with the store |
| Event store (`storage.py`) | SQLite tables, one connection, an asyncio lock | insert under a primary key, field updates, queries, purges | purge while others write; closed under a running task | rows, URLs and paths stay consistent |
| Picture store (`image_manager.py`) | JPEG files on disk | download, inline save, two-phase purge, orphan pass | purge racing a backfill; crash between its phases | a photo inside its retention is never lost |
| Push route (`push.py`) | targets by token, a bounded queue, one worker; a slot on the terminal | POST handler, drain, claim and release a slot | others write the terminal's slots; reload with a filled queue | a realtime path always exists; slots of others are left alone |
| Listener (`event_listener.py`, `event_parser.py`) | task, back-off attempt, `listener_state`, the buffer of the stream | connect, split, dispatch, pause, stop | the terminal sends its whole log on every connection; chunks end anywhere; lockout, busy slot, timeouts, cancellation | nothing new falls between the stream and the sweep; the log is never news; the terminal is asked again in time and for good |
| ISAPI client (`api.py`) | lockouts by host, gate of four, pacing | digest handshake and request; stream | requests in flight when a lockout is learnt | a locked terminal is left alone until it unlocks |
| Entry lifecycle (`__init__.py`, `services.py`) | entry data and options, runtime | setup and its retries, reload, unload, remove, five services | reload after an options change; refused setups; sweeps that survive an unload | as for push slots; whoever stops to try has asked the user |
| Person cache (`person_manager.py`) | `persons_cache` table, `_inflight`, negative answers | `async_resolve`, `async_prime` | concurrent lookups and a sync save answers of different ages; requests fail or come back empty; people are renamed and removed | a name served without asking is recent; nothing known is forgotten; everybody becomes known |
| Parser (`event_parser.py`, `models.py`) | none | three payload shapes to one `AccessEvent` | multipart framing | the same uid for the same event from every source |
| Timeline API and card (`http_api.py`, `frontend/`) | a cursor in the request; the card's list | paged timeline, images, subscription | several terminals merged; events arriving between pages | pages neither skip nor repeat an event |
| Config flow (`config_flow.py`) | the open forms; config entries | user, reauth, reconfigure, options | forms that probe terminals at once; terminals that move or change passwords meanwhile | one entry per terminal; nothing unproven is written to an entry |
| Health coordinator and connection sensor (`coordinator.py`, `sensor.py`) | the last answer; the state last written | poll, write on two signals | the sensor combines two sources and is written by a third | it follows the terminal |
| Capabilities, other coordinators and entities, options form, diagnostics | last answers of the terminal | probes, polls, rendering | - | they show what the parts above hold |

How the parts interact: the listener, the push worker and the sweep call
`EventGateway.async_handle` directly; the gateway calls the store, the picture
store and the person cache; entities and the card's subscription get a
dispatcher signal; the listener starts a sweep whenever its stream opens; the
health coordinator's authentication error, and setup's, start a reauth form,
whose answer reloads the entry; the purge task and the service calls run on
their own.  Everything runs on one asyncio
loop, so in the models **a step is what happens between two awaits** (a
database call or a file operation in the executor is one step).

The hazards of this code, each at its line and with the properties aimed at it,
are listed in `PROJECT.json`.

## 2. Modules

| Module | Models | Extended / instantiated by |
|---|---|---|
| `Reconciler` | the sweep of `event_reconciler.py` against the terminal's log and the events table | `ReconcilerProofs` |
| `EventLog` | abstract: an event is recorded, and announced at most once, after it was recorded | instance in `Gateway` |
| `Gateway` | `async_handle` for the three concurrent sources | `GatewayProofs` |
| `Retention` | photos, purge, backfill, inline photos over days | `MCRetention`, `RetentionProofs` |
| `PushSlots` | httpHosts slots, the recorded slot, setup / reload / removal, `setup_push`, `remove_push` | `PushProofs` |
| `PushView` | the webhook's targets, queue and worker over loads, unloads and reloads of several terminals | `PushProofs` |
| `Timeline` | the events query over several stores, the card's pages, reloads and live events | `FrontendProofs` |
| `Lockout` | the terminal's login lock and the client's park, gate and margin | `LockoutProofs` |
| `PersonCache` | lookups of persons and the sync of the directory, over one table | `MCPersonCache`, `PersonCacheProofs` |
| `Listener` | the listener's loop, the bytes of the stream, the replayed log, the sweep it asks for | `Connection` |
| `Connection` | composition: the listener in its config entry, with setup, polls, the sensor and the reauth form | `MCConnection`, `ConnectionProofs` |
| `ConfigFlow` | the forms that add, reauthenticate and reconfigure a terminal, several at once | `MCConfigFlow`, `FrontendProofs` |

### Reconciler

`terminal` is the newest serial of the terminal; a serial stands for its event.
Clock cutoffs are serials: `windowFrom` is the first event the search's
`startTime` (now - 7 days) still covers, `recentFrom` the same for the two-day
missing-photo query.  `stored`, `withUrl`, `withPhoto` are the table.  `pc`,
`maxSerial`, `cursor`, `horizon`, `pageNo`, `pageEnd`, `status` are the locals
of `_reconcile` at its awaits: `ReadMaxSerial` and `Plan` are its two queries,
`FetchPage` one search request, `HandleItem`, `PhotoFails`, `HandlingBreaks`
one `async_handle`, `FinishSweep` the backfill.  The gateway's own interleaving
is left to `Gateway`; here a record is handled in one step.

### Gateway

`pc[h]` is where the coroutine of source `h` is suspended: before `_enrich`'s
results, before the synchronous tail that announces, before `_maybe_upgrade`'s
comparison, before its UPDATE, before its refresh of the surface.  `bus` counts
bus events.  `lastAccess` and `lastFields` are the last-access surface, `row` the
fields of each event's row.  The sources in `Linked` have a pictureURL in their
envelopes (`Carriable`): the search's records do, and the parser takes one from
the other two as well, so the proofs leave it open which.  `dropped` is history:
the events for which a push brought a photo with a copy that was no longer the
first.
A refinement mapping takes `stored` and `bus` to the abstract `EventLog`.

### Retention

A photo is known as `withUrl` (URL in the row), `withPath` (path in the row)
and `files` (on disk, with `written` as its mtime).  The purge is three steps
(`PurgePaths`: paths leave the rows, `Unlink`: files and orphans go,
`PurgeEvents`: rows go), the sweep one step per await, the push worker two
(`PushWritesFile`, `PushInserts`); `InsertBare` is a realtime copy without a
photo, whose URL the sweep's record brings later.  A realtime copy may arrive up
to `ResendDays` after its event.  `options` holds the two retention settings of
the entry, chosen once from `Retentions`.  `Unwanted` are the photos the options
exclude, `Unreachable` those that nobody can have.  The clock counts days.

### PushSlots

`slots` is the terminal's list; a slot holds `Empty`, `Cloud` or the entry
whose token its URL carries.  `dataSlot` is `DATA_PUSH_SLOT`.  A caller (setup
or removal; a service call) is suspended at `pc[i, c]` between reading the
slots, the PUT, and the update of the entry's data.  `Update` includes the
reload that Home Assistant runs when a loaded entry changes; during setup the
update listener is not there yet and nothing is reloaded.  An integration that
is removed and added again is another entry.

### PushView

A post is a number; `state[k]` is how far it has come and `target[k]` the
gateway it was resolved to, which is a terminal and the number of the load that
built it.  `Post` ends at the await of the body, so an unload can fall between
it and `Enqueue`.  `Unregister` and `Close` are the two ends of an unload that
matter here: the target leaves the table (and the last one cancels the worker),
later the store's connection closes.  `Take` and `Handled` are one turn of
`_drain`; a gateway with a closed store always raises.  What the gateway does
with the event is `Gateway`'s, what becomes of an inline photo `Retention`'s,
and a dropped or cut-short event is one that `Reconciler!Realtime` never
delivers.

### Timeline

`rows` is the union of the tables; a store is named by the events it may hold.
A request holds the filter and cursor it was sent with, the stores it still has
to query (`todo`), the rows it got, and, as history, what was stored when it
began (`snap`).  `Ask`, `Query` and `Respond` are the awaits of `EventsView.get`
and `callApi`; responses arrive in any order.  An event numbers its timestamp
and uid together.  `unsent` holds the inserted events whose live message has not
reached the card.  `base`, `listFilter`, `whole` and `live` are history: what
the list has to show down to its cursor, for which filter, whether every page
was asked for the list it joined, and what came live.

### Lockout

`lock` and `parked` count down.  Each request is checked, waits for the gate,
is checked again, probes, and sends the request proper; streams take neither
the gate nor the first check.  `Attempt` is the terminal: a locked one starts
its lock over.  `age` says how long ago a request passed its last check; its
timeouts bound it by `Patience`.

### PersonCache

`directory` is the terminal's user list; `since` counts the ticks since a
person's record last changed.  `name`, `age` and `pictured` are the rows of
`persons_cache`; a row without a name is treated by the code as no row.
`pc[c]` is where a call of `async_resolve` is suspended: `Read` is
`async_get_person` of a row that is not fresh, `Check` the three guards up to
the request, which the terminal answers while it is in flight, `Receive` the
end of the request with its `finally`, `Save` the upsert after the portrait.
Between `Receive` and `Save` the flight is over but the answer is not yet
written, and this is where the lookups overlap.  `PortraitRaises` is
a portrait whose body cannot be read: the lookup ends without the upsert.  `PrimePage` and `PrimeSave` are
`async_prime`; a position in the search result shifts when somebody is removed.

### Listener

`mood` is how the terminal answers the opening of the stream, one value for
each answer that `async_stream` tells apart.  The stream is a sequence of
tokens: a section is the two halves of its boundary and those of its body, so
that a chunk may end in the middle of either; `Read` is one read with
`split_stream_buffer`, with the cut of a long buffer.  `todo` is the rest of
what `Complete` split off, over which `_connect_and_read` loops; `News` are the
bodies in it that `_dispatch_section` hands on, and since everything else is
dropped without an await, `Dispatch` keeps the rest only while it has news.
`Connect` is the opening with `on_reconnect`, `Handle` the gateway's handling of
one live event, after which the loop proceeds (`Proceed`),
`EndOfStream`, `StreamFails` and `StreamCrashes` the three ways a stream ends,
each with its own pause.  `attempt` is kept only up to the length of the table,
beyond which it selects the same delay.

The sweep beside it has the reconciler's arithmetic without its pages: it
resumes `SerialOverlap` rows below the newest row of any source, or further back
(`ResumesAt`), reads no event that has left the search window (`Expire`), stores
one record after the other (`SweepStores`) and at most `SweepLimit` of them, and
fails anywhere.  `SweepResumes` fixes what it will read: what the terminal logs
afterwards is left to the stream.  `overlooked` says that something may wait for
the next sweep.

### Connection

`Connection` extends `Listener` and conjoins its actions with those of the
entry: a successful setup starts the listener, an unload and an accepted
reauth form stop it, a handled live event or a sweep that stored something
makes the sensor write itself.  `Written` is what then reaches Home Assistant's
state machine: `native_value`, or "unavailable" after a failed poll, because the
sensor has `CoordinatorEntity`'s `available`.  `polled` and `polling` are the health
coordinator, `shown` what the connection sensor last wrote.  The entry takes
the stream route; which route it takes is `PushSlots`'s question.

### ConfigFlow

A form is submitted with its data (`SubmitUser`, `SubmitReauth`,
`SubmitReconfigure`) and suspended twice, before and after `deviceInfo`
(`Identify`, `Finish`); `Finish` holds everything that happens after the last
await.  `home` says which terminal answers at an address, `secret` which
credentials it takes, and both change meanwhile.  `proven` is history.  What
Home Assistant does with unique ids, aborts and reloads is modelled from how
the forms use it.

## 3. Runs

Every run takes a few seconds to three minutes.

| Run | What it shows | Bounds |
|---|---|---|
| `reconciler_sweeps` | without a realtime path: `NoGap`, and every event is stored or ages out (`EventuallyStored`) | 5 events, pages of 2, 2 pages per run, 2 faults |
| `reconciler_realtime` | with realtime inserts anywhere: a missed event is still imported while it is among the newest `SerialOverlap` serials (`OverlapHeals`), and recent decisions get their URL (`UrlChased`) | 5 events, the last with a photo that never reads, 1 fault |
| `reconciler_live_gap` | violated: `EventuallyStored` with realtime inserts | 4 events |
| `gateway` | `AtMostOnce`, `SurfaceIsStored`, `ImplementsEventLog`, `RewindsOnlyForNews`, `EventuallyAnnounced` | push and sweep, the sweep's copies with a pictureURL, 2 events, 1 fault |
| `retention` | `FreshPhotoKept`, `AnnouncedOnce`, `LeftoversSwept`, `DanglingHeals`, `PendingFetched` | 2 events, one wanted and reachable, one neither; 4 days; photos kept 1 day and rows 2, or photos 2 and rows 1; a window of 1 day, copies up to 1 day late, 1 fault |
| `push_slots` | `RealtimePath`, `Recorded`, `NothingLeft` | 2 entries one after the other, 2 slots with any contents, 2 refused requests, 1 foreign registration |
| `push_queue` | `Attended`, `OneAtATime`, `OthersUnharmed`, `Served` | 2 terminals, 2 loads each, 3 posts, a queue of 2 |
| `lockout_park` | `ParkCoversLock`, `LateBounded`, `UnlocksAgain` | 2 requests, gate of 1, 1 stream, 2-tick patience and margin, 1 lost answer |
| `timeline` | `NothingSkipped`, `OnlyLiveTwice`, `CursorDescends` | 2 stores of 2 events, pages of 2, 2 requests in flight, 1 purge or unload |
| `persons` | `FreshIsRecent`, `NothingForgotten`, `SyncComplete`, `EventuallyKnown` | 2 persons, one of whom comes by and is enrolled, renamed or removed, 2 names, 2 lookups and a sync, pages of 1, TTLs and patience of 1 tick, 1 change, 1 fault |
| `connection` | `NothingFallsBetween`, `BackSoon`, `LiveOnce`, `StreamReturns`, `ShownFollows` | 2 events, chunks of up to 2 tokens, a buffer of 5, one section of 9 tokens in between, an overlap of 1, sweeps of 1 record, 2 faults |
| `config_flow` | `OneEntryPerTerminal`, `Proven` | 2 terminals, addresses, credentials, entries and forms, 2 changes, all interchangeable (symmetry) |

The type invariants that no run lists are proved (section 5).

Why the bounds are enough.  The sweep's arithmetic needs more events than one
sweep fetches (5 > 2 pages of 2 after an overlap of 2), so that a sweep is cut
by its page limit and a missed event can fall out of the overlap.  In the
gateway two sources and two events give every order of two copies of one event
and an older next to a newer event; the third source is in the proofs.  Four
days let a photo expire, its row expire and the purge run again; of the two
settings one has rows that outlive the searches, the other files without rows.  Two slots are
the terminal's; two entries are a removal and what comes after it.  In the
lockout a gate of one with two requests already leaves one queued while the
other learns of the lock, and the stream is the request that gets round the
gate.  In the push view three posts fill the queue of two and lose one, or
leave two events of an unloaded gateway in it and come to a new one; two
terminals are one that unloads and one that must not notice.  In the timeline
four events are two full pages across two stores, one of the events imported
late, below or above the cursor; two requests overtake each other.

For the persons two lookups of one of them are one whose answer waits while the
other asks again, and the second person is the next page of a sync; one tick of
each duration lets a row expire, a negative answer expire, and an answer wait;
two names tell an answer from before a rename from one after it.  The person who
comes by begins with the first name, without a name or unknown, and the other
person keeps the second (`MCInit`).
In the connection a section has four tokens and a chunk at most two, so each
boundary and each body is cut at every place; the blob of nine tokens is longer
than the buffer of five, the least that `BufferAssumption` allows: a body, the
half of a boundary behind it and another chunk; two events are one in the
replayed log and one live, or, with an overlap of one, a missed event and the row
that outruns it; the
back-off table of two entries has a first, a last and a place beyond the end;
two faults are a change of the terminal and another one or a broken stream.
With forms two of everything are two forms for one terminal, or two terminals
that exchange their addresses.

`push_slots`, `timeline` and `config_flow` check safety only; the other passing
runs also check liveness.  Two runs set `CHECK_DEADLOCK FALSE`: in `push_slots`
every entry may have been removed, and in `connection` nothing need happen any
more once the bounds are used up and the entry waits for the user.

Fairness.  `Reconciler`: the interval timer and the requests it waits for
(weak fairness of the sweep's own steps; nothing is assumed of the realtime
path, of failures or of time).  `Gateway`: a handler that is suspended resumes,
because every request has a timeout and the store answers.  `Retention`: both
timers fire and the day goes by; failed downloads are bounded.  `Lockout`: time
passes and a request that was sent is answered or times out; pollers are free
to poll or not.  `PushView`: the worker runs when it can and the gateway
returns or raises; nothing is assumed of posts, loads and unloads.
`PersonCache`: requests return or time out, time passes, and everybody whose
name is to become known keeps coming by (strong fairness of `Read`, because a
fresh row disables it again and again).  `Connection`: an attempt to open the
stream ends in one of its outcomes, a pause ends, Home Assistant retries a
refused setup and refreshes its coordinator; nothing is assumed of the
terminal, of the bytes or of the user.

## 4. What the violated run says, and what does not hold

* `reconciler_live_gap`: the resume point is the newest stored serial of *any*
  source.  An event missed while the realtime path was down is skipped for good
  once live inserts are more than `_SERIAL_OVERLAP` ahead of it.

Properties that were tried and do not hold, kept as hazards with a note and not
as runs.

Events and photos:

* `SkipsOnlyTheOld` fails without `QuietStart`: when the table is empty and a
  live decision is inserted between `async_max_serial` and
  `async_oldest_missing_url_serial`, `begin_serial` is that decision
  (`event_reconciler.py:112`), and the first sweep skips the whole log before
  it.  The next sweep fetches what the overlap covers; the rest stays missing.
* `EventuallyStored` fails without any realtime insert when a photo's body can
  never be read (`Poison = {3}` in `Reconciler_sweeps.cfg`): only
  `HikvisionError` lets a sweep go on to the next record, and an aiohttp error
  of the body ends every sweep at that record.
* A stored event is not always announced: the row is inserted first, and a
  handler that is cancelled or breaks before the bus event leaves an event whose
  later copies are duplicates.  `EventuallyAnnounced` therefore has the proviso
  that no fault happened.
* The last-access surface is not always the newest stored access (an older
  event imported later replaces it), may lose a photo that an upgrade completed
  while the first copy was still in `_enrich`, and may show an inline photo of a
  duplicate that never reaches the row, which `SurfaceIsStored` excepts
  (`dropped`).
* A path may name no file for a while: the backfill saves a path between the
  two halves of a purge.  `DanglingHeals` is what remains true.
* A purged photo looks like a skipped one, and the backfill
  (`event_reconciler.py:177`) fetches it again until the next purge, although
  the options form says that older images are deleted
  (`translations/en.json:68`).
* Events kept for fewer days than the sweep's seven are imported and announced
  again; `AnnouncedOnce` is about a history that outlives the searches
  (`HistoryOutlives`).  With image retention 0 (unlimited)
  `async_purge` returns before the orphan pass, so the files of purged events
  stay; the settings of `Retention` have images that expire.
* The photos that `store_granted_images` and `store_denied_images` exclude
  (`gateway.py:234`, `translations/en.json:70-71`) are stored all the same:
  inline ones at once, the others by the backfill of the same sweep, whose query
  (`storage.py:402`) does not look at the options.  The model does as the code
  does, and `PendingFetched` asks for wanted photos only.
  Fifteen newest photos that never download starve the older ones.

Realtime route:

* `RealtimePath` fails with two installations on one terminal
  (`OneInstallation = FALSE`): a slot that belongs to another installation of
  this integration counts as ours (`push.py:214`, against the comments at
  `push.py:204` and `__init__.py:251`), and its owner goes on trusting its
  record.
* `RealtimePath` fails when the answer to `remove_push` is lost
  (`MaxLost = 1`); `NothingLeft` fails when the answer to a claim is lost, when
  an earlier slot becomes free (`Cloud` in `Rewritten`), or when calls overlap
  (`Overlap = TRUE`), which breaks `RealtimePath` too.
* A reconnect that finds a sweep running does not start another, so what was
  emitted since that sweep began waits for the timer; so does what a failed or
  limited sweep left and an event whose handling failed (`overlooked` in
  `NothingFallsBetween`).  The next sweep finds it only while it is in the search
  window and fewer than `_SERIAL_OVERLAP` serials behind the newest row
  (`Outrun`); after that it is missing for good, as in `reconciler_live_gap`.
* A live event is handed on only when the boundary of the next section has
  arrived; if the stream breaks first, it is left to the sweep.
* The attempt counter starts over only when the stream ends cleanly, and then
  the stream is opened again without a pause.

Connection:

* A wrong or changed password never asks for new credentials: the terminal
  answers 401, and only a 403 (`api.py:255`) raises `HikvisionAuthError`,
  which `exceptions.py:11` describes as rejected credentials.  Setup is retried,
  polls go on failing, and `listener_state` never becomes "error".
* After one passing 403 the coordinator polls no more: the sensor may stay
  unavailable until the form is answered although the stream is back
  (`ShownFollows` excepts it by `reauth`).
* The connection sensor never shows "offline", which it lists as a state
  (`sensor.py:41`, `sensor.py:142`, `strings.json:98`): it asks
  `last_update_success` in `native_value`, but as a `CoordinatorEntity` without
  an `available` of its own it is unavailable whenever that is false.
  `ShownFollows` therefore says "unavailable".
* `listener_state` "degraded" (busy slot, lockout) is shown as connected, and
  the state stays "connected" during the pause after a broken stream; only a
  failed poll shows a terminal that went away.

Persons:

* `FreshIsRecent` fails if the terminal ignores the filter (`Filters = FALSE`):
  the first user of the answer is cached as the person asked for
  (`person_manager.py:83`).
* `NothingForgotten` fails with a record whose name is an empty string
  (`Blanks`): it is not NULL and replaces the name.
* `_inflight` is released before the portrait and the upsert, so that an older
  answer may replace a newer one; `FreshIsRecent` bounds for how long.  A user
  without a name is asked for again with every event.
* A sync skips a user when another one is removed between two pages
  (`SyncComplete` speaks of a directory that stays the same).
* A portrait is downloaded once and never refreshed; the orphan pass of the
  picture store deletes it while its path stays in the row.

Forms:

* The user form gives a known entry the host alone (`Proven` pairs the entry's
  terminal with its address and with its credentials, not the two with each
  other).
* Reauth and reconfigure write a copy of the entry's data read before the
  probe; a push slot recorded meanwhile is lost from it.
* `async_setup_entry` does not compare the serial number that answers with the
  entry's unique id: an entry whose address another terminal took over, with
  the same credentials, is set up against that terminal.

Card:

* The card's list does not always belong to its filters (`whole` may become
  FALSE): a late page joins the list of a newer filter, the older of two reloads
  wins, and a reload that fails leaves the old list under the new filter.  An
  access announced while a reload is in flight may vanish with the response,
  and an event imported late comes a second time with its page
  (`OnlyLiveTwice` is what remains).  A live event is held against the result
  filter only: under a filter for a person or a period the list also shows
  other accesses until it is loaded again.  A card for one entry shows all the others
  while that entry is not loaded (`Targets`).

## 5. Proofs

All theorems hold for every value of the constants that meets the named
assumptions.  TLC checks the inductive invariants' parts as well while they are
being developed; the proofs do not rest on it.

* `ReconcilerProofs`: `TypeCorrect`; `SweepsLeaveNoGap` (`NoGap` under
  `SweepOnlySpec`).  `NoGap` alone is not inductive: what a sweep holds in its
  locals matters.  The invariant adds `SweepResumes`: between the two queries
  the sweep holds the newest stored serial, and while it pages nothing below
  its cursor is missing.  `OverlapIsSwept` is what a sweep promises while live
  rows come in at any moment (`Spec`): it passes over a missing event only if
  that is older than the overlap (`SkipsOnlyTheOld`, the step from sweep to
  sweep behind `OverlapHeals`).  The invariant adds `ReadTrue`, that what the
  first query returned is still a row; `BeginsInOverlap` says that neither the
  widening nor its cap moves the beginning behind the overlap.  The hypothesis
  `QuietStart` excludes one order of steps, see section 4.
* `GatewayProofs`: `TypeCorrect`; `AnnouncedAtMostOnce`;
  `GatewayImplementsEventLog`; `SurfaceSurvivesRestart`.  The invariant of the
  first adds `OneOwner`: an event about
  to be announced has one handler, and nobody announced it.  Every step then
  maps to `Record`, `Fire` or a stutter of `EventLog`.  `SurfaceIsStored` needs
  `CopyHeld`: what a handler will put on the surface when it resumes is in the
  row already, and rows only gain fields.  `OldAccessStaysOld` proves
  `RewindsOnlyForNews`: an older access is shown only in the step that announces
  it, by `AtMostOnce` once.
* `RetentionProofs`: `TypeCorrect`; `PhotosInsideRetentionAreKept`;
  `LongHistoryAnnouncedOnce`.  The first adds what each task holds in its
  hands: the purge's paths are expired or out of the rows, a file is never
  older than its event, a fetched photo is on disk until its row is updated.
  The second is about the settings of `HistoryOutlives`, which `AnnouncedOnce`
  states itself: events are kept for ever, or longer than a sweep searches back
  and copies come late, so that neither reaches back to a purged row.
* `PushProofs`, of the queue: `TypeCorrect`; `QueueAttended`, `SingleWorker`,
  `UnloadIsLocal`, and the
  action property `DropsAreAttended`.  The invariant adds `TargetsPast`: no post
  holds a gateway of a later load, so a registration makes no waiting event
  current, and an unloaded gateway stays unloaded.
* `PushProofs`, of the slots: `SlotsTypeCorrect`, without any hypothesis;
  `KeepsRealtimePath` (`RealtimePath`) for an installation that has the
  terminal to itself, whose calls do not overlap and whose requests are refused
  but never lost (`OneInstallation`, `~Overlap`, `MaxLost = 0`: section 4 says
  how the code fails without each); `AllOnRecord` (`Recorded`) and
  `RemovalLeavesNothing` (`NothingLeft`) if in addition nobody else empties a
  slot (`Rewritten \subseteq {Empty}`).  `RealtimePath` is not inductive: what
  a call has read and chosen between two awaits matters.  `SlotsPathInv` adds
  that one caller at most is at work (`OneAtWork`), that a slot about to be
  written is a slot of the terminal or pushes to the entry already
  (`ChosenSlot`), that an entry that does not exist yet has no record
  (`FreshRecord`), that an entry without a record has settled for the event
  stream (`StreamOrRecord`), and that a recorded slot holds
  the entry's token unless it is being released (`RecordTrue`).
  `SlotsRecordInv` says why the next claim falls on the same slot: the slots
  before the recorded one belong to others (`CloudsBelow`).
* `LockoutProofs`: `TypeCorrect`; `ParkOutlastsLock`; `BurstStops`.
  `ParkCoversLock` is not
  inductive because a request that passed its check before the park may still
  renew the lock.  `MarginAhead` says that what is left of the park covers a
  lock renewed at the end of that request's patience, and `InTime` that no
  request outlives its patience.  `MarginAssumption` (margin >= patience) is
  the code's 30 s against timeouts of 10 s and 15 s.  `LateBounded` counts:
  the attempts made since the park and the requests that may still send
  (`Senders`) together never exceed the gate and the streams (`Counted`), and
  each late attempt takes one of the senders away.
* `PersonCacheProofs`: `TypeCorrect`; `OneFlight` (`FlightsLand`: `_inflight`
  holds just the persons asked for, and each is asked for once);
  `NamesRecent`, from `AnswersRecent` (an answer not yet saved was true no
  longer ago than it has waited) and the hypothesis `Filters`; `NamesKept`
  with the hypothesis that no name is empty.  Section 4 says what happens
  without the two hypotheses.  `SyncsAreComplete` (`SyncComplete`) counts
  ranks in the directory: `PagesCover` says that whoever is in front of the
  next position is saved or on the page, `FewBetween` that no page holds more
  users than it has positions, `EmptyPageIsLast` that an empty page is behind
  everybody.
* `ConnectionProofs`: `Refines` (every behaviour of the entry is one of
  `ListenerSpec`: the composition neither blocks nor changes what the listener
  does), and what follows for the listener by itself holds in the entry:
  `TypeCorrect` and `NeverLongAway` (`BackSoon`).  The latter's invariant says
  that while the listener sleeps, the time it was away and what is left of its
  pause make up at most one of its pauses.
* `ConnectionProofs`, of the bytes: `NothingIsMissed` (`NothingFallsBetween`)
  and `NewsOnce` (`LiveOnce`), for any sizes of chunks, sections and buffer, any
  overlap and any limit of a sweep.  Where a sweep resumes it leaves out only
  what has expired or is outrun (`ResumesWell`), and what it has not yet read
  stays ahead of it.
  The invariant (`StreamInv`, `Sound`) is about the sequence of everything
  between the terminal and the gateway, the sections not dispatched, the buffer
  and the wire: events are in order (`Ordered`), those that are live are newer
  than the last one handled (`NewerThan`), and each boundary and each event's
  body is followed by what the format says (`Framed`).  A read takes from the
  front of that sequence and never from within it (`ReadSplits`).  Why no live
  event is in what is taken: the buffer holds no delimiter, so that a body in it
  is followed by half a boundary at most, and a buffer that keeps that much and
  another chunk (`BufferAssumption`) cuts in front of the body.  TLC finds the
  event that is lost when the assumption fails (chunks of 4, a buffer of 6); in
  the code four megabytes stand against an event of some hundred bytes.
* `ConnectionProofs`, of the entry: a setup that was given up, or a
  coordinator that stopped, has a form open.
* `FrontendProofs`, of the forms: `TypeCorrect`; `OneEntry`; `EntriesProven`.
  The invariant of the last adds `FoundProven`: what a form carries past its probe was
  answered by the terminal it found, whatever changed since; `WriteKeeps` is
  the lemma about a write of such a form.
* `FrontendProofs`, of the card: `TimelineTypeCorrect`; `PagesSkipNothing`
  (`NothingSkipped`), `OnlyLiveRepeats` (`OnlyLiveTwice`) and the action
  property `LoadMoreEnds` (`CursorDescends`), for any number of terminals,
  events, requests and any page size.  The invariant follows an event through
  the merge: `GotNewest` says that it is in a store the request has yet to
  query, or among the rows it got, or so deep that these rows fill a page above
  it; then every store may be asked for one page only (`NewestFull`: what a
  page cuts away has a full page above it, in the page itself).  `GotOlder`
  keeps all rows below the cursor, `ListReached` the list above it.  Finite sets
  of numbers have a least element by the library's well-founded induction.

Only model-checked: all liveness (`EventuallyStored`, `OverlapHeals`,
`UrlChased`, `EventuallyAnnounced`, `LeftoversSwept`, `DanglingHeals`,
`PendingFetched`, `UnlocksAgain`, `Served`, `EventuallyKnown`,
`StreamReturns`, `ShownFollows`), which the prover cannot do.  Every invariant
and every action property that a run checks is a theorem; `SkipsOnlyTheOld`
(of `Reconciler`, with `QuietStart`) is a theorem that no run repeats.

## 6. Abstractions and what is not modelled

* Names, cards, JSON and multipart text: an event is its identity and the set
  of fields that are present.  Of the parser only the framing of the stream is
  modelled.  A section whose JSON is not an object, or whose
  `AccessControllerEvent` is null, ends the connection like any error of
  another kind (`StreamCrashes`).
* The store is a set of rows; its lock makes each query one step.  `VACUUM`,
  the devices table, the migrations and a store closed under a running sweep
  are not modelled; nor is the store that a failed setup leaves open.
* In `Lockout` nobody else attempts a login while the terminal is locked (the
  client could not know), `lock_remaining` is not truncated to whole seconds,
  and a locked answer names its time.
* In `PushSlots` a reboot of Home Assistant during a request is not modelled
  apart from a lost answer (`MaxLost`), and the event stream is assumed to
  exist on the terminal.
* In `Listener` the terminal sends its whole log on each connection, in order,
  and `currentEvent` is true just for what is newer.  Ending a section needs
  the next boundary, as in the code.
* In `PersonCache` a portrait is only "there" or "not"; `Patience` bounds how
  long its download may keep an answer from being saved (two timeouts in the
  code).
* In `ConfigFlow` ports are left out, user and password are one value, and the
  push slot in the entry's data is `PushSlots`'s.
* Capability discovery is a straight sequence of requests at setup that no
  other task meets; its answers choose what `PushSlots` and the entities take
  as given.  Diagnostics only read.  The options form writes numbers that are
  CONSTANTS here (and drops the request timeout that an earlier version
  stored).  The other entities render the last signal they received.
  `tools/discovery.py` is a stand-alone script that probes a terminal.

## 7. Plan

1. Theorems: that the sweep of `Listener` is what `Reconciler` does, by a
   refinement that forgets the pages.
2. `Connection` with both realtime routes: the choice of `PushSlots` in front
   of the listener.
3. The detail and image views next to a purge, and sweeps that outlive an
   unload.

