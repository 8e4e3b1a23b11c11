------------------------------ MODULE Listener ------------------------------
(***************************************************************************)
(* event_listener.py: the task that keeps the terminal's alertStream open, *)
(* cuts the bytes it reads into sections, hands the live events among them *)
(* to the gateway and asks for a sweep whenever the stream opens.          *)
(*                                                                         *)
(* The terminal numbers its events 1, 2, ...  On every connection it first *)
(* sends its whole log again; an event is live (currentEvent true) when it *)
(* is newer than that.  A section is four tokens <<event, k>>: the two     *)
(* halves of the boundary (1, 2) and of the body (3, 4), so that a chunk   *)
(* may end within either.  Sections of event 0 are heartbeats and the like.*)
(*                                                                         *)
(* A sweep resumes a few serials below the newest row of any source, takes *)
(* so many records and none older than the search window, one at a time.   *)
(* Reconciler has its pages, queries and photos.                           *)
(***************************************************************************)
EXTENDS Integers, Sequences, Functions

CONSTANTS
    LastEvent,     \* bound: events the terminal emits
    MaxChunk,      \* tokens a read returns at most
    MaxBuffer,     \* _MAX_BUFFER
    FillerSizes,   \* lengths of the bodies of other sections
    MaxFillers,    \* bound: other sections in a connection
    Backoff,       \* RECONNECT_BACKOFF_S
    BusyWait,      \* the pause after HikvisionStreamBusyError
    LockWait,      \* the pause after HikvisionLockoutError
    CrashWait,     \* the pause after an error of another kind
    SerialOverlap, \* _SERIAL_OVERLAP
    SweepLimit,    \* records in _MAX_PAGES_PER_RUN pages
    MaxFaults      \* bound: changes of the terminal, broken streams, failed
                   \* sweeps and reloads

\* "locked" is a terminal that is locked, or a client that is parked.
Moods == {"serves", "busy", "locked", "wrong", "forbidden", "down"}

ASSUME ListenerAssumption ==
    /\ LastEvent \in Nat \ {0}
    /\ MaxChunk \in Nat \ {0} /\ MaxBuffer \in Nat
    /\ FillerSizes \subseteq Nat \ {0} /\ MaxFillers \in Nat
    /\ Backoff \in Seq(Nat) /\ Len(Backoff) # 0
    /\ BusyWait \in Nat /\ LockWait \in Nat /\ CrashWait \in Nat
    /\ SerialOverlap \in Nat \ {0} /\ SweepLimit \in Nat
    /\ MaxFaults \in Nat

\* A body, the half of a boundary behind it and one more chunk fit into the
\* buffer.
ASSUME BufferAssumption == MaxBuffer >= MaxChunk + 3

NoSweep == -1

VARIABLES
    emitted,      \* the terminal's newest event
    expired,      \* its newest event outside the search window (7 days)
    mood,         \* how it answers the opening of the stream
    wire,         \* tokens sent on this connection and not yet read
    fillers,
    base,         \* its newest event when the connection was opened
    pc,           \* where the task is suspended
    state,        \* gateway.listener_state
    attempt,      \* attempt, as far as it selects a delay
    nap,          \* what is left of the pause
    waited,       \* ticks the terminal serves without being connected
    buffer,
    todo,         \* sections split off and not yet dispatched
    latest,       \* the newest live event handled
    stored,       \* events in the database
    sweepFrom,    \* the next record of the running sweep, 0 before it has read
                  \* where to resume, or NoSweep
    sweepTo,      \* its last record
    overlooked,   \* 1 if an event may wait for the next sweep: one failed, met
                  \* its limit, or was under way when the stream opened
    faults

device   == <<emitted, expired, mood>>
stream   == <<wire, fillers, base>>
task     == <<pc, state, attempt, nap>>
reading  == <<buffer, todo>>
database == <<latest, stored>>
sweep    == <<sweepFrom, sweepTo, overlooked>>
vars     == <<device, stream, task, waited, reading, database, sweep, faults>>

Fault == faults < MaxFaults /\ faults' = faults + 1

Init ==
    /\ emitted \in 0..1 /\ expired = 0 /\ mood = "serves"
    /\ wire = <<>> /\ fillers = 0 /\ base = 0
    /\ pc = "off" /\ state = "init" /\ attempt = 0 /\ nap = 0 /\ waited = 0
    /\ buffer = <<>> /\ todo = <<>>
    /\ latest = 0 /\ stored = {}
    /\ sweepFrom = NoSweep /\ sweepTo = 0 /\ overlooked = 0
    /\ faults = 0

Connected == pc = "reading"

-----------------------------------------------------------------------------
(* Sections and chunks.                                                    *)

Section(e, size) == [k \in 1..size + 2 |-> <<e, k>>]

\* The log: one section after the other.
Replay(n) == [i \in 1..4 * n |-> <<(i + 3) \div 4, 1 + ((i - 1) % 4)>>]

\* The delimiters in s, by the position of their second half.
Delimiters(s) ==
    {i \in 2..Len(s) : s[i - 1][2] = 1 /\ s[i][2] = 2}

LastDelimiter(s) ==
    IF Delimiters(s) = {} THEN 0 ELSE CHOOSE i \in Delimiters(s) :
        \A j \in Delimiters(s) : j <= i

\* split_stream_buffer: the sections before the last delimiter.
Complete(s) == SubSeq(s, 1, LastDelimiter(s))

\* Mutant: everything that was split is dropped, the unfinished section too.
Remainder_Dropped(s) == IF LastDelimiter(s) = 0 THEN s ELSE <<>>

\* It keeps what follows the last delimiter.
Remainder(s) == SubSeq(s, LastDelimiter(s) + 1, Len(s))

\* A buffer that is too long keeps its end.
Trimmed(s) ==
    IF Len(s) > MaxBuffer THEN SubSeq(s, Len(s) - MaxBuffer + 1, Len(s)) ELSE s

-----------------------------------------------------------------------------
(* The terminal.                                                           *)

Emit ==
    /\ emitted < LastEvent
    /\ emitted' = emitted + 1
    /\ wire' = IF Connected THEN wire \o Section(emitted', 2) ELSE wire
    /\ UNCHANGED <<expired, mood, fillers, base, task, waited, reading,
                   database, sweep, faults>>

\* A week after it, an event leaves the search window.
Expire ==
    /\ expired < emitted
    /\ expired' = expired + 1
    /\ UNCHANGED <<emitted, mood, stream, task, waited, reading, database,
                   sweep, faults>>

\* A section that is no access event: a heartbeat, or a blob without end.
EmitFiller ==
    /\ Connected /\ fillers < MaxFillers
    /\ fillers' = fillers + 1
    /\ \E n \in FillerSizes : wire' = wire \o Section(0, n)
    /\ UNCHANGED <<device, base, task, waited, reading, database, sweep,
                   faults>>

\* It is switched off, its slot is held, its password is changed, ...
ChangeMood ==
    /\ Fault
    /\ \E m \in Moods \ {mood} : mood' = m
    /\ waited' = 0
    /\ UNCHANGED <<emitted, expired, stream, task, reading, database, sweep>>

-----------------------------------------------------------------------------
(* _run: connecting and pausing.                                           *)

\* The stream and the locals of _connect_and_read are gone.
Closed ==
    /\ wire' = <<>> /\ fillers' = 0 /\ base' = 0
    /\ buffer' = <<>> /\ todo' = <<>>

\* async_run_once takes the lock.
SweepBegins == sweepFrom' = 0 /\ sweepTo' = 0 /\ overlooked' = 0

\* The top of the loop.
Reopen(a) ==
    /\ pc' = "opening"
    /\ attempt' = a
    /\ state' = IF a = 0 THEN "connecting" ELSE "reconnecting"
    /\ nap' = 0

Sleep(s, seconds) == pc' = "sleeping" /\ state' = s /\ nap' = seconds

\* async_start, of a new listener.
Start ==
    /\ pc = "off"
    /\ Reopen(0)
    /\ UNCHANGED <<device, stream, waited, reading, database, sweep, faults>>

\* The terminal starts to send; on_reconnect finds a sweep running or starts
\* one.
Connect ==
    /\ pc = "opening" /\ mood = "serves"
    /\ pc' = "reading" /\ state' = "connected"
    /\ base' = emitted /\ wire' = Replay(emitted)
    /\ waited' = 0
    /\ \/ sweepFrom = NoSweep /\ SweepBegins
       \/ sweepFrom = 0 /\ UNCHANGED sweep
       \/ sweepFrom > 0 /\ overlooked' = 1 /\ UNCHANGED <<sweepFrom, sweepTo>>
    /\ UNCHANGED <<device, fillers, attempt, nap, reading, database, faults>>

\* 404 twice: a previous connection still holds the slot.
Busy ==
    /\ pc = "opening" /\ mood = "busy"
    /\ Sleep("degraded", BusyWait)
    /\ UNCHANGED <<device, stream, attempt, waited, reading, database,
                   sweep, faults>>

\* A 401 that names a lock or counts failed logins.
LockedOut ==
    /\ pc = "opening" /\ mood \in {"locked", "wrong"}
    /\ Sleep("degraded", LockWait)
    /\ UNCHANGED <<device, stream, attempt, waited, reading, database,
                   sweep, faults>>

\* Mutant: the delay after the last one of the table.
Delay_PastEnd ==
    IF attempt < Len(Backoff) THEN Backoff[attempt + 1]
    ELSE attempt * Backoff[Len(Backoff)]

Delay == Backoff[IF attempt < Len(Backoff) THEN attempt + 1 ELSE Len(Backoff)]

\* The branch of TimeoutError, HikvisionError and OSError.
BackOff ==
    /\ Sleep(state, Delay)
    /\ attempt' = IF attempt < Len(Backoff) THEN attempt + 1 ELSE attempt

\* Unreachable, 403, or a 401 after a digest without a reason: no
\* HikvisionAuthError leaves async_stream, its branch is never taken.
OpenFails ==
    /\ pc = "opening" /\ mood \in {"wrong", "forbidden", "down"}
    /\ BackOff
    /\ UNCHANGED <<device, stream, waited, reading, database, sweep,
                   faults>>

Tick ==
    /\ pc = "sleeping" /\ nap > 0
    /\ nap' = nap - 1
    /\ waited' = IF mood = "serves" THEN waited + 1 ELSE 0
    /\ UNCHANGED <<device, stream, pc, state, attempt, reading, database,
                   sweep, faults>>

\* Mutant: only async_stop ends a pause.
Wake_Never ==
    /\ pc = "sleeping" /\ nap = 0
    /\ UNCHANGED vars

Wake ==
    /\ pc = "sleeping" /\ nap = 0
    /\ Reopen(attempt)
    /\ UNCHANGED <<device, stream, waited, reading, database, sweep,
                   faults>>

-----------------------------------------------------------------------------
(* _connect_and_read and _dispatch_section.                                *)

\* Mutant: currentEvent is not looked at.
IsLive_All(e) == e > 0

IsLive(e) == e > base

\* The live events in s, by the position where their body ends.  What is left
\* of a body that was cut off does not parse and is skipped.
News(s) ==
    {i \in 2..Len(s) : s[i - 1][2] = 3 /\ s[i][2] = 4 /\ IsLive(s[i][1])}

\* The sections that are not live events are dropped without an await.
Dispatch(s) == IF News(s) = {} THEN <<>> ELSE s

\* A chunk arrives and is split.
Read ==
    /\ pc = "reading" /\ todo = <<>>
    /\ \E n \in 1..MaxChunk :
        /\ n <= Len(wire)
        /\ wire' = SubSeq(wire, n + 1, Len(wire))
        /\ LET bytes == Trimmed(buffer \o SubSeq(wire, 1, n))
           IN /\ todo' = Dispatch(Complete(bytes))
              /\ buffer' = Remainder(bytes)
    /\ UNCHANGED <<device, fillers, base, task, waited, database, sweep,
                   faults>>

\* The next live event is done with: the sections behind it are next.
Proceed(i) ==
    /\ \A j \in News(todo) : i <= j
    /\ todo' = Dispatch(SubSeq(todo, i + 1, Len(todo)))

\* gateway.async_handle of the next live event.
Handle ==
    /\ pc = "reading"
    /\ \E i \in News(todo) :
        /\ Proceed(i)
        /\ stored' = stored \cup {todo[i][1]}
        /\ latest' = todo[i][1]
    /\ UNCHANGED <<device, stream, task, waited, buffer, sweep, faults>>

\* async_handle fails, which is logged.
HandleFails ==
    /\ pc = "reading"
    /\ \E i \in News(todo) : Proceed(i)
    /\ Fault
    /\ overlooked' = 1
    /\ UNCHANGED <<device, stream, task, waited, buffer, database, sweepFrom,
                   sweepTo>>

\* The stream ends cleanly: no pause, and only here attempt starts over.
EndOfStream ==
    /\ pc = "reading" /\ todo = <<>>
    /\ Fault
    /\ Closed /\ Reopen(0)
    /\ UNCHANGED <<device, waited, database, sweep>>

\* Nothing for EVENT_IDLE_TIMEOUT_S, or the connection breaks: listener_state
\* still says connected.
StreamFails ==
    /\ pc = "reading" /\ todo = <<>>
    /\ Fault
    /\ Closed /\ BackOff
    /\ UNCHANGED <<device, waited, database, sweep>>

\* A payload error of aiohttp, or a section that is not what it should be.
StreamCrashes ==
    /\ pc = "reading" /\ todo = <<>>
    /\ Fault
    /\ Closed /\ Sleep(state, CrashWait)
    /\ UNCHANGED <<device, attempt, waited, database, sweep>>

\* async_stop at any await; a sweep that is under way meets a closed store.
Halt ==
    /\ Closed
    /\ pc' = "off" /\ state' = "disconnected" /\ attempt' = 0 /\ nap' = 0
    /\ waited' = 0
    /\ sweepFrom' = NoSweep /\ sweepTo' = 0 /\ overlooked' = 0
    /\ UNCHANGED <<emitted, expired, database>>

Stop == pc # "off" /\ Fault /\ Halt /\ UNCHANGED mood

\* A form of the config flow was given credentials that work: the entry is
\* reloaded with them.
NewCredentials ==
    /\ mood \in {"serves", "busy", "wrong", "forbidden"}
    /\ mood' = IF mood = "busy" THEN "busy" ELSE "serves"
    /\ Halt
    /\ UNCHANGED faults

-----------------------------------------------------------------------------
(* async_run_once of the reconciler, by its timer.                         *)

Answers == mood \in {"serves", "busy"}

SweepStarts ==
    /\ pc # "off" /\ sweepFrom = NoSweep
    /\ SweepBegins
    /\ UNCHANGED <<device, stream, task, waited, reading, database, faults>>

\* The newest row and its predecessors are read again.
OverlapBegin(max) ==
    IF max > SerialOverlap THEN max - SerialOverlap + 1 ELSE 1

\* begin_serial: a decision without a pictureURL may lead further back.
ResumesAt(begin) ==
    \/ stored = {} /\ begin = 1
    \/ \E max \in stored :
        /\ \A e \in stored : e <= max
        /\ begin <= OverlapBegin(max)

\* async_max_serial is answered, and the search begins: the newest row is that
\* of the stream if it was faster.
SweepResumes ==
    /\ sweepFrom = 0
    /\ \E begin \in 1..LastEvent :
        /\ ResumesAt(begin)
        /\ sweepFrom' = IF begin > expired THEN begin ELSE expired + 1
    /\ \/ /\ emitted < sweepFrom' + SweepLimit
          /\ sweepTo' = emitted /\ overlooked' = 0
       \/ /\ emitted >= sweepFrom' + SweepLimit
          /\ sweepTo' = sweepFrom' + SweepLimit - 1 /\ overlooked' = 1
    /\ UNCHANGED <<device, stream, task, waited, reading, database, faults>>

\* The next record is handed to the gateway.
SweepStores ==
    /\ 0 < sweepFrom /\ sweepFrom <= sweepTo /\ Answers
    /\ stored' = stored \cup {sweepFrom}
    /\ sweepFrom' = sweepFrom + 1
    /\ UNCHANGED <<device, stream, task, waited, reading, latest, sweepTo,
                   overlooked, faults>>

\* After the photos: the lock is given back.
SweepEnds ==
    /\ sweepFrom > sweepTo
    /\ sweepFrom' = NoSweep /\ sweepTo' = 0
    /\ UNCHANGED <<device, stream, task, waited, reading, database, overlooked,
                   faults>>

\* A search the terminal does not answer, or not as it should.
Unanswered == IF Answers THEN Fault ELSE UNCHANGED faults

\* What came before stays stored.
SweepFails ==
    /\ sweepFrom > 0
    /\ sweepFrom' = NoSweep /\ sweepTo' = 0 /\ overlooked' = 1
    /\ Unanswered
    /\ UNCHANGED <<device, stream, task, waited, reading, database>>

-----------------------------------------------------------------------------
LoopNext ==
    \/ Connect \/ Busy \/ LockedOut \/ OpenFails \/ Tick \/ Wake
    \/ Read \/ HandleFails
    \/ EndOfStream \/ StreamFails \/ StreamCrashes

ListenerNext ==
    \/ Emit \/ Expire \/ EmitFiller \/ ChangeMood
    \/ Start \/ Stop \/ NewCredentials
    \/ LoopNext \/ Handle
    \/ SweepStarts \/ SweepResumes \/ SweepStores \/ SweepEnds \/ SweepFails

ListenerSpec == Init /\ [][ListenerNext]_vars

\* Requests and pauses end.  Nothing is assumed of the terminal.
ListenerFairness ==
    /\ WF_vars(Connect \/ Busy \/ LockedOut \/ OpenFails)
    /\ WF_vars(Tick \/ Wake)

-----------------------------------------------------------------------------
TypeOK ==
    /\ emitted \in 0..LastEvent /\ mood \in Moods
    /\ fillers \in 0..MaxFillers /\ base \in 0..emitted
    /\ pc \in {"off", "opening", "reading", "sleeping"}
    /\ state \in {"init", "connecting", "reconnecting", "connected", "degraded",
                  "disconnected"}
    /\ attempt \in 0..Len(Backoff) /\ nap \in Nat /\ waited \in Nat
    /\ sweepFrom \in NoSweep..LastEvent + 1 /\ sweepTo \in 0..emitted
    /\ expired \in 0..emitted
    /\ overlooked \in 0..1
    /\ faults \in 0..MaxFaults

\* The body of e is in s, and whole.
Holds(s, e) == \E i \in 2..Len(s) : s[i - 1] = <<e, 3>> /\ s[i] = <<e, 4>>

\* The running sweep will read e, or has yet to read where it resumes.
Swept(e) == sweepFrom = 0 \/ (0 < sweepFrom /\ sweepFrom <= e /\ e <= sweepTo)

\* So many newer rows that no sweep goes back to e of itself.
Outrun(e) == \E max \in stored : e <= max - SerialOverlap

(* While the stream is open nothing falls between the stream and the sweep  *)
(* that _connect_and_read asked for: an event not yet in the database is    *)
(* still ahead of the running sweep, or it is live and still to come, in    *)
(* whatever pieces the bytes arrive.  What a failed sweep left, or one that *)
(* was under way when the stream opened, waits for the next, which finds it *)
(* only as long as it is in the search window and not outrun.               *)
NothingFallsBetween ==
    (Connected /\ overlooked = 0) =>
        \A e \in expired + 1..emitted :
            \/ e \in stored
            \/ Swept(e)
            \/ IsLive(e) /\ (Holds(todo, e) \/ Holds(buffer \o wire, e))
            \/ Outrun(e)

(* The log the terminal sends again on every connection is never taken for  *)
(* news: over all connections the listener hands on each event once, in     *)
(* order.                                                                   *)
LiveOnce == [][latest' > latest]_latest

Pauses == Range(Backoff) \cup {BusyWait, LockWait, CrashWait}

(* The listener knocks again within the longest of its pauses: a terminal   *)
(* that serves is not left waiting longer, however the attempts before      *)
(* failed.                                                                  *)
BackSoon == \E p \in Pauses : waited <= p

=============================================================================
