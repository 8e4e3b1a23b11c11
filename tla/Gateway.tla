------------------------------ MODULE Gateway ------------------------------
(***************************************************************************)
(* gateway.py: every copy of an event, whichever of the three sources      *)
(* brings it, goes through async_handle.  The listener task, the push      *)
(* worker and the sweep each run at most one async_handle at a time, and   *)
(* interleave at its awaits.                                               *)
(*                                                                         *)
(* Events are numbered in the order of their timestamps.  A row or a copy  *)
(* is the set of its fields that are not NULL, among the ones the gateway  *)
(* completes later: the person's name, the picture URL and the photo file. *)
(***************************************************************************)
EXTENDS Integers

CONSTANTS
    Handlers,    \* the sources at work, of stream, push and sweep
    Linked,      \* those whose envelopes have a pictureURL
    Events,      \* timestamps of the terminal's events
    Decisions,   \* events that are access decisions
    Unwanted,    \* decisions whose photos the options say not to store
    MaxFaults    \* bound: restarts and broken handlers in a behaviour

Fields == {"name", "url", "photo"}
AllHandlers == {"stream", "push", "sweep"}

ASSUME EventsAssumption ==
    /\ Handlers \subseteq AllHandlers /\ Linked \subseteq AllHandlers
    /\ Events \subseteq Nat \ {0}
    /\ Decisions \subseteq Events
    /\ Unwanted \subseteq Decisions
    /\ MaxFaults \in Nat

\* What a source's copy may carry: a name, a pictureURL if its envelopes have
\* one, and an inline JPEG if it is a push.
Carriable(h) ==
    {"name"} \cup (IF h \in Linked THEN {"url"} ELSE {})
             \cup (IF h = "push" THEN {"photo"} ELSE {})

NoEvent == 0

VARIABLES
    stored,       \* primary keys of the events table
    row,          \* non-NULL fields of each row
    bus,          \* bus events fired for each event
    lastAccess,   \* gateway.last_access_event: its event, or NoEvent
    lastFields,   \* the fields that object carries
    pc,           \* where each handler is suspended
    job,          \* the event it handles
    copy,         \* the fields of its copy of the event
    patch,        \* _maybe_upgrade's fields, computed from the row it read
    newest,       \* last event each realtime source delivered
    dropped,      \* events whose inline photo came with a duplicate
    faults

rows     == <<stored, row>>
surface  == <<lastAccess, lastFields>>
handlers == <<pc, job, copy, patch>>
sources  == <<newest, dropped>>
vars     == <<rows, bus, surface, handlers, sources, faults>>

Init ==
    /\ stored = {} /\ row = [e \in Events |-> {}]
    /\ bus = [e \in Events |-> 0]
    /\ lastAccess = NoEvent /\ lastFields = {}
    /\ pc = [h \in Handlers |-> "idle"]
    /\ job = [h \in Handlers |-> NoEvent]
    /\ copy = [h \in Handlers |-> {}]
    /\ patch = [h \in Handlers |-> {}]
    /\ newest = [h \in Handlers |-> 0] /\ dropped = {}
    /\ faults = 0

\* The locals of async_handle end with it.
Return(h) ==
    /\ pc' = [pc EXCEPT ![h] = "idle"]
    /\ job' = [job EXCEPT ![h] = NoEvent]
    /\ copy' = [copy EXCEPT ![h] = {}]
    /\ patch' = [patch EXCEPT ![h] = {}]

Goto(h, to) == pc' = [pc EXCEPT ![h] = to]

-----------------------------------------------------------------------------
\* A realtime source delivers in order; the sweep re-reads what it likes.
Delivers(h, e) ==
    /\ pc[h] = "idle"
    /\ h # "sweep" => e > newest[h]
    /\ newest' = IF h = "sweep" THEN newest ELSE [newest EXCEPT ![h] = e]

\* Mutant: INSERT OR REPLACE, every copy counts as new.
Handle_Replaces(h, e) ==
    /\ Delivers(h, e)
    /\ \E carried \in SUBSET Carriable(h) :
        /\ stored' = stored \cup {e}
        /\ row' = [row EXCEPT ![e] = carried]
        /\ job' = [job EXCEPT ![h] = e]
        /\ copy' = [copy EXCEPT ![h] = carried]
        /\ Goto(h, "enrich")
    /\ UNCHANGED <<bus, surface, patch, dropped, faults>>

\* The first await of async_handle: INSERT under the primary key.  A new row
\* goes on to _enrich, a duplicate with something to add to _maybe_upgrade.
Handle(h, e) ==
    /\ Delivers(h, e)
    /\ \E carried \in SUBSET Carriable(h) :
        \/ /\ e \notin stored
           /\ stored' = stored \cup {e}
           /\ row' = [row EXCEPT ![e] = carried]
           /\ job' = [job EXCEPT ![h] = e]
           /\ copy' = [copy EXCEPT ![h] = carried]
           /\ Goto(h, "enrich")
           /\ UNCHANGED <<patch, dropped>>
        \/ /\ e \in stored
           /\ carried \cap {"url", "name"} # {}
           /\ dropped' = dropped \cup (IF "photo" \in carried THEN {e} ELSE {})
           /\ job' = [job EXCEPT ![h] = e]
           /\ copy' = [copy EXCEPT ![h] = carried]
           /\ Goto(h, "compare")
           /\ UNCHANGED <<rows, patch>>
        \/ /\ e \in stored
           /\ carried \cap {"url", "name"} = {}
           /\ UNCHANGED <<rows, handlers, dropped>>
    /\ UNCHANGED <<bus, surface, faults>>

WantImage(e) == e \notin Unwanted

\* Mutant: the row is not updated with what the enrichment found.
Enrich_NotSaved(h) ==
    /\ pc[h] = "enrich"
    /\ \E got \in SUBSET {"name"} : copy' = [copy EXCEPT ![h] = @ \cup got]
    /\ Goto(h, "announce")
    /\ UNCHANGED <<rows, bus, surface, job, patch, sources, faults>>

\* Mutant: nothing to update, return without announcing.
Enrich_EarlyReturn(h) ==
    /\ pc[h] = "enrich"
    /\ \/ /\ copy' = [copy EXCEPT ![h] = @ \cup {"name"}]
          /\ row' = [row EXCEPT ![job[h]] = @ \cup (copy'[h] \cap {"name", "photo"})]
          /\ Goto(h, "announce")
          /\ UNCHANGED <<job, patch>>
       \/ copy[h] = {} /\ Return(h) /\ UNCHANGED row
    /\ UNCHANGED <<stored, bus, surface, sources, faults>>

\* _enrich: the person lookup and the download may each come back empty.
Enrich(h) ==
    /\ pc[h] = "enrich"
    /\ LET obtainable == {"name"} \cup
               (IF "url" \in copy[h] /\ WantImage(job[h]) THEN {"photo"} ELSE {})
       IN \E got \in SUBSET obtainable : copy' = [copy EXCEPT ![h] = @ \cup got]
    /\ row' = [row EXCEPT ![job[h]] = @ \cup (copy'[h] \cap {"name", "photo"})]
    /\ Goto(h, "announce")
    /\ UNCHANGED <<stored, bus, surface, job, patch, sources, faults>>

\* The synchronous tail of async_handle for a new event.
Announce(h) ==
    /\ pc[h] = "announce"
    /\ bus' = [bus EXCEPT ![job[h]] = @ + 1]
    /\ \/ /\ job[h] \in Decisions
          /\ lastAccess' = job[h]
          /\ lastFields' = copy[h]
       \/ job[h] \notin Decisions /\ UNCHANGED surface
    /\ Return(h)
    /\ UNCHANGED <<rows, sources, faults>>

\* _maybe_upgrade reads the row and decides what it will write.
Compare(h) ==
    /\ pc[h] = "compare"
    /\ LET lacking == (copy[h] \cap {"url", "name"}) \ row[job[h]]
           needPhoto == /\ "url" \in copy[h]
                        /\ "photo" \notin row[job[h]]
                        /\ WantImage(job[h])
       IN \E got \in SUBSET (IF needPhoto THEN {"photo"} ELSE {}) :
            \/ /\ lacking \cup got = {}
               /\ Return(h)
            \/ /\ lacking \cup got # {}
               /\ patch' = [patch EXCEPT ![h] = lacking \cup got]
               /\ copy' = [copy EXCEPT ![h] = @ \cup got]
               /\ Goto(h, "patch")
               /\ UNCHANGED job
    /\ UNCHANGED <<rows, bus, surface, sources, faults>>

\* Mutant: an upgraded row is announced again.
Patch_Announces(h) ==
    /\ pc[h] = "patch"
    /\ row' = [row EXCEPT ![job[h]] = @ \cup patch[h]]
    /\ Goto(h, "announce")
    /\ UNCHANGED <<stored, bus, surface, job, copy, patch, sources, faults>>

\* The UPDATE that follows the download.
Patch(h) ==
    /\ pc[h] = "patch"
    /\ row' = [row EXCEPT ![job[h]] = @ \cup patch[h]]
    /\ Goto(h, "refresh")
    /\ UNCHANGED <<stored, bus, surface, job, copy, patch, sources, faults>>

\* Mutant: the timestamp is not compared.
IsLatest_Always(e) == e \in Events

\* The event still is, or is now, the latest access.
IsLatest(e) ==
    \/ lastAccess = NoEvent
    \/ lastAccess = e
    \/ e >= lastAccess

\* The tail of _maybe_upgrade: show the completed copy.
Refresh(h) ==
    /\ pc[h] = "refresh"
    /\ \/ /\ job[h] \in Decisions /\ IsLatest(job[h])
          /\ lastAccess' = job[h]
          /\ lastFields' = copy[h] \cup (row[job[h]] \cap {"name"})
       \/ /\ ~ (job[h] \in Decisions /\ IsLatest(job[h]))
          /\ UNCHANGED surface
    /\ Return(h)
    /\ UNCHANGED <<rows, bus, sources, faults>>

-----------------------------------------------------------------------------
\* An error that async_handle does not catch, or the cancellation of its task,
\* ends it at an await; its caller logs the error and goes on.
Break(h) ==
    /\ pc[h] # "idle"
    /\ faults < MaxFaults
    /\ faults' = faults + 1
    /\ Return(h)
    /\ UNCHANGED <<rows, bus, surface, sources>>

\* The entry is set up again: async_restore takes the newest decision row.
Restart ==
    /\ faults < MaxFaults
    /\ faults' = faults + 1
    /\ \/ /\ lastAccess' \in stored \cap Decisions
          /\ \A e \in stored \cap Decisions : e <= lastAccess'
          /\ lastFields' = row[lastAccess'] \cap {"name", "photo"}
       \/ /\ stored \cap Decisions = {}
          /\ lastAccess' = NoEvent /\ lastFields' = {}
    /\ pc' = [h \in Handlers |-> "idle"]
    /\ job' = [h \in Handlers |-> NoEvent]
    /\ copy' = [h \in Handlers |-> {}]
    /\ patch' = [h \in Handlers |-> {}]
    /\ UNCHANGED <<rows, bus, sources>>

Step(h) == Enrich(h) \/ Announce(h) \/ Compare(h) \/ Patch(h) \/ Refresh(h)

Next ==
    \/ \E h \in Handlers : Step(h) \/ Break(h) \/ \E e \in Events : Handle(h, e)
    \/ Restart

\* Every await of a handler returns: requests have timeouts, the store answers.
Fairness == \A h \in Handlers : WF_vars(Step(h))

Spec == Init /\ [][Next]_vars
FairSpec == Spec /\ Fairness

-----------------------------------------------------------------------------
TypeOK ==
    /\ stored \in SUBSET Events
    /\ row \in [Events -> SUBSET Fields]
    /\ bus \in [Events -> Nat]
    /\ lastAccess \in (stored \cap Decisions) \cup {NoEvent}
    /\ lastFields \in SUBSET Fields
    /\ pc \in [Handlers -> {"idle", "enrich", "announce", "compare", "patch",
                            "refresh"}]
    /\ job \in [Handlers -> stored \cup {NoEvent}]
    /\ copy \in [Handlers -> SUBSET Fields]
    /\ patch \in [Handlers -> SUBSET Fields]
    /\ newest \in [Handlers -> Events \cup {0}]
    /\ dropped \in SUBSET stored
    /\ faults \in 0..MaxFaults
    /\ \A h \in Handlers : pc[h] = "idle" <=> job[h] = NoEvent

Announcing(h) == pc[h] \in {"enrich", "announce"}

(* However the three sources interleave, and whatever restarts cut them     *)
(* short, automations see one bus event per access event: async_handle      *)
(* fires it only for the copy whose INSERT succeeded.                       *)
AtMostOnce == \A e \in Events : bus[e] <= 1

(* What makes AtMostOnce inductive: the handlers about to announce own      *)
(* their events, which nobody announced yet.                                *)
OneOwner ==
    /\ \A e \in Events : bus[e] > 0 => e \in stored
    /\ \A h \in Handlers : Announcing(h) => bus[job[h]] = 0
    /\ \A g, h \in Handlers :
        (Announcing(g) /\ Announcing(h) /\ job[g] = job[h]) => g = h

Log == INSTANCE EventLog WITH recorded <- stored, fired <- bus

(* The gateway implements the abstract event log.                           *)
ImplementsEventLog == Log!Spec

(* The "last access" surface goes back in time only to an event that is     *)
(* being announced, so for each event once at most: neither a late photo    *)
(* nor a restart nor any later copy brings an old access back.              *)
RewindsOnlyForNews ==
    [][lastAccess' < lastAccess => bus'[lastAccess'] > bus[lastAccess']]_vars

(* const.py: the bus event is fired for every normalized access event, as   *)
(* long as no handler breaks and nothing restarts before it.                *)
EventuallyAnnounced ==
    \A e \in Events : (e \in stored) ~> (bus[e] > 0 \/ faults > 0)

InlinePhoto(e) == e \in dropped

(* What the "last access" surface shows is in the database, so a restart    *)
(* that seeds it from there loses nothing, but for the inline photo that a  *)
(* push brought along for a row that was there already: no UPDATE saves it. *)
SurfaceIsStored ==
    lastAccess # NoEvent =>
        /\ "name" \in lastFields => "name" \in row[lastAccess]
        /\ "photo" \in lastFields
               => "photo" \in row[lastAccess] \/ InlinePhoto(lastAccess)

=============================================================================
