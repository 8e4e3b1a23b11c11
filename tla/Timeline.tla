------------------------------ MODULE Timeline ------------------------------
(***************************************************************************)
(* The timeline: EventsView.get (http_api.py) pages through the events     *)
(* tables of every loaded entry under one cursor, and the Lovelace card    *)
(* builds its list from the pages and from the live subscription, while    *)
(* events are inserted and purged and entries reload.                      *)
(*                                                                         *)
(* Events are access decisions, numbered in the order of their timestamps  *)
(* and uids, which is the order of the query and of the cursor.  A store   *)
(* is named by the events its terminal may emit.  Of the card's filters    *)
(* the result is modelled, the only one that _onLive looks at as well: the *)
(* period and the person narrow the WHERE clause of the pages, but a live  *)
(* event comes on top whatever they say.  The list is a set: the order of  *)
(* its rows is left out.                                                   *)
(***************************************************************************)
EXTENDS Integers, FiniteSets

CONSTANTS
    Stores,       \* one set of events for each entry, disjoint
    Granted,      \* events whose access_result is "granted"
    Old,          \* events stored before the card is opened
    Wanted,       \* the card's entry_id; {} merges every terminal
    Limit,        \* events per page
    MaxRequests,  \* bound: requests of the card in flight at once
    MaxLosses     \* bound: rows purged and entries unloaded in a behaviour

Events == UNION Stores

ASSUME StoresAssumption ==
    /\ \A s \in Stores : s \subseteq Nat \ {0} /\ IsFiniteSet(s)
    /\ IsFiniteSet(Stores)
    /\ \A s, t \in Stores : s # t => s \cap t = {}
    /\ Granted \subseteq Events
    /\ Old \subseteq Events
    /\ Wanted \in Stores \cup {{}}

ASSUME BoundsAssumption ==
    Limit \in Nat \ {0} /\ MaxRequests \in Nat \ {0} /\ MaxLosses \in Nat

Filters == {"all", "granted"}
NoCursor == 0
Slots == 1..MaxRequests

VARIABLES
    rows,       \* events in the tables
    unsent,     \* inserted, the subscription's message not yet received
    loaded,     \* stores of the entries that are loaded
    losses,
    filter,     \* card._filters.result
    list,       \* card._events
    twice,      \* the events that list holds twice
    cursor,     \* card._cursor
    loading,    \* card._loading
    request,    \* what each request in flight asked for and has so far
    base,       \* history: rows the list promises to show down to its cursor
    listFilter, \* history: the filter the list was requested with
    whole,      \* history: every page was requested for the list it joined
    live        \* history: events the subscription put into the list

tables   == <<rows, unsent>>
runtimes == <<loaded, losses>>
card     == <<filter, list, twice, cursor, loading>>
history  == <<base, listFilter, whole, live>>
timelineVars == <<tables, runtimes, card, request, history>>

Idle == [kind |-> "none", filter |-> "all", before |-> NoCursor, todo |-> {},
         got |-> {}, snap |-> {}]

TimelineInit ==
    /\ rows = Old /\ unsent = {}
    /\ loaded = Stores /\ losses = 0
    /\ filter = "all" /\ loading = FALSE
    /\ list = {} /\ twice = {} /\ cursor = NoCursor
    /\ request = [q \in Slots |-> Idle]
    /\ base = {} /\ listFilter = "all" /\ whole = TRUE /\ live = {}

-----------------------------------------------------------------------------
\* The WHERE clause of a query under a filter and a cursor.
Matches(e, f) == f = "all" \/ e \in Granted

\* (timestamp, event_uid) < (?, ?)
Older(e, before) == before = NoCursor \/ e < before

\* ORDER BY timestamp DESC, event_uid DESC LIMIT ?
Newest(S) == {e \in S : Cardinality({f \in S : f > e}) < Limit}

Selected(s, r) ==
    Newest({e \in rows \cap s : Matches(e, r.filter) /\ Older(e, r.before)})

\* The entry asked for, or every loaded entry when it is not among them.
Targets == IF Wanted \in loaded THEN {Wanted} ELSE loaded

-----------------------------------------------------------------------------
\* A gateway inserts an event, as it happens or late from a sweep.
Insert(e) ==
    /\ e \notin rows \cup Old
    /\ \E s \in loaded : e \in s
    /\ rows' = rows \cup {e}
    /\ unsent' = unsent \cup {e}
    /\ UNCHANGED <<runtimes, card, request, history>>

\* Nothing is promised of these events any more; a request that still wants
\* one of these stores finds it closed.
Forget(events, closed) ==
    /\ base' = base \ events
    /\ request' = [q \in Slots |->
           [request[q] EXCEPT
               !.kind = IF request[q].todo \cap closed = {} THEN @
                        ELSE "broken",
               !.snap = @ \ events]]

\* The event purge: the oldest row of a store.
Purge(e) ==
    /\ \E s \in loaded : e \in s /\ \A f \in rows \cap s : e <= f
    /\ e \in rows
    /\ losses < MaxLosses /\ losses' = losses + 1
    /\ rows' = rows \ {e}
    /\ Forget({e}, {})
    /\ UNCHANGED <<unsent, loaded, card, listFilter, whole, live>>

\* An entry is unloaded: its store is closed and leaves _runtimes.
Unload(s) ==
    /\ s \in loaded
    /\ losses < MaxLosses /\ losses' = losses + 1
    /\ loaded' = loaded \ {s}
    /\ Forget(s, {s})
    /\ UNCHANGED <<tables, card, listFilter, whole, live>>

Load(s) ==
    /\ s \in Stores \ loaded
    /\ loaded' = loaded \cup {s}
    /\ UNCHANGED <<tables, losses, card, request, history>>

-----------------------------------------------------------------------------
\* Mutant: no look at what the list already has.
OnLive_Again(e) ==
    /\ e \in unsent
    /\ unsent' = unsent \ {e}
    /\ IF Matches(e, filter)
       THEN /\ list' = list \cup {e}
            /\ twice' = twice \cup (list \cap {e})
            /\ live' = live \cup ({e} \ list)
       ELSE UNCHANGED <<list, twice, live>>
    /\ UNCHANGED <<rows, runtimes, filter, cursor, loading, request, base,
                   listFilter, whole>>

\* _onLive: on top of the list, unless it is there or has the wrong result.
OnLive(e) ==
    /\ e \in unsent
    /\ unsent' = unsent \ {e}
    /\ IF Matches(e, filter) /\ e \notin list
       THEN list' = list \cup {e} /\ live' = live \cup {e}
       ELSE UNCHANGED <<list, live>>
    /\ UNCHANGED <<rows, runtimes, filter, twice, cursor, loading, request,
                   base, listFilter, whole>>

Ask(q, kind, f, before) ==
    /\ request[q] = Idle /\ \A p \in Slots : p < q => request[p] # Idle
    /\ loading' = TRUE
    /\ request' = [request EXCEPT ![q] =
           [kind |-> kind, filter |-> f, before |-> before, todo |-> Targets,
            got |-> {}, snap |-> rows \cap UNION Targets]]
    /\ UNCHANGED <<tables, runtimes, list, twice, cursor, history>>

\* Mutant: the cursor of the old list goes along.
Reload_KeepsCursor(q, f) ==
    /\ Ask(q, "reload", f, cursor)
    /\ filter' = f

\* A filter is clicked, whatever else is in flight: _reload.
Reload(q, f) ==
    /\ Ask(q, "reload", f, NoCursor)
    /\ filter' = f

\* _loadMore
LoadMore(q) ==
    /\ cursor # NoCursor /\ ~ loading
    /\ Ask(q, "more", filter, cursor)
    /\ UNCHANGED filter

\* EventsView.get awaits the query of one store after the other.
Query(q, s) ==
    /\ request[q].kind # "broken"
    /\ s \in request[q].todo
    /\ request' = [request EXCEPT
           ![q].todo = @ \ {s},
           ![q].got = @ \cup Selected(s, request[q])]
    /\ UNCHANGED <<tables, runtimes, card, history>>

\* The merged rows, cut to the limit.
Page(r) == Newest(r.got)

\* Mutant: more rows than the limit, after the cut.
NextCursor_AfterCut(page) ==
    IF Cardinality(page) > Limit
    THEN CHOOSE e \in page : \A f \in page : e <= f
    ELSE NoCursor

\* Mutant: the first row of what is shown.
NextCursor_Top(page) ==
    IF Cardinality(page) = Limit
    THEN CHOOSE e \in list \cup page : \A f \in list \cup page : e >= f
    ELSE NoCursor

\* next_cursor: the last row of a full page.
NextCursor(page) ==
    IF Cardinality(page) = Limit
    THEN CHOOSE e \in page : \A f \in page : e <= f
    ELSE NoCursor

\* The response reaches the card, in any order with the other's.
Respond(q) ==
    LET r == request[q]
        page == Page(r)
    IN
    /\ r.todo = {}
    /\ cursor' = NextCursor(page)
    /\ \/ /\ r.kind = "reload"
          /\ list' = page /\ twice' = {}
          /\ base' = r.snap
          /\ listFilter' = r.filter /\ whole' = TRUE /\ live' = {}
       \/ /\ r.kind = "more"
          /\ list' = list \cup page
          /\ twice' = twice \cup (list \cap page)
          /\ base' = base \cap r.snap
          /\ whole' = (whole /\ r.filter = listFilter /\ r.before = cursor)
          /\ UNCHANGED <<listFilter, live>>
    /\ loading' = FALSE
    /\ request' = [request EXCEPT ![q] = Idle]
    /\ UNCHANGED <<tables, runtimes, filter>>

\* The request fails, as it must when a store it wanted was closed.
Fail(q) ==
    /\ request[q].kind # "none"
    /\ loading' = FALSE
    /\ request' = [request EXCEPT ![q] = Idle]
    /\ UNCHANGED <<tables, runtimes, filter, list, twice, cursor, history>>

TimelineNext ==
    \/ \E e \in Events : Insert(e) \/ Purge(e) \/ OnLive(e)
    \/ \E s \in Stores : Unload(s) \/ Load(s)
    \/ \E q \in Slots :
        \/ LoadMore(q) \/ Respond(q) \/ Fail(q)
        \/ \E f \in Filters : Reload(q, f)
        \/ \E s \in Stores : Query(q, s)

TimelineSpec == TimelineInit /\ [][TimelineNext]_timelineVars

-----------------------------------------------------------------------------
TimelineTypeOK ==
    /\ rows \in SUBSET Events /\ unsent \in SUBSET Events
    /\ loaded \in SUBSET Stores /\ losses \in 0..MaxLosses
    /\ filter \in Filters /\ listFilter \in Filters
    /\ list \in SUBSET Events /\ twice \in SUBSET list
    /\ cursor \in Events \cup {NoCursor}
    /\ loading \in BOOLEAN /\ whole \in BOOLEAN
    /\ request \in
        [Slots -> [kind : {"none", "reload", "more", "broken"},
                   filter : Filters,
                   before : Events \cup {NoCursor}, todo : SUBSET Stores,
                   got : SUBSET Events, snap : SUBSET Events]]
    /\ \A q \in Slots :
        /\ request[q].kind = "reload" => request[q].before = NoCursor
        /\ request[q].kind = "more" => request[q].before # NoCursor
    /\ base \in SUBSET rows /\ live \in SUBSET list

Reached(e) == cursor = NoCursor \/ e >= cursor

(* The pages of several merged tables skip nothing: an event that was       *)
(* stored, in a loaded entry, from the start of every request that built    *)
(* the list, and that the filter selects, is in the list as far down as the *)
(* list goes, whatever was inserted, purged or announced between the pages  *)
(* and between the queries of one page.                                     *)
NothingSkipped ==
    whole => \A e \in base : Matches(e, listFilter) /\ Reached(e) => e \in list

(* No event is on two pages: only one that the subscription had put into    *)
(* the list can come a second time.                                         *)
OnlyLiveTwice == whole => twice \subseteq live

(* "Load more" comes to an end: every page that joins its own list ends     *)
(* below the one before, or is the last.                                    *)
CursorDescends ==
    [][\A q \in Slots :
        (request[q].kind = "more" /\ Respond(q) /\ whole')
            => (cursor' = NoCursor \/ cursor' < cursor)]_timelineVars

=============================================================================
