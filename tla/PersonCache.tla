----------------------------- MODULE PersonCache -----------------------------
(***************************************************************************)
(* person_manager.py: who is employee number p?  async_resolve answers     *)
(* from the table persons_cache for a day and asks the terminal when the   *)
(* row is missing, nameless or old; async_prime reads the whole directory. *)
(* The gateway's sources call async_resolve concurrently and interleave at *)
(* its awaits; people are enrolled, renamed and removed meanwhile.         *)
(*                                                                         *)
(* Clocks are ticks.  A row without a name behaves like no row, so both    *)
(* are NoName.                                                             *)
(***************************************************************************)
EXTENDS Integers, FiniteSets

CONSTANTS
    Persons,      \* employee numbers, in the terminal's order
    Visitors,     \* those whose events arrive
    Movers,       \* those whose record in the terminal may change
    Names,
    Blanks,       \* names that are empty strings, if any record has one
    Callers,      \* tasks that call async_resolve
    Ttl,          \* _TTL
    NegTtl,       \* _NEG_TTL_S
    Patience,     \* ticks an answer may wait until it is written
    PageSize,     \* users per page of async_prime
    Filters,      \* TRUE: the terminal honours EmployeeNoList
    MaxChanges,   \* bound: changes of the directory
    MaxFaults     \* bound: failed requests and reloads

Absent   == "absent"      \* the terminal does not know the employee number
Nameless == "nameless"    \* a user record without the field name
NoName   == "no name"     \* person_name is NULL or empty, or there is no row
NoOne    == 0

LongAgo == Ttl + Patience + 1
Entries == Names \cup Blanks \cup {Absent, Nameless}

ASSUME CacheAssumption ==
    /\ Persons \subseteq Nat \ {NoOne} /\ IsFiniteSet(Persons)
    /\ Visitors \subseteq Persons /\ Movers \subseteq Persons
    /\ Names \cap {Absent, Nameless, NoName} = {}
    /\ Blanks \cap (Names \cup {Absent, Nameless}) = {}
    /\ Ttl \in Nat \ {0} /\ NegTtl \in Nat \ {0}
    /\ Patience \in Nat
    /\ PageSize \in Nat \ {0}
    /\ Filters \in BOOLEAN
    /\ MaxChanges \in Nat /\ MaxFaults \in Nat

VARIABLES
    directory,   \* the terminal's users
    since,       \* ticks since a person's entry last changed
    changes,
    name,        \* persons_cache.person_name
    age,         \* ticks since updated_at, up to Ttl: not fresh any more
    pictured,    \* rows with a picture_path
    inflight,    \* _inflight
    negative,    \* what is left of each _negative deadline
    pc,          \* where each async_resolve is suspended
    who,         \* its person_id
    info,        \* what the terminal answered it
    held,        \* ticks since that answer
    prime,       \* where async_prime is suspended
    position,    \* its position in the search result
    page,        \* the users of its page that are not saved yet
    listed,      \* the names on that page
    pageHeld,    \* ticks since the page was answered
    loaded,      \* the users it has saved
    steady,      \* 1 as long as the directory has not changed since it began
    faults

terminal == <<directory, since, changes>>
table    == <<name, age, pictured>>
guards   == <<inflight, negative>>
lookups  == <<pc, who, info, held>>
priming  == <<prime, position, page, listed, pageHeld, loaded>>
vars     == <<terminal, table, guards, lookups, priming, steady, faults>>

Init ==
    /\ directory \in [Persons -> Entries]
    /\ since = [p \in Persons |-> LongAgo] /\ changes = 0
    /\ name = [p \in Persons |-> NoName]
    /\ age = [p \in Persons |-> Ttl]
    /\ pictured = {}
    /\ inflight = {} /\ negative = [p \in Persons |-> 0]
    /\ pc = [c \in Callers |-> "idle"]
    /\ who = [c \in Callers |-> NoOne]
    /\ info = [c \in Callers |-> Absent]
    /\ held = [c \in Callers |-> 0]
    /\ prime = "idle" /\ position = 0 /\ page = {}
    /\ listed = [p \in Persons |-> Absent]
    /\ pageHeld = 0 /\ loaded = {} /\ steady = 0
    /\ faults = 0

\* Mutant: the age of a row does not matter.
Fresh_Forever(p) == name[p] # NoName

\* _fresh, of a row with a name.
Fresh(p) == name[p] # NoName /\ age[p] < Ttl

Goto(c, to) == pc' = [pc EXCEPT ![c] = to]
Waits(c) == pc[c] \in {"asked", "named", "both"}

\* The locals of async_resolve end with it.
Return(c) ==
    /\ pc' = [pc EXCEPT ![c] = "idle"]
    /\ who' = [who EXCEPT ![c] = NoOne]
    /\ info' = [info EXCEPT ![c] = Absent]
    /\ held' = [held EXCEPT ![c] = 0]

-----------------------------------------------------------------------------
(* The terminal and the clock.                                             *)

\* Somebody enrols, renames or removes a user.
Change(p) ==
    /\ changes < MaxChanges /\ changes' = changes + 1
    /\ \E e \in Entries \ {directory[p]} :
        directory' = [directory EXCEPT ![p] = e]
    /\ since' = [since EXCEPT ![p] = 0]
    /\ steady' = 0
    /\ UNCHANGED <<table, guards, lookups, priming, faults>>

UpTo(bound, t) == IF t < bound THEN t + 1 ELSE t

\* Mutant: a negative answer is kept for good.
Down_Stuck(t) == t

Down(t) == IF t > 0 THEN t - 1 ELSE 0

\* Time passes; the timeouts of a portrait bound how long an answer waits.
Tick ==
    /\ \A c \in Callers : Waits(c) => held[c] < Patience
    /\ prime \in {"more", "last"} => pageHeld < Patience
    /\ since' = [p \in Persons |-> UpTo(LongAgo, since[p])]
    /\ age' = [p \in Persons |-> UpTo(Ttl, age[p])]
    /\ negative' = [p \in Persons |-> Down(negative[p])]
    /\ held' = [c \in Callers |-> IF Waits(c) THEN held[c] + 1 ELSE 0]
    /\ pageHeld' = IF prime \in {"more", "last"} THEN pageHeld + 1 ELSE 0
    /\ UNCHANGED <<directory, changes, name, pictured, inflight, pc, who,
                   info, prime, position, page, listed, loaded, steady, faults>>

-----------------------------------------------------------------------------
(* async_upsert_person.                                                    *)

\* Mutant: the new values as they are.
Upsert_Overwrites(p, entry, withPicture) ==
    /\ name' = [name EXCEPT ![p] = IF entry \in Names THEN entry ELSE NoName]
    /\ age' = [age EXCEPT ![p] = 0]
    /\ pictured' = IF withPicture THEN pictured \cup {p} ELSE pictured \ {p}

\* COALESCE: a name that is missing keeps the old one, an empty one does not.
Coalesced(entry, old) ==
    IF entry = Nameless THEN old ELSE IF entry \in Names THEN entry ELSE NoName

\* A picture_path that is missing keeps the old one, too.
Upsert(p, entry, withPicture) ==
    /\ name' = [name EXCEPT ![p] = Coalesced(entry, @)]
    /\ age' = [age EXCEPT ![p] = 0]
    /\ pictured' = IF withPicture THEN pictured \cup {p} ELSE pictured

-----------------------------------------------------------------------------
(* async_resolve.                                                          *)

\* async_get_person: a fresh row is the answer, any other only a fallback.
Read(c, p) ==
    /\ pc[c] = "idle"
    /\ ~ Fresh(p)
    /\ Goto(c, "checking")
    /\ who' = [who EXCEPT ![c] = p]
    /\ UNCHANGED <<terminal, table, guards, info, held, priming, steady,
                   faults>>

Enrolled == {p \in Persons : directory[p] # Absent}
Rank(p)  == Cardinality({q \in Enrolled : q < p})

\* The one user in the answer: the person, or the first user of all if the
\* terminal ignores the filter, which _fetch takes as well.
Found(p) ==
    {q \in Enrolled : IF Filters THEN q = p ELSE Rank(q) = 0}

\* The terminal searches its users.
Answered(c) ==
    /\ \/ Found(who[c]) = {} /\ info' = [info EXCEPT ![c] = Absent]
       \/ \E q \in Found(who[c]) : info' = [info EXCEPT ![c] = directory[q]]
    /\ Goto(c, "asked")
    /\ UNCHANGED <<who, held>>

\* Ask the terminal, which answers while the request is in flight; or a lookup
\* is under way already, or a negative answer is recent: the old row will do.
Check(c) ==
    /\ pc[c] = "checking"
    /\ LET ask == who[c] \notin inflight /\ negative[who[c]] = 0
       IN \/ ask /\ inflight' = inflight \cup {who[c]} /\ Answered(c)
          \/ ~ ask /\ Return(c) /\ UNCHANGED inflight
    /\ UNCHANGED <<terminal, table, negative, priming, steady, faults>>

\* The request is over.  A user with a faceURL has a portrait, taken from
\* disk or downloaded, unless that fails: then the row is saved without it.
Receive(c) ==
    /\ pc[c] = "asked"
    /\ inflight' = inflight \ {who[c]}
    /\ \/ /\ info[c] = Absent
          /\ negative' = [negative EXCEPT ![who[c]] = NegTtl]
          /\ Return(c)
       \/ /\ info[c] # Absent
          /\ negative' = [negative EXCEPT ![who[c]] = 0]
          /\ \E to \in {"named", "both"} : Goto(c, to)
          /\ UNCHANGED <<who, info, held>>
    /\ UNCHANGED <<terminal, table, priming, steady, faults>>

\* The row is saved with the portrait's path, or with the name alone.
Save(c) ==
    /\ pc[c] \in {"named", "both"}
    /\ Upsert(who[c], info[c], pc[c] = "both")
    /\ Return(c)
    /\ UNCHANGED <<terminal, guards, priming, steady, faults>>

\* HikvisionError, or any other: the finally clause ends the flight.
LookupFails(c) ==
    /\ pc[c] = "asked"
    /\ faults < MaxFaults /\ faults' = faults + 1
    /\ inflight' = inflight \ {who[c]}
    /\ Return(c)
    /\ UNCHANGED <<terminal, table, negative, priming, steady>>

\* A portrait's download may raise something else than HikvisionError, which
\* nobody catches: the row is not saved.
PortraitRaises(c) ==
    /\ pc[c] \in {"named", "both"}
    /\ faults < MaxFaults /\ faults' = faults + 1
    /\ Return(c)
    /\ UNCHANGED <<terminal, table, guards, priming, steady>>

-----------------------------------------------------------------------------
(* async_prime, the service sync_persons.                                  *)

LeavePrime ==
    /\ prime' = "idle" /\ position' = 0 /\ page' = {}
    /\ listed' = [p \in Persons |-> Absent] /\ pageHeld' = 0
    /\ loaded' = {} /\ steady' = 0

PrimeStart ==
    /\ prime = "idle"
    /\ prime' = "page" /\ steady' = 1
    /\ UNCHANGED <<terminal, table, guards, lookups, position, page, listed,
                   pageHeld, loaded, faults>>

OnPage ==
    {p \in Enrolled : position <= Rank(p) /\ Rank(p) < position + PageSize}

\* Mutant: the next page starts one user too far.
PrimePage_Skips ==
    /\ prime = "page"
    /\ IF OnPage = {} THEN LeavePrime
       ELSE /\ position' = position + PageSize + 1
            /\ prime' = IF position' < Cardinality(Enrolled) THEN "more"
                        ELSE "last"
            /\ page' = OnPage /\ pageHeld' = 0
            /\ listed' = [p \in Persons |->
                            IF p \in OnPage THEN directory[p] ELSE Absent]
            /\ UNCHANGED <<loaded, steady>>
    /\ UNCHANGED <<terminal, table, guards, lookups, faults>>

\* One page of users, by their position in the directory as it is now.
PrimePage ==
    /\ prime = "page"
    /\ IF OnPage = {} THEN LeavePrime
       ELSE /\ position' = position + Cardinality(OnPage)
            /\ prime' = IF position' < Cardinality(Enrolled) THEN "more"
                        ELSE "last"
            /\ page' = OnPage /\ pageHeld' = 0
            /\ listed' = [p \in Persons |->
                            IF p \in OnPage THEN directory[p] ELSE Absent]
            /\ UNCHANGED <<loaded, steady>>
    /\ UNCHANGED <<terminal, table, guards, lookups, faults>>

\* One user of the page; responseStatusStrg MORE leads to the next page.
PrimeSave(p) ==
    /\ prime \in {"more", "last"} /\ p \in page
    /\ Upsert(p, listed[p], FALSE)
    /\ \/ page = {p} /\ prime = "last" /\ LeavePrime
       \/ /\ ~ (page = {p} /\ prime = "last")
          /\ loaded' = loaded \cup {p}
          /\ page' = page \ {p}
          /\ listed' = [listed EXCEPT ![p] = Absent]
          /\ prime' = IF page' = {} THEN "page" ELSE prime
          /\ pageHeld' = IF page' = {} THEN 0 ELSE pageHeld
          /\ UNCHANGED <<position, steady>>
    /\ UNCHANGED <<terminal, guards, lookups, faults>>

\* HikvisionError on a page ends the sync with what it has loaded.
PrimeFails ==
    /\ prime = "page"
    /\ faults < MaxFaults /\ faults' = faults + 1
    /\ LeavePrime
    /\ UNCHANGED <<terminal, table, guards, lookups>>

\* The entry is reloaded: a new PersonManager, the table and the files stay.
Reload ==
    /\ faults < MaxFaults /\ faults' = faults + 1
    /\ inflight' = {} /\ negative' = [p \in Persons |-> 0]
    /\ pc' = [c \in Callers |-> "idle"]
    /\ who' = [c \in Callers |-> NoOne]
    /\ info' = [c \in Callers |-> Absent]
    /\ held' = [c \in Callers |-> 0]
    /\ LeavePrime
    /\ UNCHANGED <<terminal, table>>

-----------------------------------------------------------------------------
Step(c) == Check(c) \/ Receive(c) \/ Save(c)
PrimeStep == PrimePage \/ \E p \in Persons : PrimeSave(p)

Next ==
    \/ Tick \/ PrimeStart \/ PrimeStep \/ PrimeFails \/ Reload
    \/ \E p \in Movers : Change(p)
    \/ \E c \in Callers :
        \/ \E p \in Visitors : Read(c, p)
        \/ Step(c) \/ LookupFails(c) \/ PortraitRaises(c)

\* Requests return or time out, time passes, and everybody's events recur.
Fairness ==
    /\ WF_vars(Tick) /\ WF_vars(PrimeStep)
    /\ \A c \in Callers : WF_vars(Step(c))
    /\ \A p \in Visitors : SF_vars(\E c \in Callers : Read(c, p))

Spec == Init /\ [][Next]_vars
FairSpec == Spec /\ Fairness

-----------------------------------------------------------------------------
TableOK ==
    /\ name \in [Persons -> Names \cup {NoName}]
    /\ age \in [Persons -> 0..Ttl]
    /\ pictured \subseteq Persons

LookupsOK ==
    /\ pc \in [Callers -> {"idle", "checking", "asked", "named", "both"}]
    /\ who \in [Callers -> Persons \cup {NoOne}]
    /\ info \in [Callers -> Entries]
    /\ held \in [Callers -> 0..Patience]
    /\ \A c \in Callers :
        /\ pc[c] = "idle" <=> who[c] = NoOne
        /\ pc[c] \in {"named", "both"} => info[c] # Absent

PrimeOK ==
    /\ prime \in {"idle", "page", "more", "last"}
    /\ position \in Nat
    /\ page \subseteq Persons /\ loaded \subseteq Persons
    /\ listed \in [Persons -> Entries]
    /\ pageHeld \in 0..Patience
    /\ prime \in {"more", "last"} <=> page # {}
    /\ \A p \in page : listed[p] # Absent

TypeOK ==
    /\ directory \in [Persons -> Entries]
    /\ since \in [Persons -> 0..LongAgo]
    /\ changes \in 0..MaxChanges
    /\ TableOK
    /\ inflight \subseteq Persons /\ negative \in [Persons -> 0..NegTtl]
    /\ LookupsOK
    /\ PrimeOK
    /\ steady \in {0, 1} /\ faults \in 0..MaxFaults

Flying(c) == pc[c] = "asked"

(* _inflight: there is one request per person at a time however many       *)
(* events of hers arrive, and a failed one does not leave her locked out.  *)
FlightsLand ==
    /\ inflight = {who[c] : c \in {d \in Callers : Flying(d)}}
    /\ \A c, d \in Callers : Flying(c) /\ Flying(d) /\ who[c] = who[d] => c = d

(* Module doc, "Cache TTL is 24 h": a name that is served without asking    *)
(* is at most a day, and the time a lookup's answer waits, behind the       *)
(* terminal's, whatever lookups of the person and a sync overlap, also if   *)
(* she was removed.  (A record that lost its name keeps the old one.)       *)
FreshIsRecent ==
    \A p \in Persons :
        Fresh(p) /\ directory[p] \notin {name[p], Nameless}
            => since[p] <= age[p] + Patience

(* Why it is inductive: an answer still to be saved was true not longer ago *)
(* than it has waited.                                                      *)
AnswersRecent ==
    /\ \A c \in Callers :
        Waits(c) /\ info[c] # directory[who[c]] => since[who[c]] <= held[c]
    /\ \A p \in page : listed[p] # directory[p] => since[p] <= pageHeld

(* What the table knows of a person outlives failed lookups, syncs and      *)
(* answers without a name or a portrait, and her removal from the terminal. *)
(* An empty name would replace hers: Blanks is empty where this is checked. *)
NothingForgotten ==
    [][/\ \A p \in Persons : name[p] # NoName => name'[p] # NoName
       /\ pictured \subseteq pictured']_vars

(* "Load every enrolled user into the cache": a sync that ends without an   *)
(* error has saved every user, if nobody changed the directory meanwhile.   *)
SyncComplete ==
    [][prime # "idle" /\ prime' = "idle" /\ steady = 1 /\ faults' = faults
        => Enrolled \subseteq loaded \cup page]_vars

(* Once the directory settles, every enrolled person with a name is known   *)
(* by it, also one the terminal did not know before, and the name is the    *)
(* current one: rows and negative answers expire.                           *)
EventuallyKnown ==
    \A p \in Visitors : \A n \in Names :
        <>[](directory[p] = n) => <>[](name[p] = n)

=============================================================================
