------------------------- MODULE PersonCacheProofs -------------------------
(***************************************************************************)
(* What the person cache promises for any directory, any number of callers *)
(* and any durations: one request per person at a time, names that are not *)
(* older than a day plus the time an answer waits, and nothing forgotten.  *)
(* The inductive invariant adds to the age of a row the age of an answer   *)
(* that is still to be saved.                                              *)
(***************************************************************************)
EXTENDS PersonCache, FiniteSetTheorems, TLAPS

LEMMA DistinctNames ==
    /\ Absent # Nameless /\ Absent # NoName /\ Nameless # NoName
    /\ Absent \in Entries /\ Nameless \in Entries
    /\ NoOne \notin Persons /\ Names \subseteq Entries
    /\ NoName \notin Names /\ Absent \notin Names /\ Nameless \notin Names
BY CacheAssumption DEF Absent, Nameless, NoName, NoOne, Entries

LEMMA DirectoryFinite ==
    /\ IsFiniteSet(Enrolled) /\ IsFiniteSet(OnPage)
    /\ Cardinality(Enrolled) \in Nat /\ Cardinality(OnPage) \in Nat
<1>1. Enrolled \subseteq Persons /\ OnPage \subseteq Persons
  BY DEF Enrolled, OnPage
<1> QED BY <1>1, CacheAssumption, FS_Subset, FS_CardinalityType

\* async_upsert_person keeps the table's shape.
LEMMA UpsertType ==
    ASSUME TableOK, NEW p \in Persons, NEW entry \in Entries,
           NEW withPicture \in BOOLEAN, Upsert(p, entry, withPicture)
    PROVE  TableOK'
<1>1. Coalesced(entry, name[p]) \in Names \cup {NoName}
  BY DEF TableOK, Coalesced
<1> QED BY <1>1, CacheAssumption DEF TableOK, Upsert

LEMMA ReturnType ==
    ASSUME LookupsOK, NEW c \in Callers, Return(c)
    PROVE  LookupsOK'
BY CacheAssumption, DistinctNames DEF LookupsOK, Return

LEMMA LeaveType ==
    ASSUME LeavePrime
    PROVE  PrimeOK' /\ steady' \in {0, 1}
BY CacheAssumption, DistinctNames DEF LeavePrime, PrimeOK

\* The clocks are natural numbers.
LEMMA Clocks ==
    ASSUME TypeOK
    PROVE  /\ Patience \in Nat
           /\ \A p \in Persons : since[p] \in Nat
           /\ \A c \in Callers : held[c] \in Nat /\ held[c] <= Patience
<1>1. \A p \in Persons : since[p] \in Nat
  BY CacheAssumption DEF TypeOK, LongAgo
<1>2. \A c \in Callers : held[c] \in Nat /\ held[c] <= Patience
  BY CacheAssumption DEF TypeOK, LookupsOK
<1> QED BY <1>1, <1>2, CacheAssumption

LEMMA InitType == Init => TypeOK
BY CacheAssumption, DistinctNames
DEF Init, TypeOK, TableOK, LookupsOK, PrimeOK, LongAgo

-----------------------------------------------------------------------------
LEMMA TypeStep == TypeOK /\ [Next]_vars => TypeOK'
<1> SUFFICES ASSUME TypeOK, [Next]_vars PROVE TypeOK'
  OBVIOUS
<1> USE CacheAssumption, DistinctNames
<1>0. TableOK /\ LookupsOK /\ PrimeOK
  BY DEF TypeOK
<1>1. ASSUME UNCHANGED table PROVE TableOK'
  BY <1>0, <1>1 DEF table, TableOK
<1>2. ASSUME UNCHANGED lookups PROVE LookupsOK'
  BY <1>0, <1>2 DEF lookups, LookupsOK
<1>3. ASSUME UNCHANGED priming PROVE PrimeOK'
  BY <1>0, <1>3 DEF priming, PrimeOK
<1>4. CASE Tick
  <2>1. since' \in [Persons -> 0..LongAgo]
    BY <1>4 DEF Tick, TypeOK, UpTo, LongAgo
  <2>2. TableOK'
    BY <1>0, <1>4 DEF Tick, TableOK, UpTo
  <2>3. negative' \in [Persons -> 0..NegTtl]
    BY <1>4 DEF Tick, TypeOK, Down
  <2>4. LookupsOK'
    <3>1. held' \in [Callers -> 0..Patience]
      BY <1>0, <1>4 DEF Tick, LookupsOK
    <3> QED BY <1>0, <1>4, <3>1 DEF Tick, LookupsOK
  <2>5. PrimeOK'
    <3>1. pageHeld' \in 0..Patience
      BY <1>0, <1>4 DEF Tick, PrimeOK
    <3> QED BY <1>0, <1>4, <3>1 DEF Tick, PrimeOK
  <2> QED BY <1>4, <2>1, <2>2, <2>3, <2>4, <2>5 DEF Tick, TypeOK
<1>5. CASE PrimeStart
  <2>1. PrimeOK'
    BY <1>0, <1>5 DEF PrimeStart, PrimeOK
  <2> QED
    BY <1>1, <1>2, <1>5, <2>1 DEF PrimeStart, TypeOK, terminal, guards
<1>6. CASE PrimePage
  <2>1. PrimeOK' /\ steady' \in {0, 1}
    <3>1. CASE OnPage = {}
      BY <1>6, <3>1, LeaveType DEF PrimePage
    <3>2. CASE OnPage # {}
      <4>1. position' \in Nat
        BY <1>0, <1>6, <3>2, DirectoryFinite DEF PrimePage, PrimeOK
      <4>2. OnPage \subseteq Persons /\ \A p \in OnPage : directory[p] # Absent
        BY DEF OnPage, Enrolled
      <4>3. /\ prime' \in {"more", "last"} /\ page' = OnPage
            /\ pageHeld' = 0 /\ UNCHANGED <<loaded, steady>>
            /\ listed' = [p \in Persons |->
                            IF p \in OnPage THEN directory[p] ELSE Absent]
        BY <1>6, <3>2 DEF PrimePage
      <4>4. Absent \in Entries
        BY DEF Entries
      <4>5. listed' \in [Persons -> Entries]
        BY <4>3, <4>4 DEF TypeOK
      <4> QED BY <1>0, <3>2, <4>1, <4>2, <4>3, <4>5 DEF PrimeOK, TypeOK
    <3> QED BY <3>1, <3>2
  <2> QED BY <1>1, <1>2, <1>6, <2>1 DEF PrimePage, TypeOK, terminal, guards
<1>7. ASSUME NEW p \in Persons, PrimeSave(p) PROVE TypeOK'
  <2>1. TableOK'
    BY <1>0, <1>7, UpsertType DEF PrimeSave, PrimeOK
  <2>2. PrimeOK' /\ steady' \in {0, 1}
    <3>1. CASE LeavePrime
      BY <3>1, LeaveType
    <3>2. CASE /\ ~ (page = {p} /\ prime = "last")
               /\ loaded' = loaded \cup {p}
               /\ page' = page \ {p}
               /\ listed' = [listed EXCEPT ![p] = Absent]
               /\ prime' = IF page' = {} THEN "page" ELSE prime
               /\ pageHeld' = IF page' = {} THEN 0 ELSE pageHeld
               /\ UNCHANGED <<position, steady>>
      <4>1. Absent \in Entries /\ 0 \in 0..Patience
        BY CacheAssumption DEF Entries
      <4>2. /\ listed' \in [Persons -> Entries] /\ pageHeld' \in 0..Patience
            /\ \A q \in page' : listed'[q] = listed[q]
        BY <1>0, <3>2, <4>1 DEF PrimeOK
      <4> QED BY <1>0, <1>7, <3>2, <4>2 DEF PrimeSave, PrimeOK, TypeOK
    <3> QED BY <1>7, <3>1, <3>2 DEF PrimeSave
  <2> QED BY <1>2, <1>7, <2>1, <2>2 DEF PrimeSave, TypeOK, terminal, guards
<1>8. CASE PrimeFails
  BY <1>1, <1>2, <1>8, LeaveType DEF PrimeFails, TypeOK, terminal, guards
<1>9. CASE Reload
  <2>1. LookupsOK'
    BY <1>9 DEF Reload, LookupsOK
  <2> QED BY <1>1, <1>9, <2>1, LeaveType DEF Reload, TypeOK, terminal
<1>10. ASSUME NEW p \in Movers, Change(p) PROVE TypeOK'
  <2>1. directory' \in [Persons -> Entries] /\ since' \in [Persons -> 0..LongAgo]
    BY <1>10 DEF Change, TypeOK, LongAgo
  <2> QED
    BY <1>1, <1>2, <1>3, <1>10, <2>1 DEF Change, TypeOK, guards
<1>11. ASSUME NEW c \in Callers, NEW p \in Visitors, Read(c, p) PROVE TypeOK'
  <2>1. LookupsOK'
    BY <1>0, <1>11 DEF Read, Goto, LookupsOK
  <2> QED
    BY <1>1, <1>3, <1>11, <2>1 DEF Read, TypeOK, terminal, guards
<1>12. ASSUME NEW c \in Callers, Check(c) PROVE TypeOK'
  <2>1. who[c] \in Persons
    BY <1>0, <1>12 DEF Check, LookupsOK
  <2>2. LookupsOK' /\ inflight' \subseteq Persons
    <3>1. CASE inflight' = inflight \cup {who[c]} /\ Answered(c)
      <4>1. PICK e \in Entries : info' = [info EXCEPT ![c] = e]
        BY <3>1 DEF Answered, Found, Enrolled, TypeOK
      <4>2. /\ pc' = [pc EXCEPT ![c] = "asked"] /\ UNCHANGED <<who, held>>
            /\ inflight' \subseteq Persons
        BY <2>1, <3>1 DEF Answered, Goto, TypeOK
      <4> QED BY <1>0, <1>12, <4>1, <4>2 DEF Check, LookupsOK
    <3>2. CASE Return(c) /\ UNCHANGED inflight
      BY <1>0, <3>2, ReturnType DEF TypeOK
    <3> QED BY <1>12, <3>1, <3>2 DEF Check
  <2> QED BY <1>1, <1>3, <1>12, <2>2 DEF Check, TypeOK, terminal
<1>13. ASSUME NEW c \in Callers, Receive(c) PROVE TypeOK'
  <2>1. LookupsOK' /\ negative' \in [Persons -> 0..NegTtl]
    <3>1. CASE /\ negative' = [negative EXCEPT ![who[c]] = NegTtl]
               /\ Return(c)
      <4>1. LookupsOK'
        BY <1>0, <3>1, ReturnType
      <4>2. NegTtl \in 0..NegTtl
        OBVIOUS
      <4> QED BY <3>1, <4>1, <4>2 DEF TypeOK
    <3>2. CASE /\ info[c] # Absent
               /\ negative' = [negative EXCEPT ![who[c]] = 0]
               /\ \E to \in {"named", "both"} : Goto(c, to)
               /\ UNCHANGED <<who, info, held>>
      BY <1>0, <1>13, <3>2 DEF Receive, Goto, LookupsOK, TypeOK
    <3> QED BY <1>13, <3>1, <3>2 DEF Receive
  <2> QED BY <1>1, <1>3, <1>13, <2>1 DEF Receive, TypeOK, terminal
<1>14. ASSUME NEW c \in Callers, Save(c) PROVE TypeOK'
  <2>1. who[c] \in Persons /\ info[c] \in Entries
    BY <1>0, <1>14 DEF Save, LookupsOK
  <2>2. TableOK'
    BY <1>0, <1>14, <2>1, UpsertType DEF Save
  <2>3. LookupsOK'
    BY <1>0, <1>14, ReturnType DEF Save
  <2>4. UNCHANGED <<terminal, guards, priming, steady, faults>>
    BY <1>14 DEF Save
  <2> QED BY <1>3, <2>2, <2>3, <2>4 DEF TypeOK, terminal, guards
<1>15. ASSUME NEW c \in Callers, LookupFails(c) PROVE TypeOK'
  <2>1. LookupsOK'
    <3>1. Return(c)
      BY <1>15 DEF LookupFails
    <3> QED BY <1>0, <3>1, ReturnType
  <2>2. faults' \in 0..MaxFaults
    BY <1>15 DEF LookupFails, TypeOK
  <2>3. inflight' \subseteq Persons
    BY <1>15 DEF LookupFails, TypeOK
  <2>4. UNCHANGED <<terminal, table, negative, priming, steady>>
    BY <1>15 DEF LookupFails
  <2> QED BY <1>1, <1>3, <2>1, <2>2, <2>3, <2>4 DEF TypeOK, terminal
<1>16. CASE UNCHANGED vars
  BY <1>1, <1>2, <1>3, <1>16 DEF vars, terminal, guards, TypeOK
<1>17. ASSUME NEW c \in Callers, PortraitRaises(c) PROVE TypeOK'
  <2>1. LookupsOK'
    <3>1. Return(c)
      BY <1>17 DEF PortraitRaises
    <3> QED BY <1>0, <3>1, ReturnType
  <2>2. faults' \in 0..MaxFaults
    BY <1>17 DEF PortraitRaises, TypeOK
  <2>3. UNCHANGED <<terminal, table, guards, priming, steady>>
    BY <1>17 DEF PortraitRaises
  <2> QED BY <1>1, <1>3, <2>1, <2>2, <2>3 DEF TypeOK, terminal, guards
<1> QED
  BY <1>4, <1>5, <1>6, <1>7, <1>8, <1>9, <1>10, <1>11, <1>12, <1>13, <1>14,
     <1>15, <1>16, <1>17
  DEF Next, Step, PrimeStep

-----------------------------------------------------------------------------
(* _inflight.                                                              *)

LEMMA FlightStep ==
    ASSUME TypeOK, FlightsLand, [Next]_vars
    PROVE  FlightsLand'
<1> USE DEF FlightsLand, Flying
<1>0. LookupsOK
  BY DEF TypeOK
<1>1. ASSUME UNCHANGED <<inflight, who>>,
             \A c \in Callers : Flying(c)' <=> Flying(c)
      PROVE  FlightsLand'
  BY <1>1
<1>2. ASSUME NEW c \in Callers, Flying(c), inflight' = inflight \ {who[c]},
             ~ Flying(c)',
             \A d \in Callers \ {c} : pc'[d] = pc[d] /\ who'[d] = who[d]
      PROVE  FlightsLand'
  <2>1. \A d \in Callers : Flying(d)' => d # c /\ Flying(d) /\ who'[d] = who[d]
    BY <1>2
  <2>2. \A d \in Callers : Flying(d) /\ d # c => who[d] # who[c] /\ Flying(d)'
    BY <1>2
  <2> QED BY <1>2, <2>1, <2>2
<1>3. CASE Tick \/ PrimeStart \/ PrimePage \/ PrimeFails
  BY <1>1, <1>3 DEF Tick, PrimeStart, PrimePage, PrimeFails, guards, lookups
<1>4. ASSUME NEW p \in Persons, PrimeSave(p) \/ Change(p) PROVE FlightsLand'
  BY <1>1, <1>4 DEF PrimeSave, Change, guards, lookups
<1>5. CASE Reload
  BY <1>5 DEF Reload
<1>6. ASSUME NEW c \in Callers, NEW p \in Visitors, Read(c, p) PROVE FlightsLand'
  <2>1. /\ ~ Flying(c) /\ ~ Flying(c)' /\ UNCHANGED inflight
        /\ \A d \in Callers \ {c} : pc'[d] = pc[d] /\ who'[d] = who[d]
    BY <1>0, <1>6 DEF Read, Goto, guards, LookupsOK
  <2> QED BY <2>1
<1>7. ASSUME NEW c \in Callers, Check(c) PROVE FlightsLand'
  <2>1. CASE /\ who[c] \notin inflight /\ inflight' = inflight \cup {who[c]}
             /\ Answered(c)
    <3>1. /\ Flying(c)' /\ who' = who
          /\ \A d \in Callers \ {c} : pc'[d] = pc[d]
      BY <1>0, <2>1 DEF Answered, Goto, LookupsOK
    <3>2. \A d \in Callers \ {c} : Flying(d) => who[d] # who[c]
      BY <2>1
    <3>3. ~ Flying(c)
      BY <1>7 DEF Check
    <3> QED BY <2>1, <3>1, <3>2, <3>3
  <2>2. CASE Return(c) /\ UNCHANGED inflight
    <3>1. /\ ~ Flying(c) /\ ~ Flying(c)'
          /\ \A d \in Callers \ {c} : pc'[d] = pc[d] /\ who'[d] = who[d]
      BY <1>0, <1>7, <2>2 DEF Check, Return, LookupsOK
    <3> QED BY <2>2, <3>1
  <2> QED BY <1>7, <2>1, <2>2 DEF Check
<1>8. ASSUME NEW c \in Callers, Receive(c) \/ LookupFails(c) PROVE FlightsLand'
  <2>1. /\ Flying(c) /\ inflight' = inflight \ {who[c]} /\ ~ Flying(c)'
        /\ \A d \in Callers \ {c} : pc'[d] = pc[d] /\ who'[d] = who[d]
    BY <1>0, <1>8 DEF Receive, LookupFails, Return, Goto, LookupsOK
  <2> QED BY <1>2, <2>1
<1>9. ASSUME NEW c \in Callers, Save(c) \/ PortraitRaises(c)
      PROVE  FlightsLand'
  <2>1. /\ ~ Flying(c) /\ ~ Flying(c)' /\ UNCHANGED inflight
        /\ \A d \in Callers \ {c} : pc'[d] = pc[d] /\ who'[d] = who[d]
    BY <1>0, <1>9 DEF Save, PortraitRaises, Return, guards, LookupsOK
  <2> QED BY <2>1
<1>10. CASE UNCHANGED vars
  BY <1>1, <1>10 DEF vars, guards, lookups
<1> QED
  BY <1>3, <1>4, <1>5, <1>6, <1>7, <1>8, <1>9, <1>10, CacheAssumption
  DEF Next, Step, PrimeStep

-----------------------------------------------------------------------------
(* The age of names.                                                       *)

RecentInv == TypeOK /\ FreshIsRecent /\ AnswersRecent

\* Saving an entry that was true at most the patience ago is harmless.
LEMMA SaveIsRecent ==
    ASSUME TypeOK, FreshIsRecent, NEW p \in Persons, NEW entry \in Entries,
           NEW withPicture \in BOOLEAN, Upsert(p, entry, withPicture),
           entry # Absent, entry # directory[p] => since[p] <= Patience,
           UNCHANGED terminal
    PROVE  FreshIsRecent'
<1> SUFFICES ASSUME NEW q \in Persons, Fresh(q)',
                    directory[q] # name'[q], directory[q] # Nameless
             PROVE  since[q] <= age'[q] + Patience
  BY DEF FreshIsRecent, terminal
<1>1. CASE q # p
  <2>1. name'[q] = name[q] /\ age'[q] = age[q]
    BY <1>1 DEF Upsert, TypeOK, TableOK
  <2> QED BY <2>1 DEF FreshIsRecent, Fresh
<1>2. CASE q = p
  <2>1. name'[p] = Coalesced(entry, name[p]) /\ age'[p] = 0
    BY DEF Upsert, TypeOK, TableOK
  <2>2. entry # directory[p]
    BY <1>2, <2>1 DEF Coalesced, Fresh
  <2> QED BY <1>2, <2>1, <2>2, CacheAssumption DEF TypeOK, LongAgo
<1> QED BY <1>1, <1>2

\* What is left of a lookup after a step that asks nothing new.
LEMMA WaitersRecent ==
    ASSUME AnswersRecent, UNCHANGED terminal,
           \A c \in Callers : Waits(c)' =>
               Waits(c) /\ info'[c] = info[c] /\ who'[c] = who[c] /\ held'[c] = held[c],
           page' \subseteq page, page' # {} => pageHeld' = pageHeld,
           \A p \in page' : listed'[p] = listed[p]
    PROVE  AnswersRecent'
BY DEF AnswersRecent, terminal

LEMMA RecentStep ==
    ASSUME Filters, RecentInv, [Next]_vars
    PROVE  FreshIsRecent' /\ AnswersRecent'
<1>0. TypeOK /\ LookupsOK /\ TableOK /\ PrimeOK /\ FreshIsRecent /\ AnswersRecent
  BY DEF RecentInv, TypeOK
<1>1. ASSUME UNCHANGED <<terminal, table>> PROVE FreshIsRecent'
  BY <1>0, <1>1 DEF FreshIsRecent, Fresh, terminal, table
<1>2. ASSUME UNCHANGED <<terminal, lookups, priming>> PROVE AnswersRecent'
  BY <1>0, <1>2, WaitersRecent DEF Waits, lookups, priming
<1>3. CASE Tick
  <2>1. /\ \A p \in Persons : since'[p] \in Int /\ since'[p] <= since[p] + 1
        /\ UNCHANGED <<directory, name, pc, who, info, page, listed>>
    BY <1>0, <1>3, CacheAssumption DEF Tick, UpTo, TypeOK, LongAgo
  <2>2. FreshIsRecent'
    <3> SUFFICES ASSUME NEW p \in Persons, Fresh(p)',
                        directory[p] # name[p], directory[p] # Nameless
                 PROVE  since'[p] <= age'[p] + Patience
      BY <2>1 DEF FreshIsRecent
    <3>1. age'[p] = age[p] + 1 /\ Fresh(p)
      BY <1>0, <1>3, <2>1, CacheAssumption DEF Tick, UpTo, Fresh, TableOK
    <3>2. since[p] <= age[p] + Patience
      BY <1>0, <3>1 DEF FreshIsRecent
    <3>3. age[p] \in Nat /\ since[p] \in Nat /\ Patience \in Nat
      BY <1>0, CacheAssumption DEF TypeOK, TableOK, LongAgo
    <3> QED BY <2>1, <3>1, <3>2, <3>3
  <2>3. AnswersRecent'
    <3>1. ASSUME NEW c \in Callers, Waits(c), info[c] # directory[who[c]]
          PROVE  since'[who[c]] <= held'[c]
      <4>1. who[c] \in Persons
        BY <1>0, <3>1 DEF LookupsOK, Waits
      <4>2. held'[c] = held[c] + 1 /\ since[who[c]] <= held[c]
        BY <1>0, <1>3, <3>1 DEF Tick, AnswersRecent
      <4>3. held[c] \in Nat /\ since[who[c]] \in Nat
        BY <1>0, <4>1, Clocks
      <4> QED BY <2>1, <4>1, <4>2, <4>3
    <3>2. ASSUME NEW p \in page, listed[p] # directory[p]
          PROVE  since'[p] <= pageHeld'
      <4>1. p \in Persons /\ prime \in {"more", "last"}
        BY <1>0, <3>2 DEF PrimeOK
      <4>2. pageHeld' = pageHeld + 1 /\ since[p] <= pageHeld
        BY <1>0, <1>3, <3>2, <4>1 DEF Tick, AnswersRecent
      <4> QED
        BY <1>0, <2>1, <4>1, <4>2, CacheAssumption DEF TypeOK, PrimeOK, LongAgo
    <3> QED BY <2>1, <3>1, <3>2 DEF AnswersRecent, Waits
  <2> QED BY <2>2, <2>3
<1>4. CASE PrimeStart
  <2>1. AnswersRecent'
    BY <1>0, <1>4, WaitersRecent DEF PrimeStart, Waits, lookups
  <2> QED BY <1>1, <1>4, <2>1 DEF PrimeStart
<1>5. CASE PrimePage
  <2>1. AnswersRecent'
    <3>1. CASE LeavePrime
      BY <1>0, <1>5, <3>1, WaitersRecent DEF PrimePage, LeavePrime, Waits, lookups
    <3>2. CASE /\ page' = OnPage
               /\ listed' = [p \in Persons |->
                               IF p \in OnPage THEN directory[p] ELSE Absent]
      <4>1. \A p \in page' : listed'[p] = directory[p]
        BY <3>2 DEF OnPage, Enrolled
      <4> QED
        BY <1>0, <1>5, <4>1
        DEF PrimePage, AnswersRecent, Waits, lookups, terminal
    <3> QED BY <1>5, <3>1, <3>2 DEF PrimePage
  <2> QED BY <1>1, <1>5, <2>1 DEF PrimePage
<1>6. ASSUME NEW p \in Persons, PrimeSave(p)
      PROVE  FreshIsRecent' /\ AnswersRecent'
  <2>1. FreshIsRecent'
    <3>1. listed[p] \in Entries /\ listed[p] # Absent /\ p \in page
      BY <1>0, <1>6 DEF PrimeSave, PrimeOK
    <3>2. listed[p] # directory[p] => since[p] <= Patience
      BY <1>0, <3>1, CacheAssumption DEF AnswersRecent, PrimeOK, TypeOK, LongAgo
    <3> QED BY <1>0, <1>6, <3>1, <3>2, SaveIsRecent DEF PrimeSave
  <2>2. /\ page' \subseteq page
        /\ page' # {} => pageHeld' = pageHeld
        /\ \A q \in page' : listed'[q] = listed[q]
    BY <1>0, <1>6 DEF PrimeSave, LeavePrime, PrimeOK
  <2> QED BY <1>0, <1>6, <2>1, <2>2, WaitersRecent DEF PrimeSave, Waits, lookups
<1>7. CASE PrimeFails
  BY <1>0, <1>1, <1>7, WaitersRecent
  DEF PrimeFails, LeavePrime, Waits, lookups
<1>8. CASE Reload
  <2>1. \A c \in Callers : ~ Waits(c)'
    BY <1>8 DEF Reload, Waits
  <2>2. AnswersRecent'
    BY <1>8, <2>1 DEF Reload, LeavePrime, AnswersRecent
  <2> QED BY <1>1, <1>8, <2>2 DEF Reload
<1>9. ASSUME NEW p \in Persons, Change(p) PROVE FreshIsRecent' /\ AnswersRecent'
  <2>1. /\ since'[p] = 0 /\ UNCHANGED <<name, age>>
        /\ \A q \in Persons \ {p} : since'[q] = since[q] /\ directory'[q] = directory[q]
    BY <1>0, <1>9 DEF Change, table, TypeOK
  <2>2. FreshIsRecent'
    BY <1>0, <2>1, CacheAssumption DEF FreshIsRecent, Fresh, TableOK
  <2>3. \A c \in Callers : Waits(c) => who[c] \in Persons /\ 0 <= held[c]
    BY <1>0, CacheAssumption DEF LookupsOK, Waits
  <2>4. page \subseteq Persons /\ 0 <= pageHeld
    BY <1>0, CacheAssumption DEF PrimeOK
  <2>5. AnswersRecent'
    BY <1>0, <1>9, <2>1, <2>3, <2>4
    DEF Change, AnswersRecent, Waits, lookups, priming
  <2> QED BY <2>2, <2>5
<1>10. ASSUME NEW c \in Callers, NEW p \in Visitors, Read(c, p)
       PROVE  FreshIsRecent' /\ AnswersRecent'
  <2>1. \A d \in Callers : Waits(d)' => d # c /\ Waits(d) /\ who'[d] = who[d]
    BY <1>0, <1>10 DEF Read, Goto, Waits, LookupsOK
  <2>2. AnswersRecent'
    BY <1>0, <1>10, <2>1, WaitersRecent DEF Read, priming
  <2> QED BY <1>1, <1>10, <2>2 DEF Read
<1>11. ASSUME NEW c \in Callers, Check(c) PROVE FreshIsRecent' /\ AnswersRecent'
  <2>1. CASE Answered(c)
    <3>1. who[c] \in Persons
      BY <1>0, <1>11, CacheAssumption DEF Check, LookupsOK
    <3>2. info'[c] = directory[who[c]] /\ who' = who
      BY <1>0, <2>1, <3>1 DEF Answered, Found, Enrolled, LookupsOK
    <3>3. \A d \in Callers \ {c} :
            /\ Waits(d)' => Waits(d)
            /\ info'[d] = info[d] /\ held'[d] = held[d]
      BY <1>0, <2>1 DEF Answered, Goto, Waits, LookupsOK
    <3> QED
      BY <1>0, <1>1, <1>11, <3>1, <3>2, <3>3
      DEF Check, AnswersRecent, terminal, priming
  <2>2. CASE Return(c)
    <3>1. \A d \in Callers : Waits(d)' => /\ Waits(d) /\ info'[d] = info[d]
                                          /\ who'[d] = who[d] /\ held'[d] = held[d]
      BY <1>0, <2>2 DEF Return, Waits, LookupsOK
    <3> QED BY <1>0, <1>1, <1>11, <3>1, WaitersRecent DEF Check, priming
  <2> QED BY <1>11, <2>1, <2>2 DEF Check
<1>12. ASSUME NEW c \in Callers,
             Receive(c) \/ LookupFails(c) \/ PortraitRaises(c)
       PROVE  FreshIsRecent' /\ AnswersRecent'
  <2>1. \A d \in Callers : Waits(d)' => /\ Waits(d) /\ info'[d] = info[d]
                                        /\ who'[d] = who[d] /\ held'[d] = held[d]
    BY <1>0, <1>12
    DEF Receive, LookupFails, PortraitRaises, Return, Goto, Waits, LookupsOK
  <2> QED
    BY <1>0, <1>1, <1>12, <2>1, WaitersRecent
    DEF Receive, LookupFails, PortraitRaises, priming
<1>13. ASSUME NEW c \in Callers, Save(c) PROVE FreshIsRecent' /\ AnswersRecent'
  <2>1. /\ who[c] \in Persons /\ info[c] \in Entries /\ info[c] # Absent
        /\ Waits(c)
    BY <1>0, <1>13 DEF Save, LookupsOK, Waits
  <2>2. info[c] # directory[who[c]] => since[who[c]] <= Patience
    <3>1. /\ held[c] \in Nat /\ held[c] <= Patience /\ Patience \in Nat
          /\ since[who[c]] \in Nat
      BY <1>0, <2>1, Clocks
    <3> QED BY <1>0, <2>1, <3>1 DEF AnswersRecent
  <2>3. FreshIsRecent'
    BY <1>0, <1>13, <2>1, <2>2, SaveIsRecent DEF Save
  <2>4. \A d \in Callers : Waits(d)' => /\ Waits(d) /\ info'[d] = info[d]
                                        /\ who'[d] = who[d] /\ held'[d] = held[d]
    BY <1>0, <1>13 DEF Save, Return, Waits, LookupsOK
  <2> QED BY <1>0, <1>13, <2>3, <2>4, WaitersRecent DEF Save, priming
<1>14. CASE UNCHANGED vars
  BY <1>1, <1>2, <1>14 DEF vars
<1> QED
  BY <1>3, <1>4, <1>5, <1>6, <1>7, <1>8, <1>9, <1>10, <1>11, <1>12, <1>13,
     <1>14, CacheAssumption
  DEF Next, Step, PrimeStep

LEMMA InitRecent == Init => FreshIsRecent /\ AnswersRecent /\ FlightsLand
BY DEF Init, FreshIsRecent, AnswersRecent, Fresh, Waits, FlightsLand, Flying

-----------------------------------------------------------------------------
(* Nothing is forgotten.                                                   *)

LEMMA UpsertKeeps ==
    ASSUME TableOK, Blanks = {}, NEW p \in Persons, NEW entry \in Entries,
           entry # Absent, NEW withPicture \in BOOLEAN,
           Upsert(p, entry, withPicture)
    PROVE  /\ \A q \in Persons : name[q] # NoName => name'[q] # NoName
           /\ pictured \subseteq pictured'
<1>1. name[p] # NoName => Coalesced(entry, name[p]) # NoName
  BY DistinctNames DEF Coalesced, Entries
<1> QED BY <1>1 DEF Upsert, TableOK

LEMMA KeepStep ==
    ASSUME TypeOK, Blanks = {}, [Next]_vars
    PROVE  /\ \A p \in Persons : name[p] # NoName => name'[p] # NoName
           /\ pictured \subseteq pictured'
<1>0. TableOK /\ LookupsOK /\ PrimeOK
  BY DEF TypeOK
<1>1. ASSUME NEW c \in Callers, Save(c)
      PROVE  /\ \A p \in Persons : name[p] # NoName => name'[p] # NoName
             /\ pictured \subseteq pictured'
  <2>1. who[c] \in Persons /\ info[c] \in Entries /\ info[c] # Absent
    BY <1>0, <1>1 DEF Save, LookupsOK
  <2> QED BY <1>0, <1>1, <2>1, UpsertKeeps DEF Save
<1>2. ASSUME NEW p \in Persons, PrimeSave(p)
      PROVE  /\ \A q \in Persons : name[q] # NoName => name'[q] # NoName
             /\ pictured \subseteq pictured'
  <2>1. listed[p] \in Entries /\ listed[p] # Absent
    BY <1>0, <1>2 DEF PrimeSave, PrimeOK
  <2> QED BY <1>0, <1>2, <2>1, UpsertKeeps DEF PrimeSave
<1>3. CASE UNCHANGED table
  BY <1>3 DEF table
<1>4. CASE Tick
  BY <1>4 DEF Tick
<1> QED
  BY <1>1, <1>2, <1>3, <1>4
  DEF Next, Step, PrimeStep, PrimeStart, PrimePage, PrimeFails, Reload, Change,
      Read, Check, Receive, LookupFails, PortraitRaises, vars

-----------------------------------------------------------------------------
(* The pages of async_prime: positions in the directory are ranks.         *)

Before(p) == {q \in Enrolled : q < p}

LEMMA Ranks ==
    /\ \A p \in Enrolled : p \in Nat
    /\ \A p : IsFiniteSet(Before(p)) /\ Rank(p) \in Nat
    /\ \A p \in Enrolled : Rank(p) < Cardinality(Enrolled)
    /\ \A p, q \in Enrolled : q < p => Rank(q) < Rank(p)
<1>0. IsFiniteSet(Enrolled) /\ Cardinality(Enrolled) \in Nat
  BY DirectoryFinite
<1>1. ASSUME NEW p \in Enrolled PROVE p \in Nat
  BY CacheAssumption DEF Enrolled
<1>2. ASSUME NEW p PROVE IsFiniteSet(Before(p)) /\ Rank(p) \in Nat
  BY <1>0, FS_Subset, FS_CardinalityType DEF Before, Rank
<1>3. ASSUME NEW p \in Enrolled PROVE Rank(p) < Cardinality(Enrolled)
  <2>1. Before(p) \subseteq Enrolled /\ p \notin Before(p)
    BY <1>1 DEF Before
  <2>2. Cardinality(Before(p)) <= Cardinality(Enrolled)
    BY <1>0, <2>1, FS_Subset
  <2>3. Cardinality(Before(p)) # Cardinality(Enrolled)
    BY <1>0, <2>1, FS_Subset
  <2> QED BY <1>0, <1>2, <2>2, <2>3 DEF Before, Rank
<1>4. ASSUME NEW p \in Enrolled, NEW q \in Enrolled, q < p
      PROVE  Rank(q) < Rank(p)
  <2>1. Before(q) \subseteq Before(p) /\ q \in Before(p) /\ q \notin Before(q)
    BY <1>1, <1>4 DEF Before
  <2>2. Cardinality(Before(q)) <= Cardinality(Before(p))
    BY <1>2, <2>1, FS_Subset
  <2>3. Cardinality(Before(q)) # Cardinality(Before(p))
    BY <1>2, <2>1, FS_Subset
  <2> QED BY <1>2, <2>2, <2>3 DEF Before, Rank
<1> QED BY <1>1, <1>2, <1>3, <1>4

\* Whose ranks lie between two positions are no more than the positions.
LEMMA FewBetween ==
    ASSUME NEW S \in SUBSET Enrolled, NEW a \in Nat, NEW n \in Nat,
           \A p \in S : a <= Rank(p) /\ Rank(p) < a + n
    PROVE  Cardinality(S) <= n
<1> DEFINE f == [p \in S |-> Rank(p)]
<1>1. f \in [S -> a..(a + n - 1)]
  BY Ranks
<1>2. \A p, q \in S : f[p] = f[q] => p = q
  <2> SUFFICES ASSUME NEW p \in S, NEW q \in S, p # q PROVE Rank(p) # Rank(q)
    OBVIOUS
  <2>1. p < q \/ q < p
    BY Ranks
  <2> QED BY <2>1, Ranks
<1>3. f \in Injection(S, a..(a + n - 1))
  BY <1>1, <1>2 DEF Injection, IsInjective
<1>4. /\ IsFiniteSet(a..(a + n - 1))
      /\ Cardinality(a..(a + n - 1)) = n
  BY FS_Interval
<1> HIDE DEF f
<1> QED BY <1>3, <1>4, FS_Injection

\* A page that comes back empty is behind everybody.
LEMMA EmptyPageIsLast ==
    ASSUME position \in Nat, OnPage = {}, NEW p \in Enrolled
    PROVE  Rank(p) < position
<1> SUFFICES ASSUME ~ (Rank(p) < position) PROVE FALSE
  OBVIOUS
<1> DEFINE T == {q \in Enrolled : ~ (Rank(q) < position)}
           R == OpToRel(<, Nat)
<1>1. T \subseteq Nat /\ T # {}
  BY Ranks
<1>2. PICK m \in T : \A q \in T : ~ (<<q, m>> \in R)
  <2> HIDE DEF T, R
  <2>1. IsWellFoundedOn(R, Nat)
    BY NatLessThanWellFounded DEF R
  <2> QED BY <1>1, <2>1, WFMin
<1>3. m \in Enrolled /\ Rank(m) \in Nat /\ ~ (Rank(m) < position)
  BY <1>2, Ranks
<1>4. \A q \in T : ~ (q < m)
  BY <1>1, <1>2 DEF OpToRel
<1>5. \A q \in Before(m) : 0 <= Rank(q) /\ Rank(q) < 0 + position
  <2> SUFFICES ASSUME NEW q \in Before(m)
               PROVE  0 <= Rank(q) /\ Rank(q) < 0 + position
    OBVIOUS
  <2>1. q \in Enrolled /\ q < m
    BY DEF Before
  <2>2. Rank(q) < position
    BY <1>4, <2>1
  <2> QED BY <2>1, <2>2, Ranks
<1>6. Cardinality(Before(m)) <= position
  <2>1. Before(m) \in SUBSET Enrolled
    BY DEF Before
  <2> QED BY <1>5, <2>1, FewBetween
<1>7. Rank(m) = position
  BY <1>3, <1>6 DEF Before, Rank
<1>8. m \in OnPage
  BY <1>3, <1>7, CacheAssumption DEF OnPage
<1> QED BY <1>8

\* As long as the directory stays the same, whoever is in front of the next
\* page is saved or about to be, and the last page has nobody behind it.
PagesCover ==
    /\ prime = "idle" => position = 0
    /\ prime # "idle" /\ steady = 1 =>
        /\ \A p \in Enrolled : Rank(p) < position => p \in loaded \cup page
        /\ prime = "last" => \A p \in Enrolled : Rank(p) < position

LEMMA InitPages == Init => PagesCover
BY DEF Init, PagesCover

\* A page covers the ranks up to the position behind it.
LEMMA PageCovers ==
    ASSUME PrimeOK, PrimePage, OnPage # {}, NEW p \in Enrolled,
           Rank(p) < position', ~ (Rank(p) < position)
    PROVE  p \in OnPage
<1>0. position \in Nat /\ PageSize \in Nat /\ Cardinality(OnPage) \in Nat
  BY CacheAssumption, DirectoryFinite DEF PrimeOK
<1>1. position' = position + Cardinality(OnPage)
  BY DEF PrimePage
<1>2. Cardinality(OnPage) <= PageSize
  <2>1. \A q \in OnPage : position <= Rank(q) /\ Rank(q) < position + PageSize
    BY DEF OnPage
  <2>2. OnPage \in SUBSET Enrolled
    BY DEF OnPage
  <2> QED BY <1>0, <2>1, <2>2, FewBetween
<1>3. Rank(p) \in Nat
  BY Ranks
<1>4. position <= Rank(p) /\ Rank(p) < position + PageSize
  BY <1>0, <1>1, <1>2, <1>3
<1> QED BY <1>4 DEF OnPage

LEMMA PagesStep == TypeOK /\ PagesCover /\ [Next]_vars => PagesCover'
<1> SUFFICES ASSUME TypeOK, PagesCover, [Next]_vars PROVE PagesCover'
  OBVIOUS
<1>0. PrimeOK
  BY DEF TypeOK
<1>1. ASSUME UNCHANGED <<directory, prime, position, page, loaded, steady>>
      PROVE  PagesCover'
  <2>1. Enrolled' = Enrolled
    BY <1>1 DEF Enrolled
  <2>2. \A p : Rank(p)' = Rank(p)
    BY <2>1 DEF Rank
  <2> QED BY <1>1, <2>1, <2>2 DEF PagesCover
<1>2. CASE LeavePrime
  BY <1>2 DEF LeavePrime, PagesCover
<1>3. ASSUME steady' = 0, UNCHANGED <<prime, position>> PROVE PagesCover'
  BY <1>3 DEF PagesCover
<1>4. ASSUME UNCHANGED directory
      PROVE  Enrolled' = Enrolled /\ \A p : Rank(p)' = Rank(p)
  <2>1. Enrolled' = Enrolled
    BY <1>4 DEF Enrolled
  <2> QED BY <2>1 DEF Rank
<1>5. CASE PrimeStart
  <2>1. prime' = "page" /\ position' = 0 /\ UNCHANGED directory
    BY <1>5 DEF PrimeStart, PagesCover, terminal
  <2>2. \A p \in Enrolled : ~ (Rank(p) < 0)
    BY Ranks
  <2> QED BY <1>4, <2>1, <2>2 DEF PagesCover
<1>6. CASE PrimePage
  <2>1. CASE OnPage = {}
    BY <1>2, <1>6, <2>1 DEF PrimePage
  <2>2. CASE OnPage # {}
    <3>1. /\ UNCHANGED <<directory, loaded, steady>>
          /\ prime = "page" /\ page' = OnPage /\ page = {}
      BY <1>0, <1>6, <2>2 DEF PrimePage, PrimeOK, terminal
    <3>2. ASSUME steady = 1, NEW p \in Enrolled, Rank(p) < position'
          PROVE  p \in loaded' \cup page'
      BY <1>0, <1>6, <2>2, <3>1, <3>2, PageCovers DEF PagesCover
    <3>3. ASSUME prime' = "last", NEW p \in Enrolled PROVE Rank(p) < position'
      <4>1. ~ (position' < Cardinality(Enrolled))
        BY <1>6, <2>2, <3>3 DEF PrimePage
      <4>2. position' \in Nat
        <5>1. position \in Nat /\ position' = position + Cardinality(OnPage)
          BY <1>0, <1>6, <2>2 DEF PrimePage, PrimeOK
        <5> QED BY <5>1, DirectoryFinite
      <4>3. /\ Rank(p) \in Nat /\ Cardinality(Enrolled) \in Nat
            /\ Rank(p) < Cardinality(Enrolled)
        BY Ranks, DirectoryFinite
      <4> QED BY <4>1, <4>2, <4>3
    <3>4. prime' # "idle" /\ steady' = steady
      BY <1>6, <2>2, <3>1 DEF PrimePage
    <3>5. Enrolled' = Enrolled /\ \A p : Rank(p)' = Rank(p)
      BY <1>4, <3>1
    <3> QED BY <3>2, <3>3, <3>4, <3>5 DEF PagesCover
  <2> QED BY <2>1, <2>2
<1>7. ASSUME NEW p \in Persons, PrimeSave(p) PROVE PagesCover'
  <2>1. CASE LeavePrime
    BY <1>2, <2>1
  <2>2. CASE ~ LeavePrime
    <3>1. /\ UNCHANGED <<directory, position, steady>>
          /\ loaded' \cup page' = loaded \cup page
          /\ prime' \in {"page", prime} /\ prime # "idle"
      BY <1>7, <2>2 DEF PrimeSave, terminal
    <3> QED BY <1>4, <3>1 DEF PagesCover
  <2> QED BY <2>1, <2>2
<1>8. CASE Tick
  BY <1>1, <1>8 DEF Tick
<1>9. CASE PrimeFails \/ Reload
  BY <1>2, <1>9 DEF PrimeFails, Reload
<1>10. CASE \E p \in Movers : Change(p)
  BY <1>3, <1>10 DEF Change, priming
<1>11. CASE \E c \in Callers :
              \/ \E p \in Visitors : Read(c, p)
              \/ Step(c) \/ LookupFails(c) \/ PortraitRaises(c)
  BY <1>1, <1>11
  DEF Read, Step, Check, Receive, Save, LookupFails, PortraitRaises, terminal,
      priming
<1>12. CASE UNCHANGED vars
  BY <1>1, <1>12 DEF vars, terminal, priming
<1> QED
  BY <1>5, <1>6, <1>7, <1>8, <1>9, <1>10, <1>11, <1>12 DEF Next, PrimeStep

-----------------------------------------------------------------------------
\* The table, the lookups and the sync keep their shape: a name is saved only
\* for a person the terminal knew.
THEOREM TypeCorrect == Spec => []TypeOK
BY InitType, TypeStep, PTL DEF Spec

\* person_manager.py:97: one request per person is under way, and each ends.
THEOREM OneFlight == Spec => []FlightsLand
<1>1. TypeOK /\ FlightsLand /\ [Next]_vars => FlightsLand'
  BY FlightStep
<1> QED BY <1>1, InitRecent, TypeCorrect, PTL DEF Spec

\* person_manager.py:4: a terminal that honours the filter has its names
\* served for a day and the time an answer waits, at most.
THEOREM NamesRecent == ASSUME Filters PROVE Spec => []FreshIsRecent
<1>1. Init => RecentInv
  BY InitType, InitRecent DEF RecentInv
<1>2. RecentInv /\ [Next]_vars => RecentInv'
  BY RecentStep, TypeStep DEF RecentInv
<1>3. RecentInv => FreshIsRecent
  BY DEF RecentInv
<1> QED BY <1>1, <1>2, <1>3, PTL DEF Spec

\* storage.py, async_upsert_person: COALESCE keeps what an answer lacks.
THEOREM NamesKept == ASSUME Blanks = {} PROVE Spec => NothingForgotten
<1>1. TypeOK /\ [Next]_vars
        => [/\ \A p \in Persons : name[p] # NoName => name'[p] # NoName
            /\ pictured \subseteq pictured']_vars
  BY KeepStep
<1> QED BY <1>1, TypeCorrect, PTL DEF Spec, NothingForgotten

\* person_manager.py, async_prime: a sync of a directory that stays the same
\* ends without an error only when everybody in it is saved.
THEOREM SyncsAreComplete == Spec => SyncComplete
<1>1. ASSUME TypeOK, PagesCover, [Next]_vars,
             prime # "idle", prime' = "idle", steady = 1, faults' = faults
      PROVE  Enrolled \subseteq loaded \cup page
  <2>0. PrimeOK /\ position \in Nat /\ faults \in Nat
    BY <1>1, CacheAssumption DEF TypeOK, PrimeOK
  <2>1. prime = "last" \/ (prime = "page" /\ OnPage = {})
    <3>1. faults' # faults + 1
      BY <1>1, <2>0
    <3> QED
      BY <1>1, <3>1
      DEF Next, Tick, PrimeStart, PrimeStep, PrimePage, PrimeSave, PrimeFails,
          Reload, Change, Read, Step, Check, Receive, Save, LookupFails,
          PortraitRaises, priming, vars
  <2>2. \A p \in Enrolled : Rank(p) < position
    BY <1>1, <2>0, <2>1, EmptyPageIsLast DEF PagesCover
  <2> QED BY <1>1, <2>2 DEF PagesCover
<1>2. TypeOK /\ PagesCover /\ [Next]_vars
        => [prime # "idle" /\ prime' = "idle" /\ steady = 1 /\ faults' = faults
             => Enrolled \subseteq loaded \cup page]_vars
  BY <1>1
<1> QED
  BY <1>2, InitPages, PagesStep, TypeCorrect, PTL DEF Spec, SyncComplete

=============================================================================
