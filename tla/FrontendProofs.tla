--------------------------- MODULE FrontendProofs ---------------------------
(***************************************************************************)
(* What the user interface promises, for every value of the constants: the *)
(* forms that write entries, for any number of terminals, addresses,       *)
(* credentials, entries and open forms, and the card's list of events, for *)
(* any terminals, events, page size and requests in flight.                *)
(*                                                                         *)
(* FlowInv adds what a form that is past its first await knows: that the   *)
(* terminal it found answered at the address and took the credentials it   *)
(* is about to write.                                                      *)
(*                                                                         *)
(* ListInv adds what a request knows between the queries of its stores     *)
(* (GotOlder, GotNewest) and where the list ends (ListReached): that an    *)
(* event is not in the list says nothing before it is known in which page  *)
(* it will be.                                                             *)
(***************************************************************************)
EXTENDS ConfigFlow, Timeline, FiniteSetTheorems, TLAPS

(* The forms.                                                              *)

\* What a form is about to write has been probed.
FoundProven ==
    \A f \in Flows :
        flow[f] # NoForm /\ flow[f].step = "discover" =>
            <<flow[f].found, flow[f].data.host, flow[f].data.secret>> \in proven

FlowInv == TypeOK /\ FoundProven /\ OneEntryPerTerminal /\ Proven

LEMMA InitInv == Init => FlowInv
<1> SUFFICES ASSUME Init PROVE FlowInv
  OBVIOUS
<1> QED
  BY ConfigFlowAssumption
  DEF Init, FlowInv, TypeOK, FoundProven, OneEntryPerTerminal, Proven, Exists,
      EntryOf

-----------------------------------------------------------------------------
(* Writing an entry.                                                       *)

\* An entry given probed data keeps the entries well typed and proven; its
\* unique id is its own, or one that no other entry has.
LEMMA WriteKeeps ==
    ASSUME TypeOK, OneEntryPerTerminal, Proven,
           NEW i \in Entries, NEW d \in Data,
           entries' = [entries EXCEPT ![i] = d],
           UNCHANGED proven,
           \E s \in Secrets : <<d.uid, d.host, s>> \in proven,
           \E h \in Hosts : <<d.uid, h, d.secret>> \in proven,
           EntryOf(d.uid) \subseteq {i}
    PROVE  /\ entries' \in [Entries -> Data \cup {NoEntry}]
           /\ OneEntryPerTerminal' /\ Proven'
<1>1. entries' \in [Entries -> Data \cup {NoEntry}]
  BY DEF TypeOK
<1>2. /\ entries'[i] = d /\ d # NoEntry
      /\ \A j \in Entries \ {i} : entries'[j] = entries[j]
  BY ConfigFlowAssumption DEF TypeOK
<1>3. Proven'
  BY <1>2 DEF Proven, Exists
<1>4. OneEntryPerTerminal'
  <2>1. ASSUME NEW t \in Terminals, NEW j \in EntryOf(t)', NEW k \in EntryOf(t)'
        PROVE  j = k
    <3>1. CASE t = d.uid
      BY <1>2, <2>1, <3>1 DEF EntryOf, Exists
    <3>2. CASE t # d.uid
      <4>1. j \in EntryOf(t) /\ k \in EntryOf(t)
        BY <1>2, <2>1, <3>2 DEF EntryOf, Exists
      <4> QED BY <4>1 DEF OneEntryPerTerminal
    <3> QED BY <3>1, <3>2
  <2> QED BY <2>1 DEF OneEntryPerTerminal
<1> QED BY <1>1, <1>3, <1>4

\* The end of a form, if it writes.
LEMMA FinishUserKeeps ==
    ASSUME FlowInv, NEW f \in Flows, FinishUser(f), UNCHANGED proven,
           flow[f] # NoForm, flow[f].step = "discover"
    PROVE  /\ entries' \in [Entries -> Data \cup {NoEntry}]
           /\ running' \in [Entries -> Data \cup {NoEntry}]
           /\ OneEntryPerTerminal' /\ Proven'
<1> DEFINE d == flow[f].data
           t == flow[f].found
<1>1. /\ flow[f] \in Forms /\ d \in Typed
      /\ t \in Terminals /\ <<t, d.host, d.secret>> \in proven
      /\ d.host \in Hosts /\ d.secret \in Secrets
  BY DEF FlowInv, TypeOK, FoundProven, Forms, Typed
<1>2. TypeOK /\ OneEntryPerTerminal /\ Proven
  BY DEF FlowInv
<1>3. CASE UNCHANGED <<entries, running>>
  BY <1>2, <1>3 DEF TypeOK, OneEntryPerTerminal, Proven, EntryOf, Exists
<1>4. ASSUME NEW i \in EntryOf(t),
             Update(i, [entries[i] EXCEPT !.host = d.host])
      PROVE  /\ entries' \in [Entries -> Data \cup {NoEntry}]
             /\ running' \in [Entries -> Data \cup {NoEntry}]
             /\ OneEntryPerTerminal' /\ Proven'
  <2> DEFINE e == [entries[i] EXCEPT !.host = d.host]
  <2>1. i \in Entries /\ entries[i] \in Data /\ entries[i].uid = t
    BY <1>2, <1>4 DEF EntryOf, Exists, TypeOK
  <2>2. /\ e \in Data /\ e.uid = t /\ e.host = d.host
        /\ e.secret = entries[i].secret
    BY <1>1, <2>1 DEF Data
  <2>3. /\ entries' = [entries EXCEPT ![i] = e]
        /\ running' = [running EXCEPT ![i] = NoEntry]
    BY <1>4 DEF Update
  <2>4. \E h \in Hosts : <<e.uid, h, e.secret>> \in proven
    BY <1>2, <1>4, <2>1, <2>2 DEF Proven, EntryOf
  <2>5. \E s \in Secrets : <<e.uid, e.host, s>> \in proven
    BY <1>1, <2>2
  <2>6. EntryOf(e.uid) \subseteq {i}
    BY <1>1, <1>2, <1>4, <2>2 DEF OneEntryPerTerminal
  <2> HIDE DEF e, d, t
  <2>7. running' \in [Entries -> Data \cup {NoEntry}]
    BY <1>2, <2>3 DEF TypeOK
  <2> QED BY <1>2, <2>1, <2>2, <2>3, <2>4, <2>5, <2>6, <2>7, WriteKeeps
<1>5. ASSUME EntryOf(t) = {}, NEW i \in Entries, ~ Exists(i),
             Update(i, [uid |-> t, host |-> d.host, secret |-> d.secret])
      PROVE  /\ entries' \in [Entries -> Data \cup {NoEntry}]
             /\ running' \in [Entries -> Data \cup {NoEntry}]
             /\ OneEntryPerTerminal' /\ Proven'
  <2> DEFINE e == [uid |-> t, host |-> d.host, secret |-> d.secret]
  <2>1. e \in Data /\ e.uid = t /\ e.host = d.host /\ e.secret = d.secret
    BY <1>1 DEF Data
  <2>2. /\ entries' = [entries EXCEPT ![i] = e]
        /\ running' = [running EXCEPT ![i] = NoEntry]
    BY <1>5 DEF Update
  <2>3. /\ \E s \in Secrets : <<e.uid, e.host, s>> \in proven
        /\ \E h \in Hosts : <<e.uid, h, e.secret>> \in proven
    BY <1>1, <2>1
  <2>4. EntryOf(e.uid) \subseteq {i}
    BY <1>5, <2>1
  <2> HIDE DEF e, d, t
  <2>5. running' \in [Entries -> Data \cup {NoEntry}]
    BY <1>2, <2>2 DEF TypeOK
  <2> QED BY <1>2, <2>1, <2>2, <2>3, <2>4, <2>5, WriteKeeps
<1> QED BY <1>3, <1>4, <1>5 DEF FinishUser

LEMMA FinishKnownKeeps ==
    ASSUME FlowInv, NEW f \in Flows, FinishKnown(f), UNCHANGED proven,
           flow[f] # NoForm, flow[f].step = "discover", flow[f].kind # "user"
    PROVE  /\ entries' \in [Entries -> Data \cup {NoEntry}]
           /\ running' \in [Entries -> Data \cup {NoEntry}]
           /\ OneEntryPerTerminal' /\ Proven'
<1> DEFINE d == flow[f].data
           i == flow[f].id
           e == [entries[i] EXCEPT !.host = d.host, !.secret = d.secret]
<1>1. /\ flow[f] \in Forms /\ d \in Typed /\ i \in Entries
      /\ <<flow[f].found, d.host, d.secret>> \in proven
      /\ d.host \in Hosts /\ d.secret \in Secrets
  BY DEF FlowInv, TypeOK, FoundProven, Forms, Typed
<1>2. TypeOK /\ OneEntryPerTerminal /\ Proven
  BY DEF FlowInv
<1>3. CASE UNCHANGED <<entries, running>>
  BY <1>2, <1>3 DEF TypeOK, OneEntryPerTerminal, Proven, EntryOf, Exists
<1>4. CASE Exists(i) /\ flow[f].found = entries[i].uid /\ Update(i, e)
  <2>1. entries[i] \in Data
    BY <1>1, <1>2, <1>4 DEF Exists, TypeOK
  <2>2. /\ e \in Data /\ e.uid = entries[i].uid /\ e.host = d.host
        /\ e.secret = d.secret
    BY <1>1, <2>1 DEF Data
  <2>3. /\ entries' = [entries EXCEPT ![i] = e]
        /\ running' = [running EXCEPT ![i] = NoEntry]
    BY <1>4 DEF Update
  <2>4. /\ \E s \in Secrets : <<e.uid, e.host, s>> \in proven
        /\ \E h \in Hosts : <<e.uid, h, e.secret>> \in proven
    BY <1>1, <1>4, <2>2
  <2>5. EntryOf(e.uid) \subseteq {i}
    <3>1. e.uid \in Terminals /\ i \in EntryOf(e.uid)
      BY <1>1, <1>4, <2>1, <2>2 DEF EntryOf, Data
    <3> QED BY <1>2, <3>1 DEF OneEntryPerTerminal
  <2> HIDE DEF e, d, i
  <2>6. running' \in [Entries -> Data \cup {NoEntry}]
    BY <1>2, <2>3 DEF TypeOK
  <2> QED BY <1>1, <1>2, <2>2, <2>3, <2>4, <2>5, <2>6, WriteKeeps
<1> QED BY <1>3, <1>4 DEF FinishKnown

\* Closing a form leaves the others as they are.
LEMMA CloseKeeps ==
    ASSUME TypeOK, FoundProven, NEW f \in Flows, Close(f), UNCHANGED proven
    PROVE  /\ flow' \in [Flows -> Forms \cup {NoForm}]
           /\ \A g \in Flows : flow'[g] # NoForm => flow'[g] = flow[g]
BY DEF TypeOK, Close

-----------------------------------------------------------------------------
LEMMA InvStep == FlowInv /\ [Next]_vars => FlowInv'
<1> SUFFICES ASSUME FlowInv, [Next]_vars PROVE FlowInv'
  OBVIOUS
<1>0. TypeOK /\ FoundProven /\ OneEntryPerTerminal /\ Proven
  BY DEF FlowInv
<1> USE ConfigFlowAssumption
<1>1. ASSUME UNCHANGED <<entries, proven>>
      PROVE  OneEntryPerTerminal' /\ Proven'
  BY <1>0, <1>1 DEF OneEntryPerTerminal, Proven, EntryOf, Exists
<1>2. CASE Move
  <2>1. TypeOK'
    BY <1>0, <1>2 DEF Move, Change, TypeOK
  <2>2. FoundProven'
    BY <1>0, <1>2 DEF Move, FoundProven
  <2> QED BY <1>1, <1>2, <2>1, <2>2 DEF Move, FlowInv
<1>3. CASE NewSecret
  <2>1. TypeOK'
    BY <1>0, <1>3 DEF NewSecret, Change, TypeOK
  <2>2. FoundProven'
    BY <1>0, <1>3 DEF NewSecret, FoundProven
  <2> QED BY <1>1, <1>3, <2>1, <2>2 DEF NewSecret, FlowInv
<1>4. ASSUME NEW i \in Entries, RemoveEntry(i) PROVE FlowInv'
  <2>1. \A g \in Flows : flow'[g] # NoForm => flow'[g] = flow[g]
    BY <1>4 DEF RemoveEntry
  <2>2. flow' \in [Flows -> Forms \cup {NoForm}]
    BY <1>0, <1>4 DEF RemoveEntry, TypeOK
  <2>3. \A j \in Entries : entries'[j] # NoEntry => entries'[j] = entries[j]
    BY <1>0, <1>4 DEF RemoveEntry, TypeOK
  <2>4. /\ entries' \in [Entries -> Data \cup {NoEntry}]
        /\ running' \in [Entries -> Data \cup {NoEntry}]
        /\ changes' \in 0..MaxChanges /\ UNCHANGED <<world, proven>>
    BY <1>0, <1>4 DEF RemoveEntry, Change, TypeOK
  <2>5. TypeOK'
    BY <1>0, <2>1, <2>2, <2>4 DEF TypeOK, world
  <2>6. FoundProven'
    BY <1>0, <2>1, <2>4 DEF FoundProven
  <2>7. OneEntryPerTerminal' /\ Proven'
    BY <1>0, <2>3, <2>4 DEF OneEntryPerTerminal, Proven, EntryOf, Exists
  <2> QED BY <2>5, <2>6, <2>7 DEF FlowInv
<1>5. ASSUME NEW i \in Entries, SetUpEntry(i) PROVE FlowInv'
  <2>1. TypeOK'
    BY <1>0, <1>5 DEF SetUpEntry, Exists, TypeOK, world
  <2>2. FoundProven'
    BY <1>0, <1>5 DEF SetUpEntry, FoundProven
  <2> QED BY <1>1, <1>5, <2>1, <2>2 DEF SetUpEntry, FlowInv
<1>6. ASSUME NEW f \in Flows, NEW form \in Forms,
             flow' = [flow EXCEPT ![f] = form],
             form.step = "identify", form.found = Nobody,
             form.id = Nobody <=> form.kind = "user",
             UNCHANGED <<world, entries, running, proven, changes>>
      PROVE  FlowInv'
  <2>1. TypeOK'
    BY <1>0, <1>6 DEF TypeOK, world
  <2>2. FoundProven'
    BY <1>0, <1>6 DEF TypeOK, FoundProven
  <2> QED BY <1>1, <1>6, <2>1, <2>2 DEF FlowInv
<1>7. ASSUME NEW f \in Flows, SubmitUser(f) PROVE FlowInv'
  <2>1. PICK d \in Typed :
            flow' = [flow EXCEPT ![f] =
                [step |-> "identify", kind |-> "user", id |-> Nobody,
                 data |-> d, found |-> Nobody]]
    BY <1>7 DEF SubmitUser
  <2>2. [step |-> "identify", kind |-> "user", id |-> Nobody, data |-> d,
         found |-> Nobody] \in Forms
    BY DEF Forms
  <2> QED BY <1>6, <1>7, <2>1, <2>2 DEF SubmitUser
<1>8. ASSUME NEW f \in Flows, NEW i \in Entries, SubmitReauth(f, i)
      PROVE  FlowInv'
  <2>1. PICK s \in Secrets :
            flow' = [flow EXCEPT ![f] =
                [step |-> "identify", kind |-> "reauth", id |-> i,
                 data |-> [host |-> entries[i].host, secret |-> s],
                 found |-> Nobody]]
    BY <1>8 DEF SubmitReauth
  <2>2. entries[i].host \in Hosts
    BY <1>0, <1>8 DEF SubmitReauth, Exists, TypeOK, Data
  <2>3. [step |-> "identify", kind |-> "reauth", id |-> i,
         data |-> [host |-> entries[i].host, secret |-> s],
         found |-> Nobody] \in Forms
    BY <2>2 DEF Forms, Typed
  <2> QED BY <1>6, <1>8, <2>1, <2>3 DEF SubmitReauth
<1>9. ASSUME NEW f \in Flows, NEW i \in Entries, SubmitReconfigure(f, i)
      PROVE  FlowInv'
  <2>1. PICK h \in Hosts, s \in Secrets :
            flow' = [flow EXCEPT ![f] =
                [step |-> "identify", kind |-> "reconfigure", id |-> i,
                 data |-> [host |-> h, secret |-> s], found |-> Nobody]]
    BY <1>9 DEF SubmitReconfigure
  <2>2. [step |-> "identify", kind |-> "reconfigure", id |-> i,
         data |-> [host |-> h, secret |-> s], found |-> Nobody] \in Forms
    BY DEF Forms, Typed
  <2> QED BY <1>6, <1>9, <2>1, <2>2 DEF SubmitReconfigure
<1>10. ASSUME NEW f \in Flows, Identify(f) PROVE FlowInv'
  <2> DEFINE d == flow[f].data
  <2>1. /\ flow[f] \in Forms /\ d.host \in Hosts /\ d.secret \in Secrets
        /\ UNCHANGED <<world, entries, running, changes>>
    BY <1>0, <1>10 DEF Identify, TypeOK, Forms, Typed
  <2>2. CASE /\ Takes(d.host, d.secret)
             /\ flow' = [flow EXCEPT ![f].step = "discover",
                                     ![f].found = home[d.host]]
             /\ proven' = proven \cup {<<home[d.host], d.host, d.secret>>}
    <3>1. home[d.host] \in Terminals
      BY <1>0, <2>1, <2>2 DEF Takes, TypeOK
    <3>2. /\ flow'[f] \in Forms
          /\ flow'[f].step = "discover" /\ flow'[f].found = home[d.host]
          /\ flow'[f].data = d
          /\ flow'[f].id = flow[f].id /\ flow'[f].kind = flow[f].kind
          /\ \A g \in Flows \ {f} : flow'[g] = flow[g]
      BY <1>0, <2>1, <2>2, <3>1 DEF TypeOK, Forms
    <3>3. flow' \in [Flows -> Forms \cup {NoForm}]
      BY <1>0, <2>2, <3>2 DEF TypeOK
    <3>4. TypeOK'
      <4>1. /\ flow'[f].found # Nobody
            /\ flow'[f].id = Nobody <=> flow'[f].kind = "user"
        BY <1>0, <1>10, <3>1, <3>2 DEF TypeOK, Identify
      <4>2. \A g \in Flows : flow'[g] # NoForm =>
              /\ flow'[g].found = Nobody <=> flow'[g].step = "identify"
              /\ flow'[g].id = Nobody <=> flow'[g].kind = "user"
        BY <1>0, <3>2, <4>1 DEF TypeOK
      <4>3. proven' \subseteq Terminals \X Hosts \X Secrets
        BY <1>0, <2>1, <2>2, <3>1 DEF TypeOK
      <4> QED BY <1>0, <2>1, <3>3, <4>2, <4>3 DEF TypeOK, world
    <3>5. FoundProven'
      <4>1. <<flow'[f].found, flow'[f].data.host, flow'[f].data.secret>>
                \in proven'
        BY <2>2, <3>2
      <4>2. ASSUME NEW g \in Flows \ {f}, flow'[g] # NoForm,
                   flow'[g].step = "discover"
            PROVE  <<flow'[g].found, flow'[g].data.host, flow'[g].data.secret>>
                      \in proven'
        <5>1. flow'[g] = flow[g]
          BY <3>2
        <5>2. <<flow[g].found, flow[g].data.host, flow[g].data.secret>>
                  \in proven
          BY <1>0, <4>2, <5>1 DEF FoundProven
        <5> QED BY <2>2, <5>1, <5>2
      <4> QED BY <4>1, <4>2 DEF FoundProven
    <3>6. OneEntryPerTerminal'
      BY <1>0, <2>1 DEF OneEntryPerTerminal, EntryOf, Exists
    <3>7. Proven'
      BY <1>0, <2>1, <2>2 DEF Proven, Exists
    <3> QED BY <3>4, <3>5, <3>6, <3>7 DEF FlowInv
  <2>3. CASE Close(f) /\ UNCHANGED proven
    <3>1. TypeOK' /\ FoundProven'
      BY <1>0, <2>1, <2>3, CloseKeeps DEF TypeOK, FoundProven, world
    <3> QED BY <1>1, <2>1, <2>3, <3>1 DEF FlowInv
  <2> QED BY <1>10, <2>2, <2>3 DEF Identify
<1>11. ASSUME NEW f \in Flows, Finish(f) PROVE FlowInv'
  <2>1. /\ flow[f] # NoForm /\ flow[f].step = "discover"
        /\ Close(f) /\ UNCHANGED <<world, proven, changes>>
    BY <1>11 DEF Finish
  <2>2. /\ entries' \in [Entries -> Data \cup {NoEntry}]
        /\ running' \in [Entries -> Data \cup {NoEntry}]
        /\ OneEntryPerTerminal' /\ Proven'
    <3>1. CASE UNCHANGED <<entries, running>>
      BY <1>0, <1>1, <2>1, <3>1 DEF TypeOK
    <3> QED
      BY <1>11, <2>1, <3>1, FinishUserKeeps, FinishKnownKeeps DEF Finish
  <2>3. TypeOK' /\ FoundProven'
    BY <1>0, <2>1, <2>2, CloseKeeps DEF TypeOK, FoundProven, world
  <2> QED BY <2>2, <2>3 DEF FlowInv
<1>12. CASE UNCHANGED vars
  <2>1. TypeOK' /\ FoundProven'
    BY <1>0, <1>12 DEF vars, world, TypeOK, FoundProven
  <2> QED BY <1>1, <1>12, <2>1 DEF vars, FlowInv
<1> QED
  BY <1>2, <1>3, <1>4, <1>5, <1>7, <1>8, <1>9, <1>10, <1>11, <1>12
  DEF Next, Form

LEMMA Invariance == Spec => []FlowInv
BY InitInv, InvStep, PTL DEF Spec

\* The forms, the entries and the probes keep their shape.
THEOREM TypeCorrect == Spec => []TypeOK
<1>1. FlowInv => TypeOK
  BY DEF FlowInv
<1> QED BY <1>1, Invariance, PTL

\* config_flow.py:130: the unique id is looked up after the last await, so
\* that no two racing forms make two entries of one terminal.
THEOREM OneEntry == Spec => []OneEntryPerTerminal
<1>1. FlowInv => OneEntryPerTerminal
  BY DEF FlowInv
<1> QED BY <1>1, Invariance, PTL

\* config_flow.py:192, 234: what is written to an entry has been probed at
\* the entry's own terminal.
THEOREM EntriesProven == Spec => []Proven
<1>1. FlowInv => Proven
  BY DEF FlowInv
<1> QED BY <1>1, Invariance, PTL

-----------------------------------------------------------------------------
(* The card: pages of rows.                                                *)

\* What comes before e in the order of the query.
Above(S, e) == {f \in S : f > e}

\* The events and every set of them are finite sets of positive numbers.
LEMMA EventsFinite ==
    /\ IsFiniteSet(Events) /\ Events \subseteq Nat \ {0}
    /\ \A S : S \subseteq Events => IsFiniteSet(S) /\ Cardinality(S) \in Nat
<1>1. IsFiniteSet(Events)
  BY StoresAssumption, FS_UNION DEF Events
<1>2. Events \subseteq Nat \ {0}
  BY StoresAssumption DEF Events
<1> QED BY <1>1, <1>2, FS_Subset, FS_CardinalityType

\* A set of numbers that is not empty has a least one.
LEMMA LeastOf ==
    ASSUME NEW S, S \subseteq Nat, S # {}
    PROVE  \E m \in S : \A x \in S : m <= x
<1> DEFINE R == OpToRel(<, Nat)
<1>1. PICK m \in S : \A x \in S : ~ (<<x, m>> \in R)
  <2> HIDE DEF R
  <2>1. IsWellFoundedOn(R, Nat)
    BY NatLessThanWellFounded DEF R
  <2> QED BY <2>1, WFMin
<1>2. \A x \in S : ~ (x < m)
  BY <1>1 DEF OpToRel
<1> QED BY <1>2

\* What lies above an event can be counted.
LEMMA AboveSubset ==
    ASSUME NEW S, S \subseteq Events, NEW e
    PROVE  /\ Above(S, e) \subseteq Events
           /\ IsFiniteSet(Above(S, e)) /\ Cardinality(Above(S, e)) \in Nat
BY EventsFinite DEF Above

\* More rows leave an event at least as deep as it was.
LEMMA AboveGrows ==
    ASSUME NEW S, NEW T, T \subseteq Events, S \subseteq T, NEW e
    PROVE  Cardinality(Above(S, e)) <= Cardinality(Above(T, e))
<1>1. Above(S, e) \subseteq Above(T, e)
  BY DEF Above
<1> QED BY <1>1, AboveSubset, FS_Subset

\* LIMIT: a page has no more rows than it may.
LEMMA NewestFew ==
    ASSUME NEW S, S \subseteq Events
    PROVE  Cardinality(Newest(S)) <= Limit
<1> DEFINE N == Newest(S)
<1>1. N \subseteq S /\ N \subseteq Events /\ N \subseteq Nat
  BY EventsFinite DEF Newest
<1>2. IsFiniteSet(N) /\ Cardinality(N) \in Nat
  BY <1>1, EventsFinite
<1>3. SUFFICES ASSUME Cardinality(N) > Limit PROVE FALSE
  BY <1>2, BoundsAssumption
<1>4. N # {}
  BY <1>3, BoundsAssumption, FS_EmptySet
<1>5. PICK m \in N : \A x \in N : m <= x
  BY <1>1, <1>4, LeastOf
<1>6. Cardinality(Above(S, m)) < Limit
  BY DEF Newest, Above
<1>7. N \ {m} \subseteq Above(S, m)
  BY <1>1, <1>5 DEF Above
<1>8. Cardinality(N \ {m}) = Cardinality(N) - 1
  BY <1>2, <1>5, FS_RemoveElement
<1>9. Cardinality(N \ {m}) <= Cardinality(Above(S, m))
  BY <1>7, AboveSubset, FS_Subset
<1>10. Cardinality(Above(S, m)) \in Nat
  BY AboveSubset
<1> HIDE DEF N
<1> QED BY <1>2, <1>3, <1>6, <1>8, <1>9, <1>10, BoundsAssumption

\* An event that a page of S has no room for has a full page above it, in
\* the page itself.
LEMMA NewestFull ==
    ASSUME NEW S, S \subseteq Events, NEW e \in Events,
           Cardinality(Above(S, e)) >= Limit
    PROVE  Cardinality(Above(Newest(S), e)) >= Limit
<1> DEFINE U == Above(S, e)
           V == Above(Newest(S), e)
           Rank(x) == Cardinality(Above(S, x))
           W == {Rank(x) : x \in U \ V}
<1>1. V \subseteq U /\ U \subseteq S /\ U \subseteq Nat /\ e \in Nat
  BY EventsFinite DEF Newest, Above
<1>2. /\ IsFiniteSet(U) /\ Cardinality(U) \in Nat
      /\ IsFiniteSet(V) /\ Cardinality(V) \in Nat
  BY <1>1, EventsFinite
<1>3. SUFFICES ASSUME Cardinality(V) < Limit PROVE FALSE
  BY <1>2, BoundsAssumption
<1>4. U \ V # {}
  <2>1. CASE U = V
    BY <1>2, <1>3, <2>1, BoundsAssumption
  <2> QED BY <1>1, <2>1
<1>5. W \subseteq Nat /\ W # {}
  <2>1. \A x : Rank(x) \in Nat
    BY AboveSubset
  <2> HIDE DEF Rank
  <2> QED BY <1>4, <2>1
<1>6. PICK r \in W : \A w \in W : r <= w
  <2> HIDE DEF W
  <2> QED BY <1>5, LeastOf
<1>7. PICK x \in U \ V : r = Rank(x)
  BY <1>6
<1>8. \A y \in U \ V : Rank(x) <= Rank(y)
  BY <1>6, <1>7
<1>9. x \in S /\ x > e /\ x \in Nat
  BY <1>1 DEF Above
<1>10. ~ (Rank(x) < Limit)
  <2>1. x \notin Newest(S)
    BY <1>9 DEF Above
  <2> QED BY <1>9, <2>1 DEF Newest, Above
<1>11. Above(S, x) \subseteq V
  <2> SUFFICES ASSUME NEW y \in Above(S, x), y \notin V PROVE FALSE
    OBVIOUS
  <2>1. y \in S /\ y > x /\ y \in Nat
    BY EventsFinite DEF Above
  <2>2. y \in U \ V
    BY <1>1, <1>9, <2>1 DEF Above
  <2>3. /\ Above(S, y) \subseteq Above(S, x) /\ y \notin Above(S, y)
        /\ y \in Above(S, x)
    <3>1. ASSUME NEW z \in S, z > y PROVE z > x
      <4>1. z \in Events
        BY <3>1
      <4>2. z \in Nat
        BY <4>1, EventsFinite
      <4> QED BY <1>9, <2>1, <3>1, <4>2
    <3>2. Above(S, y) \subseteq Above(S, x)
      BY <3>1 DEF Above
    <3>3. ~ (y > y)
      BY <2>1
    <3> QED BY <2>1, <3>2, <3>3 DEF Above
  <2>4. Rank(y) <= Rank(x)
    BY <2>3, AboveSubset, FS_Subset
  <2>5. Rank(y) # Rank(x)
    BY <2>3, AboveSubset, FS_Subset
  <2>6. Rank(x) \in Nat /\ Rank(y) \in Nat
    BY AboveSubset
  <2>7. Rank(x) <= Rank(y)
    BY <1>8, <2>2
  <2> HIDE DEF Rank
  <2> QED BY <2>4, <2>5, <2>6, <2>7
<1>12. Rank(x) <= Cardinality(V)
  BY <1>2, <1>11, FS_Subset
<1>13. Rank(x) \in Nat
  BY AboveSubset
<1> HIDE DEF Rank, V
<1> QED BY <1>2, <1>3, <1>10, <1>12, <1>13, BoundsAssumption

\* The page of some rows and its cursor: the cursor is the last row, and a
\* row that is at or above it, or above which the rows fill a page, is shown.
LEMMA PageOf ==
    ASSUME NEW S, S \subseteq Events
    PROVE  /\ Newest(S) \subseteq S
           /\ NextCursor(Newest(S)) # NoCursor =>
                /\ NextCursor(Newest(S)) \in Newest(S)
                /\ \A x \in Newest(S) : NextCursor(Newest(S)) <= x
           /\ \A e \in Events :
                /\ \/ e \in S \/ Cardinality(Above(S, e)) >= Limit
                /\ NextCursor(Newest(S)) # NoCursor =>
                        NextCursor(Newest(S)) <= e
                => e \in Newest(S)
<1> DEFINE N == Newest(S)
           m == NextCursor(N)
<1>1. N \subseteq S /\ N \subseteq Events /\ N \subseteq Nat
  BY EventsFinite DEF Newest
<1>2. IsFiniteSet(N) /\ Cardinality(N) \in Nat /\ Cardinality(N) <= Limit
  BY <1>1, EventsFinite, NewestFew
<1>3. ASSUME Cardinality(N) = Limit
      PROVE  m \in N /\ \A x \in N : m <= x
  <2>1. N # {}
    BY <1>3, BoundsAssumption, FS_EmptySet
  <2>2. \E y \in N : \A x \in N : y <= x
    BY <1>1, <2>1, LeastOf
  <2> HIDE DEF N
  <2> QED BY <1>3, <2>2 DEF NextCursor
<1>4. m # NoCursor => Cardinality(N) = Limit
  BY DEF NextCursor
<1>5. ASSUME NEW e \in Events, e \in S \/ Cardinality(Above(S, e)) >= Limit,
             m # NoCursor => m <= e, e \notin N
      PROVE  FALSE
  <2>1. e \in Nat
    BY EventsFinite
  <2>2. Cardinality(Above(S, e)) \in Nat
    BY AboveSubset
  <2>3. Cardinality(Above(S, e)) >= Limit
    <3>1. CASE e \in S
      <4>1. ~ (Cardinality(Above(S, e)) < Limit)
        BY <1>5, <3>1 DEF Newest, Above
      <4> QED BY <2>2, <4>1, BoundsAssumption
    <3> QED BY <1>5, <3>1
  <2>4. Cardinality(Above(N, e)) >= Limit
    BY <2>3, NewestFull
  <2>5. Above(N, e) \subseteq N
    BY DEF Above
  <2>6. /\ Cardinality(Above(N, e)) \in Nat
        /\ Cardinality(Above(N, e)) <= Cardinality(N)
    BY <1>1, <1>2, <2>5, AboveSubset, FS_Subset
  <2>7. /\ Cardinality(N) = Limit
        /\ Cardinality(Above(N, e)) = Cardinality(N)
    <3> HIDE DEF N
    <3> QED BY <1>2, <2>4, <2>6, BoundsAssumption
  <2>8. Above(N, e) = N
    BY <1>2, <2>5, <2>7, FS_Subset
  <2>9. m \in N /\ m > e /\ m \in Nat /\ m # 0
    <3>1. m \in N
      BY <1>3, <2>7
    <3> HIDE DEF m
    <3>2. m \in Above(N, e)
      BY <2>8, <3>1
    <3> QED BY <1>1, <3>1, <3>2, EventsFinite DEF Above
  <2> HIDE DEF m, N
  <2> QED BY <1>5, <2>1, <2>9 DEF NoCursor
<1> QED BY <1>1, <1>3, <1>4, <1>5

-----------------------------------------------------------------------------
(* The card: what its requests know, and its types.                        *)

\* A request that may still be answered.
Answering(q) == request[q].kind \in {"reload", "more"}

\* A promise is about rows that are in the tables.
SnapsStored == \A q \in Slots : request[q].snap \subseteq rows

\* Everything a request has is below the cursor it was sent with.
GotOlder ==
    \A q \in Slots : Answering(q) =>
        \A e \in request[q].got : Older(e, request[q].before)

\* An event promised to a request is in a store it has yet to query, among
\* what it has, or so deep that what it has fills a page above it: whatever
\* the merge cuts away, the page does without.
GotNewest ==
    \A q \in Slots : Answering(q) =>
        \A e \in request[q].snap :
            Matches(e, request[q].filter) /\ Older(e, request[q].before) =>
                \/ \E s \in request[q].todo : e \in s
                \/ e \in request[q].got
                \/ Cardinality(Above(request[q].got, e)) >= Limit

\* The list ends at the cursor, but for what the subscription put there.
ListReached == whole => \A e \in list : e \in live \/ Reached(e)

\* The type of a request, as TimelineTypeOK spells it.
Requests ==
    [kind : {"none", "reload", "more", "broken"}, filter : Filters,
     before : Events \cup {NoCursor}, todo : SUBSET Stores,
     got : SUBSET Events, snap : SUBSET Events]

\* A query answers with events.
LEMMA SelectedStored ==
    ASSUME NEW s, NEW r, rows \subseteq Events
    PROVE  Selected(s, r) \subseteq Events
BY DEF Selected, Newest

\* A request is sent to stores.
LEMMA TargetsStores ==
    ASSUME loaded \subseteq Stores
    PROVE  Targets \subseteq Stores
BY DEF Targets

\* Dropping promises changes the promises and breaks requests, no more.
LEMMA ForgetTypes ==
    ASSUME TimelineTypeOK, SnapsStored, NEW gone, NEW closed,
           Forget(gone, closed)
    PROVE  /\ request' \in [Slots -> Requests]
           /\ \A q \in Slots :
                /\ request'[q].snap = request[q].snap \ gone
                /\ request'[q].kind \in {request[q].kind, "broken"}
                /\ request'[q].filter = request[q].filter
                /\ request'[q].before = request[q].before
                /\ request'[q].todo = request[q].todo
                /\ request'[q].got = request[q].got
           /\ base' = base \ gone
<1>1. request \in [Slots -> Requests]
  BY DEF TimelineTypeOK, Requests
<1>2. ASSUME NEW q \in Slots
      PROVE  /\ request'[q] \in Requests
             /\ request'[q].snap = request[q].snap \ gone
             /\ request'[q].kind \in {request[q].kind, "broken"}
             /\ request'[q].filter = request[q].filter
             /\ request'[q].before = request[q].before
             /\ request'[q].todo = request[q].todo
             /\ request'[q].got = request[q].got
  <2>1. request[q] \in Requests
    BY <1>1
  <2>2. request'[q] = [request[q] EXCEPT
               !.kind = IF request[q].todo \cap closed = {} THEN @
                        ELSE "broken",
               !.snap = @ \ gone]
    BY DEF Forget
  <2> QED BY <2>1, <2>2 DEF Requests
<1>3. request' = [q \in Slots |-> request'[q]]
  BY DEF Forget
<1> QED BY <1>2, <1>3 DEF Forget

\* The type invariant with the fact that makes it inductive.
TypeInv == TimelineTypeOK /\ SnapsStored

\* What a response shows, and its cursor, are events.
LEMMA PagesKnown ==
    ASSUME TimelineTypeOK, NEW q \in Slots
    PROVE  /\ Page(request[q]) \subseteq Events
           /\ Page(request[q]) \subseteq request[q].got
           /\ NextCursor(Page(request[q])) \in Events \cup {NoCursor}
<1>1. request[q].got \subseteq Events
  BY DEF TimelineTypeOK
<1> QED BY <1>1, PageOf DEF Page

\* One request changes, and the card with it.
LEMMA RequestTypes ==
    ASSUME TypeInv, NEW q \in Slots, NEW r \in Requests,
           request' = [request EXCEPT ![q] = r], r.snap \subseteq rows,
           r.kind = "reload" => r.before = NoCursor,
           r.kind = "more" => r.before # NoCursor,
           UNCHANGED <<rows, unsent, loaded, losses>>,
           filter' \in Filters, listFilter' \in Filters,
           list' \subseteq Events, twice' \subseteq list',
           live' \subseteq list',
           cursor' \in Events \cup {NoCursor}, base' \subseteq rows,
           loading' \in BOOLEAN, whole' \in BOOLEAN
    PROVE  TypeInv'
<1>0. TimelineTypeOK /\ SnapsStored /\ request \in [Slots -> Requests]
  BY DEF TypeInv, TimelineTypeOK, Requests
<1>1. request' \in [Slots -> Requests]
  BY <1>0
<1>2. \A p \in Slots : request'[p] = IF p = q THEN r ELSE request[p]
  BY <1>0
<1>3. SnapsStored'
  BY <1>0, <1>2 DEF SnapsStored
<1>4. \A p \in Slots :
        /\ request'[p].kind = "reload" => request'[p].before = NoCursor
        /\ request'[p].kind = "more" => request'[p].before # NoCursor
  BY <1>0, <1>2 DEF TimelineTypeOK
<1> QED BY <1>0, <1>1, <1>3, <1>4 DEF TypeInv, TimelineTypeOK, Requests

\* A request is sent.
LEMMA AskTypes ==
    ASSUME TypeInv, NEW q \in Slots, NEW k \in {"reload", "more"},
           NEW f \in Filters, NEW b \in Events \cup {NoCursor},
           k = "reload" <=> b = NoCursor, filter' \in Filters,
           Ask(q, k, f, b)
    PROVE  TypeInv'
<1> DEFINE r == [kind |-> k, filter |-> f, before |-> b, todo |-> Targets,
                 got |-> {}, snap |-> rows \cap UNION Targets]
<1>0. TimelineTypeOK
  BY DEF TypeInv
<1>1. r \in Requests
  <2>1. Targets \subseteq Stores /\ rows \cap UNION Targets \subseteq Events
    BY <1>0, TargetsStores DEF TimelineTypeOK
  <2> QED BY <2>1 DEF Requests
<1>2. /\ r.snap \subseteq rows
      /\ r.kind = "reload" => r.before = NoCursor
      /\ r.kind = "more" => r.before # NoCursor
  OBVIOUS
<1>3. request' = [request EXCEPT ![q] = r]
  BY DEF Ask
<1>4. /\ loading' = TRUE
      /\ UNCHANGED <<rows, unsent, loaded, losses>>
      /\ UNCHANGED <<list, twice, cursor, base, listFilter, whole, live>>
  BY DEF Ask, tables, runtimes, history
<1>5. /\ listFilter' \in Filters /\ list' \subseteq Events
      /\ twice' \subseteq list' /\ live' \subseteq list'
      /\ cursor' \in Events \cup {NoCursor} /\ base' \subseteq rows
      /\ loading' \in BOOLEAN /\ whole' \in BOOLEAN
  BY <1>0, <1>4 DEF TimelineTypeOK
<1> HIDE DEF r
<1>6. TypeInv
  OBVIOUS
<1>7. filter' \in Filters
  OBVIOUS
<1> QED BY RequestTypes, <1>1, <1>2, <1>3, <1>4, <1>5, <1>6, <1>7

\* Every step keeps the types.
LEMMA TimelineTypeStep == TypeInv /\ [TimelineNext]_timelineVars => TypeInv'
<1> SUFFICES ASSUME TypeInv, [TimelineNext]_timelineVars PROVE TypeInv'
  OBVIOUS
<1>0. TimelineTypeOK /\ SnapsStored
  BY DEF TypeInv
<1>a. request \in [Slots -> Requests]
  BY <1>0 DEF TimelineTypeOK, Requests
<1> USE StoresAssumption, BoundsAssumption
        DEF tables, runtimes, card, history
<1>1. ASSUME NEW e \in Events, Insert(e) PROVE TypeInv'
  BY <1>0, <1>1 DEF Insert, TypeInv, TimelineTypeOK, SnapsStored
<1>2. ASSUME NEW e \in Events, Purge(e) PROVE TypeInv'
  <2>1. /\ Forget({e}, {}) /\ rows' = rows \ {e}
        /\ losses < MaxLosses /\ losses' = losses + 1
        /\ UNCHANGED <<unsent, loaded, card, listFilter, whole, live>>
    BY <1>2 DEF Purge
  <2>2. losses' \in 0..MaxLosses
    BY <1>0, <2>1 DEF TimelineTypeOK
  <2>3. SnapsStored'
    BY <1>0, <2>1, ForgetTypes DEF SnapsStored
  <2>4. \A q \in Slots :
          /\ request'[q].kind = "reload" => request'[q].before = NoCursor
          /\ request'[q].kind = "more" => request'[q].before # NoCursor
    BY <1>0, <2>1, ForgetTypes DEF TimelineTypeOK
  <2>5. request' \in [Slots -> Requests] /\ base' \subseteq rows'
    BY <1>0, <2>1, ForgetTypes DEF TimelineTypeOK
  <2> QED BY <1>0, <2>1, <2>2, <2>3, <2>4, <2>5
          DEF TypeInv, TimelineTypeOK, Requests
<1>3. ASSUME NEW e \in Events, OnLive(e) PROVE TypeInv'
  BY <1>0, <1>3 DEF OnLive, TypeInv, TimelineTypeOK, SnapsStored
<1>4. ASSUME NEW s \in Stores, Unload(s) PROVE TypeInv'
  <2>1. /\ Forget(s, {s}) /\ loaded' = loaded \ {s}
        /\ losses < MaxLosses /\ losses' = losses + 1
        /\ UNCHANGED <<tables, card, listFilter, whole, live>>
    BY <1>4 DEF Unload
  <2>2. losses' \in 0..MaxLosses
    BY <1>0, <2>1 DEF TimelineTypeOK
  <2>3. SnapsStored'
    BY <1>0, <2>1, ForgetTypes DEF SnapsStored
  <2>4. \A q \in Slots :
          /\ request'[q].kind = "reload" => request'[q].before = NoCursor
          /\ request'[q].kind = "more" => request'[q].before # NoCursor
    BY <1>0, <2>1, ForgetTypes DEF TimelineTypeOK
  <2>5. request' \in [Slots -> Requests] /\ base' \subseteq rows'
    BY <1>0, <2>1, ForgetTypes DEF TimelineTypeOK
  <2> QED BY <1>0, <2>1, <2>2, <2>3, <2>4, <2>5
          DEF TypeInv, TimelineTypeOK, Requests
<1>5. ASSUME NEW s \in Stores, Load(s) PROVE TypeInv'
  BY <1>0, <1>5 DEF Load, TypeInv, TimelineTypeOK, SnapsStored
<1>8. ASSUME NEW q \in Slots, NEW f \in Filters, Reload(q, f) PROVE TypeInv'
  BY AskTypes, <1>8 DEF Reload
<1>9. ASSUME NEW q \in Slots, LoadMore(q) PROVE TypeInv'
  <2>1. filter \in Filters /\ cursor \in Events \cup {NoCursor}
    BY <1>0 DEF TimelineTypeOK
  <2>2. Ask(q, "more", filter, cursor) /\ cursor # NoCursor /\ filter' = filter
    BY <1>9 DEF LoadMore
  <2> QED BY AskTypes, <2>1, <2>2
<1>10. ASSUME NEW q \in Slots, NEW s \in Stores, Query(q, s) PROVE TypeInv'
  <2> DEFINE r == [request[q] EXCEPT !.todo = @ \ {s},
                                     !.got = @ \cup Selected(s, request[q])]
  <2>1. request[q] \in Requests /\ rows \subseteq Events
    BY <1>0, <1>a DEF TimelineTypeOK
  <2>2. /\ r \in Requests /\ r.snap = request[q].snap
        /\ r.kind = request[q].kind /\ r.before = request[q].before
    BY <2>1, SelectedStored DEF Requests
  <2>3. request' = [request EXCEPT ![q] = r]
    BY <1>10, <1>a DEF Query
  <2>4. UNCHANGED <<tables, runtimes, card, history>>
    BY <1>10 DEF Query
  <2>5. /\ list' \subseteq Events /\ twice' \subseteq list'
        /\ live' \subseteq list' /\ cursor' \in Events \cup {NoCursor}
        /\ base' \subseteq rows /\ whole' \in BOOLEAN
        /\ listFilter' \in Filters /\ filter' \in Filters
        /\ loading' \in BOOLEAN
        /\ UNCHANGED <<rows, unsent, loaded, losses>>
    BY <1>0, <2>4 DEF TimelineTypeOK
  <2>6. /\ r.snap \subseteq rows
        /\ r.kind = "reload" => r.before = NoCursor
        /\ r.kind = "more" => r.before # NoCursor
    BY <1>0, <2>2 DEF TimelineTypeOK, SnapsStored
  <2> HIDE DEF r
  <2> QED BY RequestTypes, <2>2, <2>3, <2>5, <2>6
<1>b. Idle \in Requests /\ Idle.snap = {} /\ Idle.kind = "none"
  BY DEF Idle, Requests, Filters
<1>11. ASSUME NEW q \in Slots, Respond(q) PROVE TypeInv'
  <2> DEFINE page == Page(request[q])
  <2>1. /\ page \subseteq Events
        /\ NextCursor(page) \in Events \cup {NoCursor}
    BY <1>0, PagesKnown
  <2>2. /\ request' = [request EXCEPT ![q] = Idle]
        /\ cursor' \in Events \cup {NoCursor} /\ loading' \in BOOLEAN
        /\ UNCHANGED <<tables, runtimes, filter>>
    BY <1>11, <2>1 DEF Respond
  <2>3. request[q].filter \in Filters /\ request[q].snap \subseteq rows
    BY <1>0 DEF TimelineTypeOK, SnapsStored
  <2>4. /\ list' \subseteq Events /\ twice' \subseteq list'
        /\ live' \subseteq list'
        /\ base' \subseteq rows /\ listFilter' \in Filters /\ whole' \in BOOLEAN
    <3>1. CASE request[q].kind = "reload"
      BY <1>11, <2>1, <2>3, <3>1 DEF Respond
    <3>2. CASE request[q].kind = "more"
      BY <1>0, <1>11, <2>1, <2>3, <3>2 DEF Respond, TimelineTypeOK
    <3> QED BY <1>11, <3>1, <3>2 DEF Respond
  <2> HIDE DEF page
  <2> QED BY <1>0, RequestTypes, <1>b, <2>2, <2>4 DEF TimelineTypeOK
<1>12. ASSUME NEW q \in Slots, Fail(q) PROVE TypeInv'
  BY <1>0, RequestTypes, <1>b, <1>12 DEF Fail, TimelineTypeOK
<1>13. CASE UNCHANGED timelineVars
  BY <1>0, <1>13 DEF timelineVars, TypeInv, TimelineTypeOK, SnapsStored
<1> QED
  BY <1>1, <1>2, <1>3, <1>4, <1>5, <1>8, <1>9, <1>10, <1>11, <1>12, <1>13
     DEF TimelineNext

-----------------------------------------------------------------------------
(* The card: the pages that its requests gather.                           *)

\* What a request has so far survives that promises are dropped.
LEMMA ForgetPages ==
    ASSUME TypeInv, GotOlder, GotNewest, NEW gone, NEW closed,
           Forget(gone, closed)
    PROVE  GotOlder' /\ GotNewest'
<1>1. TimelineTypeOK /\ SnapsStored
  BY DEF TypeInv
<1>2. ASSUME NEW q \in Slots, Answering(q)'
      PROVE  /\ Answering(q)
             /\ request'[q].filter = request[q].filter
             /\ request'[q].before = request[q].before
             /\ request'[q].todo = request[q].todo
             /\ request'[q].got = request[q].got
             /\ request'[q].snap \subseteq request[q].snap
  BY <1>1, <1>2, ForgetTypes DEF Answering
<1>3. GotOlder'
  BY <1>2 DEF GotOlder, Older
<1>4. GotNewest'
  BY <1>2 DEF GotNewest, Older, Matches, Above
<1> QED BY <1>3, <1>4

\* The query of one more store.
LEMMA QueryPages ==
    ASSUME TypeInv, GotOlder, GotNewest,
           NEW q \in Slots, NEW s \in Stores, Query(q, s)
    PROVE  GotOlder' /\ GotNewest'
<1> DEFINE r == request[q]
           T == {e \in rows \cap s : Matches(e, r.filter) /\ Older(e, r.before)}
<1>1. /\ request \in [Slots -> Requests] /\ rows \subseteq Events
      /\ r \in Requests /\ r.snap \subseteq rows
  BY DEF TypeInv, TimelineTypeOK, SnapsStored, Requests
<1>2. /\ request'[q].kind = r.kind /\ request'[q].filter = r.filter
      /\ request'[q].before = r.before /\ request'[q].snap = r.snap
      /\ request'[q].todo = r.todo \ {s}
      /\ request'[q].got = r.got \cup Newest(T)
      /\ \A p \in Slots \ {q} : request'[p] = request[p]
  BY <1>1 DEF Query, Requests, Selected
<1>3. T \subseteq Events /\ r.got \subseteq Events /\ Newest(T) \subseteq T
  BY <1>1 DEF Requests, Newest
<1>4. GotOlder'
  <2>1. \A e \in Newest(T) : Older(e, r.before)
    BY <1>3
  <2> HIDE DEF T
  <2> QED BY <1>2, <2>1 DEF GotOlder, Answering, Older
<1>5. GotNewest'
  <2>1. ASSUME Answering(q), NEW e \in r.snap, Matches(e, r.filter),
               Older(e, r.before)
        PROVE  \/ \E t \in request'[q].todo : e \in t
               \/ e \in request'[q].got
               \/ Cardinality(Above(request'[q].got, e)) >= Limit
    <3>0. request'[q].got \subseteq Events /\ e \in Events
      BY <1>1, <1>2, <1>3
    <3>1. CASE \E t \in r.todo : e \in t /\ t # s
      BY <1>2, <3>1
    <3>2. CASE e \in r.got
      BY <1>2, <3>2
    <3>3. CASE Cardinality(Above(r.got, e)) >= Limit
      <4>1. r.got \subseteq request'[q].got
        BY <1>2
      <4>2. /\ Cardinality(Above(r.got, e))
                 <= Cardinality(Above(request'[q].got, e))
            /\ Cardinality(Above(r.got, e)) \in Nat
            /\ Cardinality(Above(request'[q].got, e)) \in Nat
        BY <1>3, <3>0, <4>1, AboveGrows, AboveSubset
      <4> QED BY <3>3, <4>2, BoundsAssumption
    <3>4. CASE e \in s
      <4>1. e \in T
        BY <1>1, <2>1, <3>4
      <4>2. CASE e \in Newest(T)
        BY <1>2, <4>2
      <4>3. CASE e \notin Newest(T)
        <5>1. Cardinality(Above(T, e)) >= Limit
          <6>1. ~ (Cardinality(Above(T, e)) < Limit)
            BY <4>1, <4>3 DEF Newest, Above
          <6>2. Cardinality(Above(T, e)) \in Nat
            BY <1>3, AboveSubset
          <6> QED BY <6>1, <6>2, BoundsAssumption
        <5>2. Cardinality(Above(Newest(T), e)) >= Limit
          BY <1>3, <3>0, <5>1, NewestFull
        <5>3. Newest(T) \subseteq request'[q].got
          BY <1>2
        <5>4. /\ Cardinality(Above(Newest(T), e))
                   <= Cardinality(Above(request'[q].got, e))
              /\ Cardinality(Above(Newest(T), e)) \in Nat
              /\ Cardinality(Above(request'[q].got, e)) \in Nat
          BY <1>3, <3>0, <5>3, AboveGrows, AboveSubset
        <5> QED BY <5>2, <5>4, BoundsAssumption
      <4> QED BY <4>2, <4>3
    <3> QED BY <2>1, <3>1, <3>2, <3>3, <3>4 DEF GotNewest
  <2> HIDE DEF T
  <2> QED BY <1>2, <2>1 DEF GotNewest, Answering, Older, Matches
<1> QED BY <1>4, <1>5

\* Every step keeps what a request knows of its page.
LEMMA PagesStep ==
    ASSUME TypeInv, GotOlder, GotNewest, [TimelineNext]_timelineVars
    PROVE  GotOlder' /\ GotNewest'
<1>a. request \in [Slots -> Requests] /\ loaded \subseteq Stores
  BY DEF TypeInv, TimelineTypeOK, Requests
<1>1. ASSUME UNCHANGED request PROVE GotOlder' /\ GotNewest'
  BY <1>1 DEF GotOlder, GotNewest, Answering, Older, Matches, Above
<1>2. ASSUME NEW e \in Events, Insert(e) \/ OnLive(e)
      PROVE  GotOlder' /\ GotNewest'
  BY <1>1, <1>2 DEF Insert, OnLive
<1>3. ASSUME NEW e \in Events, Purge(e) PROVE GotOlder' /\ GotNewest'
  BY <1>3, ForgetPages DEF Purge
<1>4. ASSUME NEW s \in Stores, Unload(s) PROVE GotOlder' /\ GotNewest'
  BY <1>4, ForgetPages DEF Unload
<1>5. ASSUME NEW s \in Stores, Load(s) PROVE GotOlder' /\ GotNewest'
  BY <1>1, <1>5 DEF Load
<1>6. ASSUME NEW q \in Slots, NEW k, NEW f, NEW b, Ask(q, k, f, b)
      PROVE  GotOlder' /\ GotNewest'
  <2> DEFINE r == [kind |-> k, filter |-> f, before |-> b, todo |-> Targets,
                   got |-> {}, snap |-> rows \cap UNION Targets]
  <2>1. /\ r.got = {} /\ r.todo = Targets /\ r.snap \subseteq UNION Targets
    OBVIOUS
  <2>2. request' = [request EXCEPT ![q] = r]
    BY <1>6 DEF Ask
  <2> HIDE DEF r
  <2>3. request'[q] = r /\ \A p \in Slots \ {q} : request'[p] = request[p]
    BY <1>a, <2>2
  <2>4. GotOlder'
    BY <2>1, <2>3 DEF GotOlder, Answering, Older
  <2>5. \A e \in request'[q].snap : \E s \in request'[q].todo : e \in s
    BY <2>1, <2>3
  <2>6. GotNewest'
    BY <2>3, <2>5 DEF GotNewest, Answering, Older, Matches
  <2> QED BY <2>4, <2>6
<1>7. ASSUME NEW q \in Slots, request' = [request EXCEPT ![q] = Idle]
      PROVE  GotOlder' /\ GotNewest'
  <2>1. ~ Answering(q)' /\ \A p \in Slots \ {q} : request'[p] = request[p]
    BY <1>a, <1>7 DEF Answering, Idle
  <2> QED BY <2>1 DEF GotOlder, GotNewest, Answering, Older, Matches
<1>8. ASSUME NEW q \in Slots, NEW s \in Stores, Query(q, s)
      PROVE  GotOlder' /\ GotNewest'
  BY <1>8, QueryPages
<1>9. ASSUME NEW q \in Slots, LoadMore(q) \/ \E f \in Filters : Reload(q, f)
      PROVE  GotOlder' /\ GotNewest'
  BY <1>6, <1>9 DEF LoadMore, Reload
<1>10. ASSUME NEW q \in Slots, Respond(q) \/ Fail(q)
      PROVE  GotOlder' /\ GotNewest'
  BY <1>7, <1>10 DEF Respond, Fail
<1>11. CASE UNCHANGED timelineVars
  BY <1>1, <1>11 DEF timelineVars
<1> QED
  BY <1>2, <1>3, <1>4, <1>5, <1>8, <1>9, <1>10, <1>11 DEF TimelineNext

\* When every store has answered, the page holds all that was promised to
\* the request, as far down as the cursor it hands out.
LEMMA PageComplete ==
    ASSUME TypeInv, GotNewest, NEW q \in Slots, Answering(q),
           request[q].todo = {},
           NEW e \in request[q].snap, Matches(e, request[q].filter),
           Older(e, request[q].before),
           LET c == NextCursor(Page(request[q])) IN c = NoCursor \/ e >= c
    PROVE  e \in Page(request[q])
<1> DEFINE S == request[q].got
           c == NextCursor(Newest(S))
<1>1. S \subseteq Events /\ e \in Events
  BY DEF TypeInv, TimelineTypeOK, SnapsStored
<1>2. e \in S \/ Cardinality(Above(S, e)) >= Limit
  BY DEF GotNewest
<1>3. c # NoCursor => c <= e
  <2>1. c \in Events \cup {NoCursor}
    BY <1>1, PageOf
  <2> HIDE DEF c
  <2>2. c = NoCursor \/ e >= c
    BY DEF c, Page
  <2>3. e \in Nat /\ (c # NoCursor => c \in Nat)
    BY <1>1, <2>1, EventsFinite
  <2> QED BY <2>2, <2>3
<1> QED BY <1>1, <1>2, <1>3, PageOf DEF Page

-----------------------------------------------------------------------------
(* The card: its list.                                                     *)

\* What the card's list promises.
ListOK == NothingSkipped /\ ListReached /\ OnlyLiveTwice

\* The inductive invariant.
ListInv == TypeInv /\ GotOlder /\ GotNewest /\ ListOK

\* What a page does to the list.
LEMMA RespondKeeps ==
    ASSUME ListInv, NEW q \in Slots, Respond(q)
    PROVE  ListOK'
<1> USE DEF ListOK
<1> DEFINE r == request[q]
           page == Page(request[q])
<1>1. /\ TypeInv /\ GotOlder /\ GotNewest
      /\ NothingSkipped /\ ListReached /\ OnlyLiveTwice
      /\ TimelineTypeOK /\ SnapsStored
  BY DEF ListInv, TypeInv
<1>2. /\ page \subseteq Events /\ page \subseteq r.got /\ r.got \subseteq Events
      /\ r.snap \subseteq Events /\ list \subseteq Events
      /\ cursor \in Events \cup {NoCursor}
  BY <1>1, PagesKnown DEF TimelineTypeOK
<1>3. Answering(q) /\ r.todo = {} /\ cursor' = NextCursor(page)
  BY DEF Respond, Answering
<1>4. \A e \in page : Reached(e)'
  <2>1. /\ cursor' # NoCursor => \A x \in page : cursor' <= x
        /\ cursor' # NoCursor => cursor' \in page
    BY <1>2, <1>3, PageOf DEF Page
  <2>2. /\ page \subseteq Nat /\ (cursor' # NoCursor => cursor' \in Nat)
    BY <1>2, <2>1, EventsFinite
  <2> HIDE DEF page
  <2>3. ASSUME NEW e \in page, cursor' # NoCursor PROVE e >= cursor'
    <3>1. cursor' <= e /\ e \in Nat /\ cursor' \in Nat
      BY <2>1, <2>2, <2>3
    <3> QED BY <3>1
  <2> QED BY <2>3 DEF Reached
<1>5. ASSUME NEW e \in r.snap, Matches(e, r.filter), Older(e, r.before),
             Reached(e)'
      PROVE  e \in page
  <2>1. LET c == NextCursor(Page(request[q])) IN c = NoCursor \/ e >= c
    BY <1>3, <1>5 DEF Reached
  <2> QED BY <1>1, <1>3, <1>5, <2>1, PageComplete
<1>6. CASE r.kind = "reload"
  <2>1. /\ list' = page /\ twice' = {} /\ base' = r.snap
        /\ listFilter' = r.filter /\ live' = {}
    BY <1>6 DEF Respond
  <2>2. \A e : Older(e, r.before)
    BY <1>1, <1>6 DEF TimelineTypeOK, Older
  <2>3. NothingSkipped'
    <3> HIDE DEF page, r
    <3> QED BY <1>5, <2>1, <2>2 DEF NothingSkipped, Matches
  <2> HIDE DEF page, r
  <2> QED BY <1>4, <2>1, <2>3 DEF ListReached, OnlyLiveTwice
<1>7. CASE r.kind = "more" /\ whole'
  <2>1. /\ list' = list \cup page /\ twice' = twice \cup (list \cap page)
        /\ base' = base \cap r.snap
        /\ listFilter' = listFilter /\ live' = live
        /\ whole /\ r.filter = listFilter /\ r.before = cursor
    BY <1>7 DEF Respond
  <2>2. cursor # NoCursor /\ cursor \in Nat
    BY <1>1, <1>2, <1>7, <2>1, EventsFinite DEF TimelineTypeOK
  <2>3. ASSUME NEW e \in Events PROVE e < cursor <=> ~ Reached(e)
    BY <2>2, EventsFinite DEF Reached
  <2>4. ASSUME NEW e \in page PROVE ~ Reached(e)
    <3>1. e \in r.got
      BY <1>2
    <3>2. Older(e, r.before)
      BY <1>1, <1>3, <3>1 DEF GotOlder
    <3>3. e \in Events
      BY <1>2
    <3>4. e < cursor
      BY <2>1, <2>2, <3>2 DEF Older
    <3> QED BY <2>3, <3>3, <3>4
  <2>5. NothingSkipped'
    <3> SUFFICES ASSUME NEW e \in base', Matches(e, listFilter), Reached(e)'
                 PROVE  e \in list'
      BY <2>1 DEF NothingSkipped, Matches
    <3>1. e \in base /\ e \in r.snap /\ e \in Events
      BY <1>2, <2>1
    <3>2. CASE Reached(e)
      BY <1>1, <2>1, <3>1, <3>2 DEF NothingSkipped
    <3>3. CASE ~ Reached(e)
      <4>1. Older(e, r.before)
        BY <2>1, <2>3, <3>1, <3>3 DEF Older
      <4>2. e \in page
        BY <1>5, <2>1, <3>1, <4>1
      <4> QED BY <2>1, <4>2
    <3> QED BY <3>2, <3>3
  <2>6. ListReached'
    <3>1. ASSUME NEW e \in list, Reached(e) PROVE Reached(e)'
      <4>1. CASE cursor' = NoCursor
        BY <4>1 DEF Reached
      <4>2. CASE cursor' # NoCursor
        <5>1. cursor' \in page
          BY <1>2, <1>3, <4>2, PageOf DEF Page
        <5>2. cursor' \in Events /\ e \in Events
          BY <1>2, <5>1
        <5>3. ~ Reached(cursor')
          BY <2>4, <5>1
        <5>4. cursor' < cursor
          BY <2>3, <5>2, <5>3
        <5>5. e >= cursor
          BY <2>2, <3>1 DEF Reached
        <5>6. e \in Nat /\ cursor' \in Nat
          BY <5>2, EventsFinite
        <5>7. e >= cursor'
          BY <2>2, <5>4, <5>5, <5>6
        <5> QED BY <5>7 DEF Reached
      <4> QED BY <4>1, <4>2
    <3>2. ASSUME NEW e \in list' PROVE e \in live' \/ Reached(e)'
      <4>1. CASE e \in page
        BY <1>4, <4>1
      <4>2. CASE e \in list
        BY <1>1, <2>1, <3>1, <4>2 DEF ListReached
      <4> QED BY <2>1, <3>2, <4>1, <4>2
    <3> QED BY <3>2 DEF ListReached
  <2>7. OnlyLiveTwice'
    <3>1. list \cap page \subseteq live
      BY <1>1, <2>1, <2>4 DEF ListReached
    <3>2. twice \subseteq live
      BY <1>1, <2>1 DEF OnlyLiveTwice
    <3> QED BY <2>1, <3>1, <3>2 DEF OnlyLiveTwice
  <2> QED BY <2>5, <2>6, <2>7
<1>8. CASE ~ whole'
  BY <1>8 DEF NothingSkipped, ListReached, OnlyLiveTwice
<1>9. r.kind = "reload" \/ r.kind = "more"
  BY DEF Respond
<1> QED BY <1>6, <1>7, <1>8, <1>9

\* Every step keeps the list.
LEMMA ListStep == ListInv /\ [TimelineNext]_timelineVars => ListInv'
<1> SUFFICES ASSUME ListInv, [TimelineNext]_timelineVars PROVE ListInv'
  OBVIOUS
<1>1. /\ TypeInv /\ GotOlder /\ GotNewest
      /\ NothingSkipped /\ ListReached /\ OnlyLiveTwice
  BY DEF ListInv, ListOK
<1>2. TypeInv' /\ GotOlder' /\ GotNewest'
  BY <1>1, TimelineTypeStep, PagesStep
<1>3. ASSUME base' \subseteq base,
             UNCHANGED <<list, twice, cursor, listFilter, whole, live>>
      PROVE  ListOK'
  BY <1>1, <1>3
     DEF ListOK, NothingSkipped, ListReached, OnlyLiveTwice, Reached, Matches
<1>4. ASSUME NEW e \in Events, Insert(e) PROVE ListOK'
  <2>1. /\ base' \subseteq base
        /\ UNCHANGED <<list, twice, cursor, listFilter, whole, live>>
    BY <1>4 DEF Insert, card, history
  <2> QED BY <1>3, <2>1
<1>5. ASSUME NEW e \in Events, Purge(e) PROVE ListOK'
  <2>1. /\ base' \subseteq base
        /\ UNCHANGED <<list, twice, cursor, listFilter, whole, live>>
    BY <1>5 DEF Purge, Forget, card
  <2> QED BY <1>3, <2>1
<1>6. ASSUME NEW e \in Events, OnLive(e) PROVE ListOK'
  <2>1. /\ UNCHANGED <<twice, cursor, base, listFilter, whole>>
        /\ list \subseteq list' /\ live \subseteq live'
        /\ list' \ list \subseteq live'
    BY <1>6 DEF OnLive
  <2> QED
    BY <1>1, <2>1
    DEF ListOK, NothingSkipped, ListReached, OnlyLiveTwice, Reached, Matches
<1>7. ASSUME NEW s \in Stores, Unload(s) PROVE ListOK'
  <2>1. /\ base' \subseteq base
        /\ UNCHANGED <<list, twice, cursor, listFilter, whole, live>>
    BY <1>7 DEF Unload, Forget, card
  <2> QED BY <1>3, <2>1
<1>8. ASSUME NEW s \in Stores, Load(s) PROVE ListOK'
  <2>1. /\ base' \subseteq base
        /\ UNCHANGED <<list, twice, cursor, listFilter, whole, live>>
    BY <1>8 DEF Load, card, history
  <2> QED BY <1>3, <2>1
<1>9. ASSUME NEW q \in Slots, NEW f \in Filters, Reload(q, f) PROVE ListOK'
  <2>1. /\ base' \subseteq base
        /\ UNCHANGED <<list, twice, cursor, listFilter, whole, live>>
    BY <1>9 DEF Reload, Ask, history
  <2> QED BY <1>3, <2>1
<1>13. ASSUME NEW q \in Slots, LoadMore(q) PROVE ListOK'
  <2>1. /\ base' \subseteq base
        /\ UNCHANGED <<list, twice, cursor, listFilter, whole, live>>
    BY <1>13 DEF LoadMore, Ask, history
  <2> QED BY <1>3, <2>1
<1>14. ASSUME NEW q \in Slots, NEW s \in Stores, Query(q, s) PROVE ListOK'
  <2>1. /\ base' \subseteq base
        /\ UNCHANGED <<list, twice, cursor, listFilter, whole, live>>
    BY <1>14 DEF Query, card, history
  <2> QED BY <1>3, <2>1
<1>15. ASSUME NEW q \in Slots, Fail(q) PROVE ListOK'
  <2>1. /\ base' \subseteq base
        /\ UNCHANGED <<list, twice, cursor, listFilter, whole, live>>
    BY <1>15 DEF Fail, card, history
  <2> QED BY <1>3, <2>1
<1>10. ASSUME NEW q \in Slots, Respond(q) PROVE ListOK'
  BY <1>10, RespondKeeps
<1>11. ASSUME UNCHANGED timelineVars PROVE ListOK'
  BY <1>1, <1>11
     DEF timelineVars, card, history, ListOK, NothingSkipped, ListReached,
         OnlyLiveTwice, Reached, Matches
<1>12. ListOK'
  BY <1>4, <1>5, <1>6, <1>7, <1>8, <1>9, <1>10, <1>11, <1>13, <1>14, <1>15
     DEF TimelineNext
<1> QED BY <1>2, <1>12 DEF ListInv

\* The card starts empty.
LEMMA ListInit == TimelineInit => ListInv
<1> SUFFICES ASSUME TimelineInit PROVE ListInv
  OBVIOUS
<1>1. /\ rows = Old /\ unsent = {} /\ loaded = Stores /\ losses = 0
      /\ filter = "all" /\ loading = FALSE /\ list = {} /\ twice = {}
      /\ cursor = NoCursor /\ request = [q \in Slots |-> Idle]
      /\ base = {} /\ listFilter = "all" /\ whole = TRUE /\ live = {}
  BY DEF TimelineInit
<1>2. Idle \in Requests /\ Idle.snap = {} /\ Idle.kind = "none"
  BY DEF Idle, Requests, Filters
<1>3. TypeInv
  <2>1. \A q \in Slots : request[q] = Idle
    BY <1>1
  <2>2. request \in [Slots -> Requests]
    BY <1>1, <1>2
  <2>3. SnapsStored
    BY <1>2, <2>1 DEF SnapsStored
  <2>4. losses \in 0..MaxLosses /\ filter \in Filters /\ listFilter \in Filters
    BY <1>1, BoundsAssumption DEF Filters
  <2> QED BY <1>1, <1>2, <2>1, <2>2, <2>3, <2>4, StoresAssumption
          DEF TypeInv, TimelineTypeOK, Requests
<1>4. GotOlder /\ GotNewest
  BY <1>1, <1>2 DEF GotOlder, GotNewest, Answering
<1> QED BY <1>1, <1>3, <1>4
        DEF ListInv, ListOK, NothingSkipped, ListReached, OnlyLiveTwice

\* The invariant holds in every behaviour.
LEMMA ListCorrect == TimelineSpec => []ListInv
BY ListInit, ListStep, PTL DEF TimelineSpec

(* The variables of the view and of the card keep their types, for any     *)
(* terminals, page size and number of requests in flight.                  *)
THEOREM TimelineTypeCorrect == TimelineSpec => []TimelineTypeOK
<1>1. ListInv => TimelineTypeOK
  BY DEF ListInv, TypeInv
<1> QED BY <1>1, ListCorrect, PTL

(* The pages that EventsView.get merges under one cursor (http_api.py) skip *)
(* no event that was stored while the list of the card was being built, for *)
(* any number of terminals, events and requests and any page size.         *)
THEOREM PagesSkipNothing == TimelineSpec => []NothingSkipped
<1>1. ListInv => NothingSkipped
  BY DEF ListInv, ListOK
<1> QED BY <1>1, ListCorrect, PTL

(* Two pages of one list share no event: _loadMore appends without a look  *)
(* at the list, and the cursor alone keeps a row from coming twice, unless  *)
(* the subscription had brought it.                                        *)
THEOREM OnlyLiveRepeats == TimelineSpec => []OnlyLiveTwice
<1>1. ListInv => OnlyLiveTwice
  BY DEF ListInv, ListOK
<1> QED BY <1>1, ListCorrect, PTL

(* The cursor of a page that joins its own list is below the one before:   *)
(* "load more" comes to an end after finitely many pages.                  *)
THEOREM LoadMoreEnds == TimelineSpec => CursorDescends
<1> DEFINE Descends ==
        \A q \in Slots :
            (request[q].kind = "more" /\ Respond(q) /\ whole')
                => (cursor' = NoCursor \/ cursor' < cursor)
<1>1. ListInv /\ [TimelineNext]_timelineVars => [Descends]_timelineVars
  <2> SUFFICES ASSUME ListInv, NEW q \in Slots, request[q].kind = "more",
                      Respond(q), whole', cursor' # NoCursor
               PROVE  cursor' < cursor
    OBVIOUS
  <2>1. /\ cursor' = NextCursor(Page(request[q]))
        /\ request[q].before = cursor /\ Answering(q)
    BY DEF Respond, Answering
  <2>2. request[q].got \subseteq Events /\ cursor # NoCursor
    BY <2>1 DEF ListInv, TypeInv, TimelineTypeOK
  <2>3. cursor' \in request[q].got
    BY <2>1, <2>2, PageOf DEF Page
  <2>4. Older(cursor', cursor)
    BY <2>1, <2>3 DEF ListInv, GotOlder
  <2> QED BY <2>2, <2>4 DEF Older
<1>2. ListInv /\ [TimelineNext]_timelineVars => [Descends]_timelineVars
  BY <1>1
<1> HIDE DEF Descends
<1>3. [][Descends]_timelineVars => CursorDescends
  BY PTL DEF Descends, CursorDescends
<1> QED BY <1>2, <1>3, ListCorrect, PTL DEF TimelineSpec

=============================================================================
