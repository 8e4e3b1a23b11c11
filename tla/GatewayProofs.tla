--------------------------- MODULE GatewayProofs ---------------------------
(***************************************************************************)
(* One bus event per access event, and the implementation of EventLog, for *)
(* any events, any subset of the sources and any number of faults.         *)
(***************************************************************************)
EXTENDS Gateway, TLAPS

USE EventsAssumption DEF AllHandlers, Fields, NoEvent

(* What a handler may do to the parts of the state AtMostOnce is about.    *)
Owns == TypeOK /\ OneOwner /\ AtMostOnce

LEMMA OwnsInit == Init => Owns
  BY DEF Init, Owns, TypeOK, OneOwner, AtMostOnce, Announcing

LEMMA TypeStep == TypeOK /\ [Next]_vars => TypeOK'
<1> SUFFICES ASSUME TypeOK, [Next]_vars PROVE TypeOK'
  OBVIOUS
<1> USE DEF TypeOK, rows, surface, handlers, sources, Goto
<1>1. ASSUME NEW h \in Handlers, Return(h), UNCHANGED stored
      PROVE  /\ pc' \in [Handlers -> {"idle", "enrich", "announce", "compare",
                                      "patch", "refresh"}]
             /\ job' \in [Handlers -> stored' \cup {NoEvent}]
             /\ copy' \in [Handlers -> SUBSET Fields]
             /\ patch' \in [Handlers -> SUBSET Fields]
             /\ \A g \in Handlers : pc'[g] = "idle" <=> job'[g] = NoEvent
  BY <1>1 DEF Return
<1>2. ASSUME NEW h \in Handlers, NEW e \in Events, Handle(h, e) PROVE TypeOK'
  <2>1. newest' \in [Handlers -> Events \cup {0}]
    BY <1>2 DEF Handle, Delivers
  <2>2. PICK carried \in SUBSET Carriable(h) :
          \/ /\ e \notin stored
             /\ stored' = stored \cup {e}
             /\ row' = [row EXCEPT ![e] = carried]
             /\ job' = [job EXCEPT ![h] = e]
             /\ copy' = [copy EXCEPT ![h] = carried]
             /\ Goto(h, "enrich")
             /\ UNCHANGED <<patch, dropped>>
          \/ /\ e \in stored
             /\ dropped' \in {dropped, dropped \cup {e}}
             /\ job' = [job EXCEPT ![h] = e]
             /\ copy' = [copy EXCEPT ![h] = carried]
             /\ Goto(h, "compare")
             /\ UNCHANGED <<rows, patch>>
          \/ /\ e \in stored
             /\ UNCHANGED <<rows, handlers, dropped>>
    BY <1>2 DEF Handle
  <2>3. carried \in SUBSET Fields
    BY <2>2 DEF Carriable
  <2>4. UNCHANGED <<bus, surface, faults>> /\ dropped' \in SUBSET stored'
    <3>1. UNCHANGED <<bus, surface, faults>>
      BY <1>2 DEF Handle
    <3>2. dropped' \in {dropped, dropped \cup {e}} /\ e \in stored'
          /\ stored \subseteq stored'
      BY <2>2
    <3> QED BY <3>1, <3>2
  <2>5. CASE stored' = stored \cup {e} /\ e \notin stored
    <3>1. /\ row' = [row EXCEPT ![e] = carried]
          /\ job' = [job EXCEPT ![h] = e]
          /\ copy' = [copy EXCEPT ![h] = carried]
          /\ Goto(h, "enrich")
          /\ UNCHANGED patch
      BY <2>2, <2>5
    <3>2. /\ row' \in [Events -> SUBSET Fields]
          /\ job' \in [Handlers -> stored' \cup {NoEvent}]
          /\ copy' \in [Handlers -> SUBSET Fields]
      BY <2>3, <2>5, <3>1
    <3> QED BY <2>1, <2>4, <2>5, <3>1, <3>2
  <2>6. CASE UNCHANGED rows
    <3>1. pc' \in [Handlers -> {"idle", "enrich", "announce", "compare",
                                "patch", "refresh"}]
          /\ job' \in [Handlers -> stored \cup {NoEvent}]
          /\ copy' \in [Handlers -> SUBSET Fields]
          /\ patch' = patch
          /\ \A g \in Handlers : pc'[g] = "idle" <=> job'[g] = NoEvent
      <4>1. CASE UNCHANGED handlers
        BY <4>1
      <4>2. CASE /\ job' = [job EXCEPT ![h] = e]
                 /\ copy' = [copy EXCEPT ![h] = carried]
                 /\ \E to \in {"enrich", "compare"} : Goto(h, to)
                 /\ UNCHANGED patch
                 /\ e \in stored \cup stored'
        BY <2>3, <2>6, <4>2
      <4> QED
        BY <2>2, <2>6, <4>1, <4>2
    <3> QED
      BY <2>1, <2>4, <2>6, <3>1
  <2> QED
    BY <2>2, <2>5, <2>6
<1>3. ASSUME NEW h \in Handlers, Enrich(h) PROVE TypeOK'
  <2>1. job[h] \in Events
    BY <1>3 DEF Enrich
  <2>2. PICK got \in SUBSET Fields : copy' = [copy EXCEPT ![h] = @ \cup got]
    <3>1. ({"name"} \cup (IF "url" \in copy[h] /\ WantImage(job[h]) THEN {"photo"}
                          ELSE {})) \subseteq Fields
      OBVIOUS
    <3> QED
      BY <1>3, <3>1 DEF Enrich
  <2>3. copy' \in [Handlers -> SUBSET Fields]
    BY <2>2
  <2>4. row' \in [Events -> SUBSET Fields]
    BY <1>3, <2>1, <2>3 DEF Enrich
  <2> QED
    BY <1>3, <2>1, <2>3, <2>4 DEF Enrich
<1>4. ASSUME NEW h \in Handlers, Announce(h) PROVE TypeOK'
  <2>0. job[h] \in stored
    <3>1. pc[h] = "announce"
      BY <1>4 DEF Announce
    <3> QED
      BY <3>1
  <2>1. bus' \in [Events -> Nat]
    <3>1. bus' = [bus EXCEPT ![job[h]] = @ + 1]
      BY <1>4 DEF Announce
    <3>2. job[h] \in Events
      BY <2>0
    <3>5. \A n \in Nat : n + 1 \in Nat
      OBVIOUS
    <3>3. \A e \in Events : bus[e] \in Nat
      OBVIOUS
    <3>4. bus[job[h]] + 1 \in Nat
      BY <3>2, <3>3, <3>5
    <3> QED
      BY <3>1, <3>2, <3>4
  <2>2. lastAccess' \in (stored \cap Decisions) \cup {NoEvent}
        /\ lastFields' \in SUBSET Fields
    BY <1>4, <2>0 DEF Announce
  <2> QED
    BY <1>1, <1>4, <2>1, <2>2 DEF Announce
<1>5. ASSUME NEW h \in Handlers, Compare(h) PROVE TypeOK'
  <2>1. CASE Return(h)
    BY <1>1, <1>5, <2>1 DEF Compare
  <2>2. CASE /\ Goto(h, "patch") /\ UNCHANGED job
             /\ copy' \in [Handlers -> SUBSET Fields]
             /\ patch' \in [Handlers -> SUBSET Fields]
    BY <1>5, <2>2 DEF Compare
  <2>3. UNCHANGED <<rows, bus, surface, sources, faults>>
    BY <1>5 DEF Compare
  <2>4. ASSUME ~Return(h) PROVE TypeOK'
    <3>1. PICK lacking \in SUBSET Fields, got \in SUBSET Fields :
            /\ patch' = [patch EXCEPT ![h] = lacking \cup got]
            /\ copy' = [copy EXCEPT ![h] = @ \cup got]
            /\ Goto(h, "patch")
            /\ UNCHANGED job
      <4>1. ((copy[h] \cap {"url", "name"}) \ row[job[h]]) \in SUBSET Fields
            /\ \A c : (IF c THEN {"photo"} ELSE {}) \in SUBSET Fields
        OBVIOUS
      <4> QED
        BY <1>5, <2>4, <4>1 DEF Compare
    <3>2. copy' \in [Handlers -> SUBSET Fields]
      BY <3>1
    <3>3. patch' \in [Handlers -> SUBSET Fields]
      BY <3>1
    <3> QED
      BY <2>2, <3>1, <3>2, <3>3
  <2> QED
    BY <2>1, <2>4
<1>6. ASSUME NEW h \in Handlers, Patch(h) PROVE TypeOK'
  BY <1>6 DEF Patch
<1>7. ASSUME NEW h \in Handlers, Refresh(h) PROVE TypeOK'
  <2>1. job[h] \in stored
    BY <1>7 DEF Refresh
  <2>2. lastAccess' \in (stored \cap Decisions) \cup {NoEvent}
        /\ lastFields' \in SUBSET Fields
    BY <1>7, <2>1 DEF Refresh
  <2> QED
    BY <1>1, <1>7, <2>2 DEF Refresh
<1>8. ASSUME NEW h \in Handlers, Break(h) PROVE TypeOK'
  BY <1>1, <1>8 DEF Break
<1>9. CASE Restart
  <2>1. lastAccess' \in (stored \cap Decisions) \cup {NoEvent}
        /\ lastFields' \in SUBSET Fields
    BY <1>9 DEF Restart
  <2> QED
    BY <1>9, <2>1 DEF Restart
<1>10. CASE UNCHANGED vars
  BY <1>10 DEF vars
<1> QED
  BY <1>2, <1>3, <1>4, <1>5, <1>6, <1>7, <1>8, <1>9, <1>10 DEF Next, Step

(* Only an INSERT that succeeded leads to Announce: the handler owns an     *)
(* event nobody else owns and nobody announced.                            *)
LEMMA OwnsStep == Owns /\ [Next]_vars => Owns'
<1> SUFFICES ASSUME Owns, [Next]_vars PROVE Owns'
  OBVIOUS
<1>t. TypeOK'
  BY TypeStep DEF Owns
<1> USE DEF Owns, TypeOK, OneOwner, AtMostOnce, Announcing, rows, handlers, Goto
<1>1. ASSUME UNCHANGED bus, stored \subseteq stored',
             \A h \in Handlers :
                Announcing(h)' => Announcing(h) /\ job'[h] = job[h]
      PROVE  Owns'
  BY <1>1, <1>t
<1>2. ASSUME NEW h \in Handlers, Return(h), UNCHANGED <<bus, stored>>
      PROVE  Owns'
  BY <1>1, <1>2 DEF Return
<1>3. ASSUME NEW h \in Handlers, NEW e \in Events, Handle(h, e) PROVE Owns'
  <2>1. pc[h] = "idle" /\ UNCHANGED bus
    BY <1>3 DEF Handle, Delivers
  <2>2. CASE /\ e \notin stored /\ stored' = stored \cup {e}
             /\ job' = [job EXCEPT ![h] = e] /\ Goto(h, "enrich")
    <3>1. bus[e] = 0 /\ \A g \in Handlers : job[g] # e
      BY <2>2
    <3> QED
      BY <1>t, <2>1, <2>2, <3>1
  <2>3. CASE Goto(h, "compare") /\ job' = [job EXCEPT ![h] = e] /\ UNCHANGED stored
    BY <1>1, <2>1, <2>3
  <2>4. CASE UNCHANGED <<rows, handlers>>
    BY <1>1, <2>1, <2>4
  <2> QED
    BY <1>3, <2>2, <2>3, <2>4 DEF Handle
<1>4. ASSUME NEW h \in Handlers, Enrich(h) PROVE Owns'
  BY <1>1, <1>4 DEF Enrich
<1>5. ASSUME NEW h \in Handlers, Announce(h) PROVE Owns'
  <2>1. bus[job[h]] = 0 /\ job[h] \in stored
    BY <1>5 DEF Announce
  <2>2. bus' = [bus EXCEPT ![job[h]] = 1] /\ UNCHANGED stored
    BY <1>5, <2>1 DEF Announce
  <2>3. \A g \in Handlers : Announcing(g)' =>
            /\ g # h /\ Announcing(g) /\ job'[g] = job[g]
            /\ job[g] # job[h]
    BY <1>5 DEF Announce, Return
  <2> QED
    BY <1>t, <2>1, <2>2, <2>3
<1>6. ASSUME NEW h \in Handlers, Compare(h) PROVE Owns'
  <2>1. CASE Return(h)
    BY <1>2, <1>6, <2>1 DEF Compare
  <2>2. CASE Goto(h, "patch") /\ UNCHANGED <<job, bus, stored>>
    BY <1>1, <2>2
  <2> QED
    BY <1>6, <2>1, <2>2 DEF Compare
<1>7. ASSUME NEW h \in Handlers, Patch(h) PROVE Owns'
  BY <1>1, <1>7 DEF Patch
<1>8. ASSUME NEW h \in Handlers, Refresh(h) \/ Break(h) PROVE Owns'
  BY <1>2, <1>8 DEF Refresh, Break
<1>9. CASE Restart
  BY <1>1, <1>9 DEF Restart
<1>10. CASE UNCHANGED vars
  BY <1>1, <1>10 DEF vars
<1> QED
  BY <1>3, <1>4, <1>5, <1>6, <1>7, <1>8, <1>9, <1>10 DEF Next, Step

(* The gateway's state keeps its types.                                     *)
THEOREM TypeCorrect == Spec => []TypeOK
<1>1. Init => TypeOK
  BY OwnsInit DEF Owns
<1> QED
  BY <1>1, TypeStep, PTL DEF Spec

(* One bus event per access event, whichever sources deliver it, in any    *)
(* order, with any number of restarts and broken handlers.                 *)
THEOREM AnnouncedAtMostOnce == Spec => []AtMostOnce
<1>1. Owns => AtMostOnce
  BY DEF Owns
<1> QED
  BY <1>1, OwnsInit, OwnsStep, PTL DEF Spec

(* Every step of the gateway records an event, fires for a recorded event  *)
(* that has not been fired for, or changes nothing the log shows.          *)
LEMMA LogStep == Owns /\ [Next]_vars => [Log!Next]_<<stored, bus>>
<1> SUFFICES ASSUME Owns, [Next]_vars PROVE [Log!Next]_<<stored, bus>>
  OBVIOUS
<1> USE DEF Owns, TypeOK, OneOwner, AtMostOnce, Announcing, rows, handlers,
            Log!Next, Log!Record, Log!Fire
<1>1. ASSUME NEW h \in Handlers, NEW e \in Events, Handle(h, e)
      PROVE  Log!Record(e) \/ UNCHANGED <<stored, bus>>
  BY <1>1 DEF Handle
<1>2. ASSUME NEW h \in Handlers, Announce(h)
      PROVE  job[h] \in Events /\ Log!Fire(job[h])
  <2>1. job[h] \in stored /\ job[h] \in Events /\ bus[job[h]] = 0
    BY <1>2 DEF Announce
  <2>2. bus' = [bus EXCEPT ![job[h]] = 1] /\ UNCHANGED stored
    BY <1>2, <2>1 DEF Announce
  <2> QED
    BY <2>1, <2>2
<1>3. ASSUME NEW h \in Handlers,
             Enrich(h) \/ Compare(h) \/ Patch(h) \/ Refresh(h) \/ Break(h)
      PROVE  UNCHANGED <<stored, bus>>
  BY <1>3 DEF Enrich, Compare, Patch, Refresh, Break
<1>4. CASE Restart
  BY <1>4 DEF Restart
<1>5. CASE UNCHANGED vars
  BY <1>5 DEF vars
<1> QED
  BY <1>1, <1>2, <1>3, <1>4, <1>5 DEF Next, Step

(* The detailed gateway implements the abstract event log.                 *)
THEOREM GatewayImplementsEventLog == Spec => ImplementsEventLog
<1>1. Init => Log!Init
  BY DEF Init, Log!Init
<1> QED
  BY <1>1, OwnsInit, OwnsStep, LogStep, PTL
  DEF Spec, ImplementsEventLog, Log!Spec

-----------------------------------------------------------------------------
(* What the surface shows.                                                 *)

(* The parts of a copy that are on their way to the surface are in the row, *)
(* about to be written to it, or the inline photo of a push.               *)
CopyHeld ==
    \A h \in Handlers :
        LET written == row[job[h]] \cup (IF pc[h] = "patch" THEN patch[h] ELSE {})
        IN /\ (pc[h] \in {"announce", "patch", "refresh"} /\ "name" \in copy[h])
                => "name" \in written
           /\ (pc[h] \in {"announce", "patch", "refresh"} /\ "photo" \in copy[h])
                => "photo" \in written \/ InlinePhoto(job[h])
           /\ (pc[h] = "compare" /\ "photo" \in copy[h]) => InlinePhoto(job[h])

SurfaceInv == TypeOK /\ CopyHeld /\ SurfaceIsStored

(* Rows of stored events only gain fields, and a photo once dropped stays  *)
(* one that was.                                                           *)
LEMMA RowsGrow ==
    ASSUME TypeOK, [Next]_vars
    PROVE  /\ \A e \in stored : row[e] \subseteq row'[e]
           /\ \A e \in Events : InlinePhoto(e) => InlinePhoto(e)'
<1> USE DEF TypeOK, rows, surface, handlers, InlinePhoto
<1>1. ASSUME NEW h \in Handlers, NEW e \in Events, Handle(h, e)
      PROVE  /\ \A d \in stored : row[d] \subseteq row'[d]
             /\ \A d \in Events : InlinePhoto(d) => InlinePhoto(d)'
  <2>1. \A d \in stored : row[d] \subseteq row'[d]
    <3>1. UNCHANGED row \/ (e \notin stored /\ \E c : row' = [row EXCEPT ![e] = c])
      BY <1>1 DEF Handle
    <3> QED BY <3>1
  <2>2. dropped \subseteq dropped'
    BY <1>1 DEF Handle
  <2> QED BY <2>1, <2>2
<1>2. ASSUME NEW h \in Handlers, Enrich(h) \/ Patch(h)
      PROVE  \A d \in stored : row[d] \subseteq row'[d]
  BY <1>2 DEF Enrich, Patch
<1>3. ASSUME NEW h \in Handlers,
             Announce(h) \/ Compare(h) \/ Refresh(h) \/ Break(h)
      PROVE  row' = row
  BY <1>3 DEF Announce, Compare, Refresh, Break
<1>4. CASE Restart \/ UNCHANGED vars
  BY <1>4 DEF Restart, vars, sources
<1>5. ASSUME NEW h \in Handlers, Step(h) \/ Break(h) PROVE dropped' = dropped
  BY <1>5
  DEF Step, Enrich, Patch, Announce, Compare, Refresh, Break, sources
<1> QED BY <1>1, <1>2, <1>3, <1>4, <1>5 DEF Next, Step

(* A step that leaves the surface and everybody else's copies alone.       *)
LEMMA OthersHeld ==
    ASSUME TypeOK, CopyHeld, [Next]_vars, NEW h \in Handlers,
           pc'[h] = pc[h], job'[h] = job[h], copy'[h] = copy[h],
           patch'[h] = patch[h], pc[h] # "idle"
    PROVE  LET written == row'[job'[h]] \cup (IF pc'[h] = "patch" THEN patch'[h] ELSE {})
           IN /\ (pc'[h] \in {"announce", "patch", "refresh"} /\ "name" \in copy'[h])
                   => "name" \in written
              /\ (pc'[h] \in {"announce", "patch", "refresh"} /\ "photo" \in copy'[h])
                   => "photo" \in written \/ InlinePhoto(job[h])'
              /\ (pc'[h] = "compare" /\ "photo" \in copy'[h]) => InlinePhoto(job[h])'
<1>1. job[h] \in stored /\ job[h] \in Events
  BY DEF TypeOK
<1>2. row[job[h]] \subseteq row'[job[h]]
  BY <1>1, RowsGrow
<1>3. InlinePhoto(job[h]) => InlinePhoto(job[h])'
  <2>1. \A e \in Events : InlinePhoto(e) => InlinePhoto(e)'
    BY RowsGrow
  <2> QED BY <1>1, <2>1 DEF InlinePhoto
<1> QED BY <1>2, <1>3 DEF CopyHeld

LEMMA SurfaceKept ==
    ASSUME TypeOK, SurfaceIsStored, [Next]_vars, UNCHANGED surface
    PROVE  SurfaceIsStored'
<1>1. CASE lastAccess = NoEvent
  BY <1>1 DEF SurfaceIsStored, surface
<1>2. CASE lastAccess # NoEvent
  <2>1. lastAccess \in stored /\ lastAccess \in Events
    BY <1>2 DEF TypeOK
  <2>2. row[lastAccess] \subseteq row'[lastAccess]
    BY <2>1, RowsGrow
  <2>3. InlinePhoto(lastAccess) => InlinePhoto(lastAccess)'
    <3>1. \A e \in Events : InlinePhoto(e) => InlinePhoto(e)'
      BY RowsGrow
    <3> QED BY <2>1, <3>1 DEF InlinePhoto, surface
  <2> QED BY <1>2, <2>2, <2>3 DEF SurfaceIsStored, surface
<1> QED BY <1>1, <1>2

LEMMA SurfaceStep == SurfaceInv /\ [Next]_vars => SurfaceInv'
<1> SUFFICES ASSUME SurfaceInv, [Next]_vars PROVE SurfaceInv'
  OBVIOUS
<1>0. TypeOK /\ CopyHeld /\ SurfaceIsStored /\ TypeOK'
  BY TypeStep DEF SurfaceInv
\* One handler moves, the others keep what they hold.
<1>1. ASSUME NEW h \in Handlers,
             \A g \in Handlers \ {h} :
                /\ pc'[g] = pc[g] /\ job'[g] = job[g] /\ copy'[g] = copy[g]
                /\ patch'[g] = patch[g],
             LET written == row'[job'[h]] \cup (IF pc'[h] = "patch" THEN patch'[h] ELSE {})
             IN /\ (pc'[h] \in {"announce", "patch", "refresh"} /\ "name" \in copy'[h])
                     => "name" \in written
                /\ (pc'[h] \in {"announce", "patch", "refresh"} /\ "photo" \in copy'[h])
                     => "photo" \in written \/ InlinePhoto(job[h])'
                /\ (pc'[h] = "compare" /\ "photo" \in copy'[h]) => InlinePhoto(job[h])'
      PROVE  CopyHeld'
  <2> SUFFICES ASSUME NEW g \in Handlers \ {h}
               PROVE  LET written == row'[job'[g]]
                              \cup (IF pc'[g] = "patch" THEN patch'[g] ELSE {})
                      IN /\ (pc'[g] \in {"announce", "patch", "refresh"}
                              /\ "name" \in copy'[g]) => "name" \in written
                         /\ (pc'[g] \in {"announce", "patch", "refresh"}
                              /\ "photo" \in copy'[g])
                              => "photo" \in written \/ InlinePhoto(job[g])'
                         /\ (pc'[g] = "compare" /\ "photo" \in copy'[g])
                              => InlinePhoto(job[g])'
    BY <1>1 DEF CopyHeld
  <2>1. CASE pc[g] = "idle"
    BY <1>1, <2>1
  <2>2. CASE pc[g] # "idle"
    BY <1>0, <1>1, <2>2, OthersHeld
  <2> QED BY <2>1, <2>2
<1>2. ASSUME NEW h \in Handlers, Return(h) PROVE CopyHeld'
  <2>1. \A g \in Handlers \ {h} :
           /\ pc'[g] = pc[g] /\ job'[g] = job[g] /\ copy'[g] = copy[g]
           /\ patch'[g] = patch[g]
    BY <1>0, <1>2 DEF Return, TypeOK
  <2>2. pc'[h] = "idle"
    BY <1>0, <1>2 DEF Return, TypeOK
  <2> QED BY <1>1, <2>1, <2>2
<1>3. ASSUME NEW h \in Handlers, NEW e \in Events, Handle(h, e) PROVE SurfaceInv'
  <2>1. SurfaceIsStored'
    BY <1>0, <1>3, SurfaceKept DEF Handle
  <2>2. \A g \in Handlers \ {h} :
           /\ pc'[g] = pc[g] /\ job'[g] = job[g] /\ copy'[g] = copy[g]
           /\ patch'[g] = patch[g]
    BY <1>0, <1>3 DEF Handle, Goto, handlers, TypeOK
  <2>3. pc'[h] \in {"idle", "enrich", "compare"}
    BY <1>0, <1>3 DEF Handle, Delivers, Goto, handlers, TypeOK
  <2>4. ASSUME pc'[h] = "compare", "photo" \in copy'[h]
        PROVE  InlinePhoto(job[h])'
    <3>1. PICK carried \in SUBSET Carriable(h) :
            /\ dropped' = dropped \cup (IF "photo" \in carried THEN {e} ELSE {})
            /\ job' = [job EXCEPT ![h] = e]
            /\ copy' = [copy EXCEPT ![h] = carried]
      BY <1>0, <1>3, <2>4 DEF Handle, Delivers, Goto, handlers, TypeOK
    <3>2. job'[h] = e /\ copy'[h] = carried
      BY <1>0, <3>1 DEF TypeOK
    <3> QED BY <2>4, <3>1, <3>2 DEF InlinePhoto
  <2>5. CopyHeld'
    BY <1>1, <2>2, <2>3, <2>4
  <2> QED BY <1>0, <2>1, <2>5 DEF SurfaceInv
<1>4. ASSUME NEW h \in Handlers, Enrich(h) PROVE SurfaceInv'
  <2>1. SurfaceIsStored'
    BY <1>0, <1>4, SurfaceKept DEF Enrich
  <2>2. \A g \in Handlers \ {h} :
           /\ pc'[g] = pc[g] /\ job'[g] = job[g] /\ copy'[g] = copy[g]
           /\ patch'[g] = patch[g]
    BY <1>0, <1>4 DEF Enrich, Goto, TypeOK
  <2>3. pc'[h] = "announce" /\ job'[h] = job[h] /\ job[h] \in Events
    BY <1>0, <1>4 DEF Enrich, Goto, TypeOK
  <2>4. row'[job[h]] = row[job[h]] \cup (copy'[h] \cap {"name", "photo"})
    BY <1>0, <1>4, <2>3 DEF Enrich, TypeOK
  <2>5. CopyHeld'
    BY <1>1, <2>2, <2>3, <2>4
  <2> QED BY <1>0, <2>1, <2>5 DEF SurfaceInv
<1>5. ASSUME NEW h \in Handlers, Announce(h) PROVE SurfaceInv'
  <2>1. /\ "name" \in copy[h] => "name" \in row[job[h]]
        /\ "photo" \in copy[h] => "photo" \in row[job[h]] \/ InlinePhoto(job[h])
    BY <1>5 , <1>0 DEF Announce, CopyHeld
  <2>2. UNCHANGED <<row, dropped>>
    BY <1>5 DEF Announce, rows, sources
  <2>3. SurfaceIsStored'
    <3>1. CASE lastAccess' = job[h] /\ lastFields' = copy[h]
      BY <2>1, <2>2, <3>1 DEF SurfaceIsStored, InlinePhoto
    <3>2. CASE UNCHANGED surface
      BY <1>0, <3>2, SurfaceKept
    <3> QED BY <1>5, <3>1, <3>2 DEF Announce
  <2>4. CopyHeld'
    BY <1>2, <1>5 DEF Announce
  <2> QED BY <1>0, <2>3, <2>4 DEF SurfaceInv
<1>6. ASSUME NEW h \in Handlers, Compare(h) PROVE SurfaceInv'
  <2>1. SurfaceIsStored'
    BY <1>0, <1>6, SurfaceKept DEF Compare
  <2>2. CASE Return(h)
    BY <1>0, <1>2, <2>1, <2>2 DEF SurfaceInv
  <2>3. CASE ~ Return(h)
    <3>1. PICK got \in SUBSET {"photo"} :
            LET lacking == (copy[h] \cap {"url", "name"}) \ row[job[h]]
            IN /\ patch' = [patch EXCEPT ![h] = lacking \cup got]
               /\ copy' = [copy EXCEPT ![h] = @ \cup got]
               /\ Goto(h, "patch")
               /\ UNCHANGED job
      BY <1>6, <2>3 DEF Compare
    <3>2. \A g \in Handlers \ {h} :
             /\ pc'[g] = pc[g] /\ job'[g] = job[g] /\ copy'[g] = copy[g]
             /\ patch'[g] = patch[g]
      BY <1>0, <3>1 DEF Goto, TypeOK
    <3>3. /\ pc'[h] = "patch" /\ job'[h] = job[h]
          /\ copy'[h] = copy[h] \cup got
          /\ patch'[h] = ((copy[h] \cap {"url", "name"}) \ row[job[h]]) \cup got
          /\ row' = row /\ dropped' = dropped
      BY <1>0, <1>6, <3>1 DEF Compare, Goto, TypeOK, rows, sources
    <3>4. "photo" \in copy[h] => InlinePhoto(job[h])
      BY <1>0, <1>6 DEF Compare, CopyHeld
    <3>5. InlinePhoto(job[h]) => InlinePhoto(job[h])'
      BY <3>3 DEF InlinePhoto
    <3>6. CopyHeld'
      BY <1>1, <3>2, <3>3, <3>4, <3>5
    <3> QED BY <1>0, <2>1, <3>6 DEF SurfaceInv
  <2> QED BY <2>2, <2>3
<1>7. ASSUME NEW h \in Handlers, Patch(h) PROVE SurfaceInv'
  <2>1. SurfaceIsStored'
    BY <1>0, <1>7, SurfaceKept DEF Patch
  <2>2. \A g \in Handlers \ {h} :
           /\ pc'[g] = pc[g] /\ job'[g] = job[g] /\ copy'[g] = copy[g]
           /\ patch'[g] = patch[g]
    BY <1>0, <1>7 DEF Patch, Goto, TypeOK
  <2>3. /\ pc[h] = "patch" /\ pc'[h] = "refresh" /\ job'[h] = job[h]
        /\ copy'[h] = copy[h] /\ dropped' = dropped /\ job[h] \in Events
    BY <1>0, <1>7 DEF Patch, Goto, TypeOK, sources
  <2>4. row'[job[h]] = row[job[h]] \cup patch[h]
    BY <1>0, <1>7, <2>3 DEF Patch, TypeOK
  <2>5. /\ "name" \in copy[h] => "name" \in row'[job[h]]
        /\ "photo" \in copy[h] => "photo" \in row'[job[h]] \/ InlinePhoto(job[h])
    BY <1>0, <2>3, <2>4 DEF CopyHeld
  <2>6. InlinePhoto(job[h]) => InlinePhoto(job[h])'
    BY <2>3 DEF InlinePhoto
  <2>7. CopyHeld'
    BY <1>1, <2>2, <2>3, <2>5, <2>6
  <2> QED BY <1>0, <2>1, <2>7 DEF SurfaceInv
<1>8. ASSUME NEW h \in Handlers, Refresh(h) PROVE SurfaceInv'
  <2>1. /\ "name" \in copy[h] => "name" \in row[job[h]]
        /\ "photo" \in copy[h] => "photo" \in row[job[h]] \/ InlinePhoto(job[h])
    BY <1>0, <1>8 DEF Refresh, CopyHeld
  <2>2. UNCHANGED <<row, dropped>>
    BY <1>8 DEF Refresh, rows, sources
  <2>3. SurfaceIsStored'
    <3>1. CASE /\ lastAccess' = job[h]
               /\ lastFields' = copy[h] \cup (row[job[h]] \cap {"name"})
      BY <2>1, <2>2, <3>1 DEF SurfaceIsStored, InlinePhoto
    <3>2. CASE UNCHANGED surface
      BY <1>0, <3>2, SurfaceKept
    <3> QED BY <1>8, <3>1, <3>2 DEF Refresh
  <2>4. CopyHeld'
    BY <1>2, <1>8 DEF Refresh
  <2> QED BY <1>0, <2>3, <2>4 DEF SurfaceInv
<1>9. ASSUME NEW h \in Handlers, Break(h) PROVE SurfaceInv'
  <2>1. SurfaceIsStored'
    BY <1>0, <1>9, SurfaceKept DEF Break
  <2> QED BY <1>0, <1>2, <1>9, <2>1 DEF Break, SurfaceInv
<1>10. CASE Restart
  <2>1. CopyHeld'
    BY <1>10 DEF Restart, CopyHeld
  <2>2. SurfaceIsStored'
    <3>1. row' = row
      BY <1>10 DEF Restart, rows
    <3> QED BY <1>10, <3>1 DEF Restart, SurfaceIsStored
  <2> QED BY <1>0, <2>1, <2>2 DEF SurfaceInv
<1>11. CASE UNCHANGED vars
  <2>1. CopyHeld'
    BY <1>0, <1>11 DEF vars, rows, handlers, sources, CopyHeld, InlinePhoto
  <2>2. SurfaceIsStored'
    BY <1>0, <1>11, SurfaceKept DEF vars
  <2> QED BY <1>0, <2>1, <2>2 DEF SurfaceInv
<1> QED
  BY <1>3, <1>4, <1>5, <1>6, <1>7, <1>8, <1>9, <1>10, <1>11 DEF Next, Step

(* gateway.py, async_restore: a restart shows what was shown before, but   *)
(* for the inline photo of a push, from whichever sources the event came.  *)
THEOREM SurfaceSurvivesRestart == Spec => []SurfaceIsStored
<1>1. Init => SurfaceInv
  BY OwnsInit DEF Init, Owns, SurfaceInv, CopyHeld, SurfaceIsStored
<1>2. SurfaceInv => SurfaceIsStored
  BY DEF SurfaceInv
<1> QED BY <1>1, <1>2, SurfaceStep, PTL DEF Spec

(* gateway.py, _maybe_upgrade and async_restore: of all that the gateway    *)
(* does, only an announcement shows an older access than the one shown.     *)
THEOREM OldAccessStaysOld == Spec => RewindsOnlyForNews
<1>1. ASSUME TypeOK, [Next]_vars, lastAccess' < lastAccess
      PROVE  bus'[lastAccess'] > bus[lastAccess']
  <2>0. lastAccess \in Nat /\ \A n \in Nat : ~ (n < n)
    BY <1>1 DEF TypeOK
  <2>1. lastAccess' # lastAccess
    BY <1>1, <2>0
  <2>2. ASSUME NEW h \in Handlers, Announce(h)
        PROVE  bus'[lastAccess'] > bus[lastAccess']
    <3>1. lastAccess' = job[h] /\ job[h] \in Events
      BY <2>1, <2>2 DEF Announce, surface
    <3>2. bus[job[h]] \in Nat /\ bus'[job[h]] = bus[job[h]] + 1
      BY <1>1, <2>2, <3>1 DEF Announce, TypeOK
    <3> QED BY <3>1, <3>2
  <2>3. ASSUME NEW h \in Handlers, Refresh(h) PROVE FALSE
    <3>1. lastAccess' = job[h] /\ IsLatest(job[h]) /\ job[h] \in Nat
      BY <2>1, <2>3 DEF Refresh, surface
    <3>2. ASSUME NEW n \in Nat, IsLatest(n) PROVE ~ (n < lastAccess)
      BY <2>0, <3>2 DEF IsLatest
    <3> QED BY <1>1, <3>1, <3>2
  \* What is shown has a row, and a restart takes the newest row there is.
  <2>4. ASSUME Restart PROVE FALSE
    <3>1. lastAccess \in stored \cap Decisions
      <4>0. lastAccess' \in Decisions \/ lastAccess' = NoEvent
        BY <2>4 DEF Restart
      <4>1. lastAccess' \in Nat
        <5>1. NoEvent \in Nat /\ \A e \in Decisions : e \in Nat
          OBVIOUS
        <5> QED BY <4>0, <5>1, Zenon
      <4>2. \A n \in Nat : ~ (n < NoEvent)
        OBVIOUS
      <4> QED BY <1>1, <4>1, <4>2 DEF TypeOK
    <3>2. lastAccess' \in Nat /\ lastAccess <= lastAccess'
      BY <2>4, <3>1 DEF Restart
    <3>3. ASSUME NEW n \in Nat, lastAccess <= n PROVE ~ (n < lastAccess)
      BY <2>0, <3>3
    <3> QED BY <1>1, <3>2, <3>3
  <2>5. ~ UNCHANGED surface
    BY <2>1 DEF surface
  <2> QED BY <1>1, <2>2, <2>3, <2>4, <2>5
          DEF Next, Step, Handle, Enrich, Compare, Patch, Break, vars
<1> QED BY <1>1, TypeCorrect, PTL DEF Spec, RewindsOnlyForNews

=============================================================================
