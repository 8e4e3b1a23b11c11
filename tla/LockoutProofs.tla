---------------------------- MODULE LockoutProofs ----------------------------
(***************************************************************************)
(* The client's park outlasts every lock it has read of, for any number of *)
(* callers and any times.  The inductive invariant adds MarginAhead: a     *)
(* request that may still send passed the check before the park, so what   *)
(* is left of the park covers a lock renewed as late as its patience lets  *)
(* it.                                                                     *)
(***************************************************************************)
EXTENDS Lockout, FiniteSetTheorems, TLAPS

\* Time does not pass while a request is out of patience.
InTime == \A r \in Callers : StillSends(r) => age[r] <= Patience

ParkInv == TypeOK /\ InTime /\ ParkCoversLock /\ MarginAhead

\* Goto keeps the type of pc.
LEMMA GotoType ==
    ASSUME TypeOK, NEW r \in Callers, NEW step \in Steps, Goto(r, step)
    PROVE  pc' \in [Callers -> Steps]
BY DEF TypeOK, Goto

\* What an attempt does to the lock and to the pending answer.
LEMMA AttemptFacts ==
    ASSUME TypeOK, NEW r \in Callers, Attempt(r)
    PROVE  /\ lock' \in Nat /\ lock' <= LockTime
           /\ late' \in Nat
           /\ answer' \in [Callers -> Answers]
           /\ lock = 0 => lock' = 0
BY LockoutAssumption DEF TypeOK, ClocksOK, Attempt, Answers, NoLock

\* Noting a lock prolongs the park to the answer and the margin.
LEMMA NoteFacts ==
    ASSUME TypeOK, NEW r \in Callers, Note(r)
    PROVE  /\ parked' \in Nat /\ parked' >= parked
           /\ parked' >= answer[r] + Margin
           /\ aware' = 1 => aware = 1 \/ answer[r] = LockTime
           /\ aware' \in {0, 1}
           /\ answer' \in [Callers -> Answers]
           /\ pc' \in [Callers -> Steps]
           /\ \A q \in Callers : StillSends(q)' => StillSends(q)
<1>1. answer[r] \in Nat
  BY LockoutAssumption DEF TypeOK, Answers, NoLock
<1>2. parked' \in Nat /\ parked' >= parked /\ parked' >= answer[r] + Margin
  BY <1>1, LockoutAssumption DEF TypeOK, ClocksOK, Note, Noted
<1>3. aware' \in {0, 1} /\ (aware' = 1 => aware = 1 \/ answer[r] = LockTime)
  BY DEF TypeOK, Note
<1>4. answer' \in [Callers -> Answers]
  BY DEF TypeOK, Note, Answers
<1>5. pc' \in [Callers -> Steps]
  BY GotoType DEF Note, Steps
<1>6. \A q \in Callers : StillSends(q)' => StillSends(q)
  BY DEF TypeOK, Note, Goto, StillSends
<1> QED BY <1>2, <1>3, <1>4, <1>5, <1>6

LEMMA TypeStep == TypeOK /\ [Next]_vars => TypeOK'
<1> SUFFICES ASSUME TypeOK, [Next]_vars PROVE TypeOK'
  OBVIOUS
<1> USE LockoutAssumption
<1>1. CASE TerminalLocks
  BY <1>1 DEF TypeOK, ClocksOK, TerminalLocks, requests
<1>2. CASE Tick
  <2>1. lock' \in Nat /\ lock' <= LockTime /\ parked' \in Nat
    BY <1>2 DEF TypeOK, ClocksOK, Tick, Down
  <2>2. age' \in [Callers -> Nat]
    BY <1>2 DEF TypeOK, ClocksOK, Tick
  <2>3. aware' \in {0, 1} /\ late' \in Nat
    BY <1>2 DEF TypeOK, Tick
  <2> QED BY <2>1, <2>2, <2>3, <1>2 DEF TypeOK, ClocksOK, Tick
<1>3. ASSUME NEW r \in Callers, Start(r) \/ Enter(r) \/ OpenStream(r)
      PROVE  TypeOK'
  <2>1. pc' \in [Callers -> Steps]
    BY <1>3, GotoType DEF Start, Enter, OpenStream, Steps
  <2> QED BY <2>1, <1>3 DEF TypeOK, ClocksOK, Start, Enter, OpenStream
<1>4. ASSUME NEW r \in Callers, Probe(r) PROVE TypeOK'
  <2>1. pc' \in [Callers -> Steps] /\ age' \in [Callers -> Nat]
    BY <1>4, GotoType DEF Probe, Steps, TypeOK, ClocksOK
  <2> QED BY <2>1, <1>4, AttemptFacts DEF TypeOK, ClocksOK, Probe
<1>5. ASSUME NEW r \in Callers, TurnBack(r) PROVE TypeOK'
  <2>1. pc' \in [Callers -> Steps]
    BY <1>5, GotoType DEF TurnBack, Steps
  <2> QED BY <2>1, <1>5 DEF TypeOK, ClocksOK, TurnBack
<1>6. ASSUME NEW r \in Callers, Note(r), UNCHANGED age PROVE TypeOK'
  BY <1>6, NoteFacts DEF TypeOK, ClocksOK, Note
<1>7. ASSUME NEW r \in Callers, ProbeAnswered(r) PROVE TypeOK'
  <2>1. CASE Note(r) /\ UNCHANGED age
    BY <2>1, <1>6
  <2>2. CASE answer[r] = NoLock /\ Goto(r, "main")
             /\ UNCHANGED <<lock, parked, age, answer, aware, late, lost>>
    <3>1. pc' \in [Callers -> Steps]
      BY <2>2, GotoType DEF Steps
    <3> QED BY <3>1, <2>2 DEF TypeOK, ClocksOK
  <2> QED BY <2>1, <2>2, <1>7 DEF ProbeAnswered
<1>8. ASSUME NEW r \in Callers, Send(r) PROVE TypeOK'
  <2>1. pc' \in [Callers -> Steps]
    BY <1>8, GotoType DEF Send, Steps
  <2> QED BY <2>1, <1>8, AttemptFacts DEF TypeOK, ClocksOK, Send
<1>9. ASSUME NEW r \in Callers, Answered(r) PROVE TypeOK'
  <2>1. pc' \in [Callers -> Steps]
    BY <1>9, GotoType DEF Answered, Steps
  <2> QED BY <2>1, <1>9 DEF TypeOK, ClocksOK, Answered
<1>10. ASSUME NEW r \in Callers, Rejected(r) PROVE TypeOK'
  BY <1>10, <1>6 DEF Rejected
<1>11. ASSUME NEW r \in Callers, Lose(r) PROVE TypeOK'
  <2>1. pc' \in [Callers -> Steps] /\ answer' \in [Callers -> Answers]
    BY <1>11, GotoType DEF Lose, Steps, TypeOK, Answers
  <2> QED BY <2>1, <1>11 DEF TypeOK, ClocksOK, Lose
<1>12. CASE UNCHANGED vars
  BY <1>12 DEF TypeOK, ClocksOK, vars, requests
<1> QED
  BY <1>1, <1>2, <1>3, <1>4, <1>5, <1>7, <1>8, <1>9, <1>10, <1>11, <1>12
  DEF Next, Proceed

\* The types of the clocks, the requests and the counters.
THEOREM TypeCorrect == Spec => []TypeOK
<1>1. Init => TypeOK
  BY LockoutAssumption
  DEF Init, TypeOK, ClocksOK, Steps, Answers, NoLock
<1> QED BY <1>1, TypeStep, PTL DEF Spec

\* Note: the park covers the lock and everybody's patience.
LEMMA NoteCovers ==
    ASSUME ParkInv, NEW r \in Callers, Note(r), UNCHANGED age
    PROVE  ParkCoversLock' /\ MarginAhead'
<1> USE LockoutAssumption, MarginAssumption
<1>1. lock' = lock
  BY DEF Note
<1>2. CASE aware = 1
  BY <1>1, <1>2, NoteFacts
  DEF ParkInv, TypeOK, ClocksOK, ParkCoversLock, MarginAhead
<1>3. CASE aware' = 1 /\ answer[r] = LockTime
  <2>1. parked' >= LockTime + Margin
    BY <1>3, NoteFacts DEF ParkInv
  <2>2. parked' >= lock'
    BY <1>1, <2>1, NoteFacts DEF ParkInv, TypeOK, ClocksOK
  <2>3. \A q \in Callers : parked' >= LockTime + Patience - age'[q]
    BY <2>1, NoteFacts DEF ParkInv, TypeOK, ClocksOK
  <2>4. CASE aware = 1
    BY <1>2, <2>4
  <2>5. CASE aware # 1
    <3>1. lock' > 0
      BY <1>1, <1>3, <2>5 DEF Note
    <3> QED BY <2>2, <2>3, <3>1 DEF ParkCoversLock, MarginAhead
  <2> QED BY <2>4, <2>5
<1>4. aware' = 1 => aware = 1 \/ answer[r] = LockTime
  BY NoteFacts DEF ParkInv
<1> QED BY <1>2, <1>3, <1>4 DEF ParkCoversLock, MarginAhead

LEMMA InTimeStep == TypeOK /\ InTime /\ [Next]_vars => InTime'
<1> SUFFICES ASSUME TypeOK, InTime, [Next]_vars PROVE InTime'
  OBVIOUS
<1> USE LockoutAssumption
<1>1. CASE Tick
  <2>1. \A r \in Callers :
          StillSends(r)' => age[r] < Patience /\ age'[r] = age[r] + 1
    BY <1>1 DEF Tick, StillSends
  <2> QED BY <2>1 DEF InTime, TypeOK, ClocksOK
<1>2. ASSUME NEW r \in Callers, Probe(r) PROVE InTime'
  <2>1. age'[r] = 0 /\ \A q \in Callers \ {r} : age'[q] = age[q]
    BY <1>2 DEF Probe, TypeOK, ClocksOK
  <2>2. \A q \in Callers \ {r} : StillSends(q)' => StillSends(q)
    BY <1>2 DEF Probe, Goto, StillSends, TypeOK
  <2> QED BY <2>1, <2>2 DEF InTime
<1>3. ASSUME NEW r \in Callers, Note(r), UNCHANGED age PROVE InTime'
  BY <1>3, NoteFacts DEF InTime
<1>4. ASSUME NEW r \in Callers,
             \/ Start(r) \/ Enter(r) \/ OpenStream(r) \/ TurnBack(r)
             \/ Answered(r) \/ Send(r) \/ Lose(r)
      PROVE  InTime'
  <2>1. UNCHANGED age
    BY <1>4 DEF Start, Enter, OpenStream, TurnBack, Answered, Send, Lose
  <2>2. \A q \in Callers : StillSends(q)' => StillSends(q)
    BY <1>4
    DEF Start, Enter, OpenStream, TurnBack, Answered, Send, Lose, Goto,
        StillSends, TypeOK
  <2> QED BY <2>1, <2>2 DEF InTime
<1>5. ASSUME NEW r \in Callers, ProbeAnswered(r) PROVE InTime'
  <2>1. CASE Note(r) /\ UNCHANGED age
    BY <2>1, <1>3
  <2>2. CASE Goto(r, "main") /\ pc[r] = "probing" /\ UNCHANGED age
    <3>1. \A q \in Callers : StillSends(q)' => StillSends(q)
      BY <2>2 DEF Goto, StillSends, TypeOK
    <3> QED BY <2>2, <3>1 DEF InTime
  <2> QED BY <1>5, <2>1, <2>2 DEF ProbeAnswered
<1>6. ASSUME NEW r \in Callers, Rejected(r) PROVE InTime'
  BY <1>6, <1>3 DEF Rejected
<1>7. CASE TerminalLocks \/ UNCHANGED vars
  BY <1>7 DEF TerminalLocks, vars, requests, InTime, StillSends
<1> QED
  BY <1>1, <1>2, <1>4, <1>5, <1>6, <1>7 DEF Next, Proceed

LEMMA ParkStep == ParkInv /\ [Next]_vars => ParkInv'
<1> SUFFICES ASSUME ParkInv, [Next]_vars PROVE ParkCoversLock' /\ MarginAhead'
  BY TypeStep, InTimeStep DEF ParkInv
<1> USE LockoutAssumption
<1>1. TypeOK /\ InTime /\ ParkCoversLock /\ MarginAhead /\ TypeOK'
  BY TypeStep DEF ParkInv
<1>2. CASE TerminalLocks
  BY <1>1, <1>2 DEF TerminalLocks, requests, ParkCoversLock, MarginAhead
<1>3. CASE Tick
  <2>1. aware' = 1 => aware = 1 /\ lock' = lock - 1 /\ lock' > 0
    BY <1>1, <1>3 DEF Tick, Down, TypeOK, ClocksOK
  <2>2. aware' = 1 => parked' = parked - 1
    BY <1>1, <1>3, <2>1 DEF Tick, Down, TypeOK, ClocksOK, ParkCoversLock
  <2>3. \A r \in Callers :
          StillSends(r)' => StillSends(r) /\ age'[r] = age[r] + 1
    BY <1>3 DEF Tick, StillSends
  <2> QED
    BY <1>1, <2>1, <2>2, <2>3
    DEF TypeOK, ClocksOK, ParkCoversLock, MarginAhead
<1>4. ASSUME NEW r \in Callers,
             \/ Start(r) \/ Enter(r) \/ OpenStream(r) \/ TurnBack(r)
             \/ Answered(r)
      PROVE  ParkCoversLock' /\ MarginAhead'
  <2>1. UNCHANGED <<lock, parked, age, aware>>
    BY <1>4 DEF Start, Enter, OpenStream, TurnBack, Answered
  <2>2. \A q \in Callers : StillSends(q)' => StillSends(q)
    BY <1>1, <1>4
    DEF Start, Enter, OpenStream, TurnBack, Answered, Goto, StillSends, TypeOK
  <2> QED BY <1>1, <2>1, <2>2 DEF ParkCoversLock, MarginAhead
<1>5. ASSUME NEW r \in Callers, Probe(r) PROVE ParkCoversLock' /\ MarginAhead'
  <2>1. aware' # 1
    BY <1>1, <1>5
    DEF Probe, ParkCoversLock, MarginAhead, TypeOK, ClocksOK
  <2> QED BY <2>1 DEF ParkCoversLock, MarginAhead
<1>6. ASSUME NEW r \in Callers, ProbeAnswered(r)
      PROVE  ParkCoversLock' /\ MarginAhead'
  <2>1. CASE Note(r) /\ UNCHANGED age
    BY <2>1, NoteCovers
  <2>2. CASE Goto(r, "main") /\ pc[r] = "probing"
             /\ UNCHANGED <<lock, parked, age, answer, aware, late, lost>>
    <3>1. \A q \in Callers : StillSends(q)' => StillSends(q)
      BY <1>1, <2>2 DEF Goto, StillSends, TypeOK
    <3> QED BY <1>1, <2>2, <3>1 DEF ParkCoversLock, MarginAhead
  <2> QED BY <1>6, <2>1, <2>2 DEF ProbeAnswered
<1>7. ASSUME NEW r \in Callers, Send(r) PROVE ParkCoversLock' /\ MarginAhead'
  <2>1. UNCHANGED <<parked, age, aware>> /\ StillSends(r)
    BY <1>7 DEF Send, StillSends
  <2>2. aware = 1 => lock' = LockTime
    BY <1>1, <1>7 DEF Send, Attempt, MarginAhead
  <2>3. aware = 1 => parked >= LockTime
    BY <1>1, <2>1 DEF InTime, MarginAhead, TypeOK, ClocksOK
  <2>4. \A q \in Callers : StillSends(q)' => StillSends(q)
    BY <1>1, <1>7 DEF Send, Goto, StillSends, TypeOK
  <2> QED
    BY <1>1, <2>1, <2>2, <2>3, <2>4
    DEF TypeOK, ClocksOK, ParkCoversLock, MarginAhead
<1>8. ASSUME NEW r \in Callers, Rejected(r)
      PROVE  ParkCoversLock' /\ MarginAhead'
  BY <1>8, NoteCovers DEF Rejected
<1>9. ASSUME NEW r \in Callers, Lose(r) PROVE ParkCoversLock' /\ MarginAhead'
  <2>1. UNCHANGED <<lock, parked, age, aware>>
    BY <1>9 DEF Lose
  <2>2. \A q \in Callers : StillSends(q)' => StillSends(q)
    BY <1>1, <1>9 DEF Lose, Goto, StillSends, TypeOK
  <2> QED BY <1>1, <2>1, <2>2 DEF ParkCoversLock, MarginAhead
<1>10. CASE UNCHANGED vars
  BY <1>1, <1>10
  DEF vars, requests, StillSends, ParkCoversLock, MarginAhead
<1> QED
  BY <1>2, <1>3, <1>4, <1>5, <1>6, <1>7, <1>8, <1>9, <1>10
  DEF Next, Proceed

\* _raise_if_locked: the client stays parked as long as a lock it has read
\* of lasts, whatever is still under way and whatever answers are lost.
THEOREM ParkOutlastsLock == Spec => []ParkCoversLock
<1>1. Init => ParkInv
  BY LockoutAssumption
  DEF Init, ParkInv, InTime, StillSends, TypeOK, ClocksOK, Steps, Answers, NoLock,
      ParkCoversLock, MarginAhead
<1>2. ParkInv => ParkCoversLock
  BY DEF ParkInv
<1> QED BY <1>1, <1>2, ParkStep, PTL DEF Spec

-----------------------------------------------------------------------------
(* The attempts that are still to come.                                    *)

Senders == {r \in Callers : StillSends(r)}

\* Why LateBounded is inductive: whoever may still send was let in before the
\* park, and is counted either here or in late.
Counted ==
    /\ Cardinality(InGate) <= Gate
    /\ parked = 0 => late = 0
    /\ late + Cardinality(Senders) <= Gate + Cardinality(Streams)

LEMMA FiniteCallers ==
    /\ IsFiniteSet(InGate) /\ Cardinality(InGate) \in Nat
    /\ IsFiniteSet(Senders) /\ Cardinality(Senders) \in Nat
    /\ Cardinality(Streams) \in Nat
    /\ \A S \in SUBSET Callers : IsFiniteSet(S) /\ Cardinality(S) \in Nat
<1>1. IsFiniteSet(Callers)
  BY LockoutAssumption, FS_Union DEF Callers
<1>2. InGate \subseteq Callers /\ Senders \subseteq Callers
  BY DEF InGate, Senders, Callers
<1> QED BY <1>1, <1>2, FS_Subset, FS_CardinalityType, LockoutAssumption

\* Nobody sends but who is inside the gate or opens a stream.
LEMMA SendersInside ==
    ASSUME Cardinality(InGate)' <= Gate
    PROVE  Cardinality(Senders)' <= Gate + Cardinality(Streams)
<1> DEFINE G == {r \in Requests : pc'[r] \in {"inside", "probing", "main", "sent"}}
           S == {r \in Callers : pc'[r] \in {"probing", "main"}}
<1>1. S \subseteq G \cup Streams
  BY DEF Callers
<1>2. G \in SUBSET Callers
  BY DEF Callers
<1>3. IsFiniteSet(G) /\ Cardinality(G) \in Nat
  BY <1>2, FiniteCallers
<1>4. IsFiniteSet(G \cup Streams)
  BY <1>3, FS_Union, LockoutAssumption
<1>5. Cardinality(G \cup Streams) <= Cardinality(G) + Cardinality(Streams)
  <2>1. /\ Cardinality(G \cup Streams)
             = Cardinality(G) + Cardinality(Streams) - Cardinality(G \cap Streams)
    BY <1>3, FS_Union, LockoutAssumption
  <2>2. G \cap Streams = {}
    BY LockoutAssumption
  <2>3. Cardinality(G \cap Streams) = 0
    BY <2>2, FS_EmptySet
  <2> HIDE DEF G
  <2> QED BY <1>3, <2>1, <2>3, FiniteCallers
<1>6. Cardinality(S) <= Cardinality(G \cup Streams)
  BY <1>1, <1>4, FS_Subset
<1>7. Cardinality(InGate)' = Cardinality(G) /\ Cardinality(Senders)' = Cardinality(S)
  BY DEF InGate, Senders, StillSends
<1>8. S \in SUBSET Callers /\ G \cup Streams \in SUBSET Callers
  BY <1>2 DEF Callers
<1>9. Cardinality(S) \in Nat /\ Cardinality(G \cup Streams) \in Nat
  BY <1>8, FiniteCallers
<1> HIDE DEF G, S
<1> QED BY <1>3, <1>5, <1>6, <1>7, <1>9, FiniteCallers, LockoutAssumption

\* A step by which nobody enters the gate.
LEMMA GateKeeps ==
    ASSUME Cardinality(InGate) <= Gate, InGate' \subseteq InGate
    PROVE  Cardinality(InGate)' <= Gate
<1>1. Cardinality(InGate') <= Cardinality(InGate)
  BY FiniteCallers, FS_Subset
<1>2. InGate' \in SUBSET Callers
  BY DEF InGate, Callers
<1>3. Cardinality(InGate') \in Nat
  BY <1>2, FiniteCallers
<1> QED BY <1>1, <1>3, FiniteCallers, LockoutAssumption

\* A step after which no more may send than before.
LEMMA SendersKeep ==
    ASSUME TypeOK, Counted, Cardinality(InGate)' <= Gate,
           late' = late \/ late' = 0, parked' = 0 => late' = 0,
           Senders' \subseteq Senders \/ late' = 0
    PROVE  Counted'
<1>1. CASE late' = 0
  <2>1. Cardinality(Senders)' <= Gate + Cardinality(Streams)
    BY SendersInside
  <2>2. Senders' \in SUBSET Callers
    BY DEF Senders
  <2>3. Cardinality(Senders') \in Nat
    BY <2>2, FiniteCallers
  <2> QED BY <1>1, <2>1, <2>3 DEF Counted
<1>2. CASE late' = late /\ Senders' \subseteq Senders
  <2>1. Cardinality(Senders') <= Cardinality(Senders)
    BY <1>2, FiniteCallers, FS_Subset
  <2>2. Senders' \in SUBSET Callers
    BY DEF Senders
  <2>3. Cardinality(Senders') \in Nat
    BY <2>2, FiniteCallers
  <2> QED
    BY <1>2, <2>1, <2>3, FiniteCallers, LockoutAssumption DEF Counted, TypeOK
<1> QED BY <1>1, <1>2

LEMMA CountedStep == TypeOK /\ Counted /\ [Next]_vars => Counted'
<1> SUFFICES ASSUME TypeOK, Counted, [Next]_vars PROVE Counted'
  OBVIOUS
<1>0. Cardinality(InGate) <= Gate /\ (parked = 0 => late = 0)
  BY DEF Counted
\* Steps that send nothing and let nobody send who could not before.
<1>1. ASSUME late' = late, parked' = 0 => parked = 0,
             InGate' \subseteq InGate, Senders' \subseteq Senders
      PROVE  Counted'
  BY <1>0, <1>1, GateKeeps, SendersKeep
<1>2. CASE TerminalLocks \/ UNCHANGED vars
  BY <1>1, <1>2
  DEF TerminalLocks, vars, requests, InGate, Senders, StillSends
<1>3. CASE Tick
  <2>1. InGate' = InGate /\ Senders' = Senders
    BY <1>3 DEF Tick, InGate, Senders, StillSends
  <2> QED BY <1>0, <1>3, <2>1, GateKeeps, SendersKeep DEF Tick
<1>4. ASSUME NEW r \in Callers, Start(r) PROVE Counted'
  <2>1. InGate' \subseteq InGate /\ Senders' \subseteq Senders
    BY <1>4 DEF Start, Goto, TypeOK, InGate, Senders, StillSends
  <2> QED BY <1>1, <1>4, <2>1 DEF Start
<1>5. ASSUME NEW r \in Callers, Enter(r) PROVE Counted'
  <2>1. InGate' \subseteq InGate \cup {r} /\ Senders' \subseteq Senders
    BY <1>5 DEF Enter, Goto, TypeOK, InGate, Senders, StillSends
  <2>2. r \notin InGate /\ Cardinality(InGate) < Gate
    BY <1>5 DEF Enter, InGate
  <2>3. /\ IsFiniteSet(InGate \cup {r})
        /\ Cardinality(InGate \cup {r}) = Cardinality(InGate) + 1
    BY <2>2, FiniteCallers, FS_AddElement
  <2>4. Cardinality(InGate') <= Cardinality(InGate \cup {r})
    BY <2>1, <2>3, FS_Subset
  <2>5. InGate' \in SUBSET Callers
    BY DEF InGate, Callers
  <2>6. Cardinality(InGate') \in Nat
    BY <2>5, FiniteCallers
  <2>7. Cardinality(InGate)' <= Gate
    BY <2>2, <2>3, <2>4, <2>6, FiniteCallers, LockoutAssumption
  <2> QED BY <1>0, <1>5, <2>1, <2>7, SendersKeep DEF Enter
<1>6. ASSUME NEW r \in Callers, OpenStream(r) PROVE Counted'
  <2>1. r \notin Requests
    BY <1>6, LockoutAssumption DEF OpenStream
  <2>2. InGate' \subseteq InGate /\ Senders' \subseteq Senders
    BY <1>6, <2>1 DEF OpenStream, Goto, TypeOK, InGate, Senders, StillSends
  <2> QED BY <1>1, <1>6, <2>2 DEF OpenStream
<1>7. ASSUME NEW r \in Callers, Probe(r) PROVE Counted'
  <2>1. InGate' \subseteq InGate
    BY <1>7 DEF Probe, Goto, TypeOK, InGate
  <2>2. late' = 0 /\ parked' = parked
    BY <1>0, <1>7 DEF Probe, Attempt
  <2> QED BY <1>0, <2>1, <2>2, GateKeeps, SendersKeep
<1>8. ASSUME NEW r \in Callers, Note(r) PROVE Counted'
  <2>1. InGate' \subseteq InGate /\ Senders' \subseteq Senders
    BY <1>8 DEF Note, Goto, TypeOK, InGate, Senders, StillSends
  <2>2. parked' = 0 => parked = 0
    BY <1>8, NoteFacts DEF TypeOK, ClocksOK
  <2> QED BY <1>1, <1>8, <2>1, <2>2 DEF Note
<1>9. ASSUME NEW r \in Callers,
             TurnBack(r) \/ Answered(r) \/ Lose(r)
             \/ (ProbeAnswered(r) /\ ~ Note(r))
      PROVE  Counted'
  <2>1. PICK step \in {"idle", "main", "body"} : Goto(r, step)
    BY <1>9 DEF TurnBack, Answered, Lose, ProbeAnswered
  <2>2. step = "main" => pc[r] = "probing"
    BY <1>9, <2>1 DEF TurnBack, Answered, Lose, ProbeAnswered, Goto, TypeOK
  <2>3. InGate' \subseteq InGate /\ Senders' \subseteq Senders
    BY <2>1, <2>2 DEF Goto, TypeOK, InGate, Senders, StillSends
  <2> QED BY <1>1, <1>9, <2>3 DEF TurnBack, Answered, Lose, ProbeAnswered
<1>10. ASSUME NEW r \in Callers, Send(r) PROVE Counted'
  <2>1. InGate' \subseteq InGate
    BY <1>10 DEF Send, Goto, TypeOK, InGate
  <2>2. CASE parked = 0
    BY <1>0, <1>10, <2>1, <2>2, GateKeeps, SendersKeep DEF Send, Attempt
  <2>3. CASE parked # 0
    <3>1. late' = late + 1 /\ parked' # 0
      BY <1>10, <2>3 DEF Send, Attempt, TypeOK, ClocksOK
    <3>2. r \in Senders /\ Senders' \subseteq Senders \ {r}
      BY <1>10 DEF Send, Goto, TypeOK, Senders, StillSends
    <3>3. /\ IsFiniteSet(Senders \ {r})
          /\ Cardinality(Senders \ {r}) = Cardinality(Senders) - 1
      BY <3>2, FiniteCallers, FS_RemoveElement
    <3>4. Cardinality(Senders') <= Cardinality(Senders \ {r})
      BY <3>2, <3>3, FS_Subset
    <3>5. Senders' \in SUBSET Callers
      BY DEF Senders
    <3>6. Cardinality(Senders') \in Nat
      BY <3>5, FiniteCallers
    <3>7. Cardinality(InGate)' <= Gate
      BY <1>0, <2>1, GateKeeps
    <3> QED
      BY <3>1, <3>3, <3>4, <3>6, <3>7, FiniteCallers, LockoutAssumption
      DEF Counted, TypeOK
  <2> QED BY <2>2, <2>3
<1> QED
  BY <1>2, <1>3, <1>4, <1>5, <1>6, <1>7, <1>8, <1>9, <1>10
  DEF Next, Proceed, ProbeAnswered, Rejected

\* _request, _fresh_digest: a burst stops at once.  After the client parked, no
\* more attempts follow than the gate and the streams had let in.
THEOREM BurstStops == Spec => []LateBounded
<1>1. Init => Counted
  <2> SUFFICES ASSUME Init PROVE Counted
    OBVIOUS
  <2>1. InGate = {} /\ Senders = {}
    BY DEF Init, InGate, Senders, StillSends, Callers
  <2>2. Cardinality({}) = 0
    BY FS_EmptySet
  <2> QED BY <2>1, <2>2, FiniteCallers, LockoutAssumption DEF Init, Counted
<1>2. TypeOK /\ Counted => LateBounded
  BY FiniteCallers, LockoutAssumption DEF Counted, LateBounded, TypeOK
<1> QED BY <1>1, <1>2, CountedStep, TypeCorrect, PTL DEF Spec

=============================================================================
