-------------------------- MODULE ReconcilerProofs --------------------------
(***************************************************************************)
(* Type correctness of the sweep under every interleaving with the         *)
(* realtime path, NoGap for sweeps alone, and what a sweep passes over     *)
(* when live rows move the newest serial, for every value of the           *)
(* constants.                                                              *)
(***************************************************************************)
EXTENDS Reconciler, TLAPS

(* The types hold initially and every step, realtime inserts included,     *)
(* preserves them.                                                         *)
LEMMA TypeStep == TypeOK /\ [Next]_vars => TypeOK'
<1> SUFFICES ASSUME TypeOK, [Next]_vars PROVE TypeOK'
  OBVIOUS
<1> USE BoundsAssumption, EventsAssumption
    DEF TypeOK, LogOK, RowsOK, SweepOK, Serials, log, rows, sweep
<1>1. CASE TerminalEmits
  BY <1>1 DEF TerminalEmits
<1>2. CASE RecentAges
  BY <1>2 DEF RecentAges
<1>3. CASE WindowAges
  BY <1>3 DEF WindowAges
<1>4. ASSUME NEW s \in Serials, Realtime(s) PROVE TypeOK'
  BY <1>4 DEF Realtime
<1>5. CASE ReadMaxSerial
  <2>1. maxSerial' = 0 \/ maxSerial' \in stored
    BY <1>5 DEF ReadMaxSerial
  <2>2. maxSerial' \in 0..terminal
    <3>1. \A s \in stored : s \in 0..terminal
      OBVIOUS
    <3>2. 0 \in 0..terminal
      OBVIOUS
    <3>3. CASE maxSerial' = 0
      BY <3>2, <3>3
    <3>4. CASE maxSerial' \in stored
      BY <3>1, <3>4
    <3> QED
      BY <2>1, <3>3, <3>4
  <2>3. UNCHANGED <<log, rows, cursor, horizon, pageNo, pageEnd, status, faults>>
        /\ pc' = "plan"
    BY <1>5 DEF ReadMaxSerial
  <2> QED
    BY <2>2, <2>3
<1>6. CASE Plan
  <2>1. cursor' \in 1..LastSerial + 1
    BY <1>6 DEF Plan, Larger
  <2> QED
    BY <1>6, <2>1 DEF Plan
<1>7. ASSUME NEW to \in {"idle", "backfill"}, LeavePages(to), UNCHANGED terminal
      PROVE  SweepOK'
  BY <1>7 DEF LeavePages
<1>8. CASE FetchPage
  <2>1. PICK last \in horizon..terminal :
           \/ cursor > last /\ LeavePages("backfill")
           \/ /\ cursor <= last
              /\ pageEnd' = Smaller(cursor + PageSize - 1, last)
              /\ status' = IF pageEnd' < last THEN "MORE" ELSE "OK"
              /\ pc' = "items"
              /\ UNCHANGED <<maxSerial, cursor, horizon, pageNo>>
    BY <1>8 DEF FetchPage
  <2>2. CASE LeavePages("backfill")
    BY <1>7, <1>8, <2>2 DEF FetchPage
  <2>3. CASE ~LeavePages("backfill")
    <3>1. /\ pageEnd' \in 0..terminal /\ cursor <= pageEnd'
          /\ status' \in {"MORE", "OK"}
      BY <2>1, <2>3 DEF Smaller
    <3> QED
      BY <1>8, <2>1, <2>3, <3>1 DEF FetchPage
  <2> QED
    BY <2>2, <2>3
<1>9. ASSUME pc = "items", Advance, UNCHANGED terminal PROVE SweepOK'
  <2>1. CASE LeavePages("backfill")
    BY <1>7, <1>9, <2>1
  <2> QED
    BY <1>9, <2>1 DEF Advance
<1>10. CASE HandleItem
  BY <1>10, <1>9 DEF HandleItem
<1>11. CASE PhotoFails
  BY <1>11, <1>9 DEF PhotoFails, NeedsDownload
<1>12. CASE HandlingBreaks
  BY <1>12, <1>7 DEF HandlingBreaks, NeedsDownload
<1>13. CASE PageFails
  BY <1>13, <1>7 DEF PageFails
<1>14. CASE FinishSweep
  BY <1>14, <1>7 DEF FinishSweep
<1>16. CASE Restart
  BY <1>16, <1>7 DEF Restart
<1>15. CASE UNCHANGED vars
  BY <1>15 DEF vars
<1> QED
  BY <1>1, <1>2, <1>3, <1>4, <1>5, <1>6, <1>8, <1>10, <1>11, <1>12, <1>13,
     <1>14, <1>15, <1>16 DEF Next, SweepOnlyNext, SweepStep, Environment

(* The sweep's state and the three row sets keep their types whatever the  *)
(* realtime path inserts between two awaits of _reconcile.                 *)
THEOREM TypeCorrect == Spec => []TypeOK
<1>1. Init => TypeOK
  BY BoundsAssumption DEF Init, TypeOK, LogOK, RowsOK, SweepOK
<1>2. TypeOK /\ [Next]_vars => TypeOK'
  BY TypeStep
<1> QED
  BY <1>1, <1>2, PTL DEF Spec

-----------------------------------------------------------------------------
(* Sweeps alone.  What makes NoGap inductive is SweepResumes: the sweep    *)
(* knows the true maximum until it has planned, and leaves nothing behind  *)
(* its cursor.                                                             *)
SweepInv == TypeOK /\ NoGap /\ SweepResumes

LEMMA SweepInit == Init => SweepInv
  BY BoundsAssumption DEF Init, SweepInv, TypeOK, LogOK, RowsOK, SweepOK, NoGap,
                          SweepResumes

(* Inserting the record at the cursor leaves nothing missing below it.     *)
LEMMA InsertAtCursor ==
    ASSUME SweepInv, pc = "items", UNCHANGED windowFrom,
           stored' = stored \cup {cursor}
    PROVE  NoGap' /\ \A s \in 1..cursor : Settled(s)'
<1> USE DEF SweepInv, TypeOK, LogOK, RowsOK, SweepOK, NoGap, SweepResumes, Settled
<1>1. \A s \in 1..cursor : Settled(s)'
  OBVIOUS
<1> QED
  BY <1>1

LEMMA SweepStepInv == SweepInv /\ [SweepOnlyNext]_vars => SweepInv'
<1> SUFFICES ASSUME SweepInv, [SweepOnlyNext]_vars PROVE SweepInv'
  OBVIOUS
<1>t. TypeOK'
  BY TypeStep DEF SweepInv, Next
<1> USE BoundsAssumption, EventsAssumption
    DEF SweepInv, TypeOK, LogOK, RowsOK, SweepOK, Serials, log, rows, sweep
<1>1. CASE /\ UNCHANGED <<stored, pc, maxSerial, cursor>>
           /\ windowFrom' >= windowFrom
  BY <1>1, <1>t DEF NoGap, SweepResumes, Settled
<1>2. CASE TerminalEmits \/ RecentAges \/ WindowAges
  BY <1>1, <1>2 DEF TerminalEmits, RecentAges, WindowAges
<1>3. CASE UNCHANGED <<stored, windowFrom>> /\ pc' \in {"idle", "backfill"}
  BY <1>3, <1>t DEF NoGap, SweepResumes, Settled
<1>4. CASE PageFails \/ FinishSweep \/ Restart
  BY <1>3, <1>4 DEF PageFails, FinishSweep, Restart, LeavePages
<1>5. CASE ReadMaxSerial
  BY <1>5, <1>t DEF ReadMaxSerial, NoGap, SweepResumes, Settled
<1>6. CASE Plan
  <2>1. PICK begin \in 1..LastSerial + 1 :
           BeginSerial(begin, maxSerial) /\ cursor' = Larger(begin, windowFrom)
    BY <1>6 DEF Plan
  <2>2. begin <= OverlapBegin(maxSerial)
    <3>1. maxSerial = 0 => MissingUrl = {}
      <4>1. \A s \in stored : s \in Int /\ s >= 1 /\ s <= maxSerial
        BY <1>6 DEF Plan, SweepResumes
      <4>2. maxSerial = 0 => stored = {}
        BY <4>1
      <4> QED
        BY <4>2 DEF MissingUrl
    <3>2. CASE MissingUrl = {}
      BY <2>1, <3>2 DEF BeginSerial, OverlapBegin, Larger
    <3>3. CASE maxSerial # 0 /\ MissingUrl # {}
      <4>1. PICK m \in MissingUrl :
               begin = Smaller(OverlapBegin(maxSerial), WidenedTo(m, maxSerial))
        BY <2>1, <3>3 DEF BeginSerial
      <4>2. m \in Int
        BY DEF MissingUrl
      <4> QED
        BY <4>1, <4>2, <3>3 DEF OverlapBegin, Larger, Smaller, WidenedTo
    <3> QED
      BY <3>1, <3>2, <3>3
  <2>3. \A s \in 1..cursor' - 1 : Settled(s)
    BY <1>6, <2>1, <2>2
    DEF Plan, SweepResumes, NoGap, Settled, OverlapBegin, Larger
  <2> QED
    BY <1>6, <1>t, <2>3 DEF Plan, NoGap, SweepResumes, Settled
<1>7. CASE FetchPage
  <2>1. CASE LeavePages("backfill")
    BY <1>3, <1>7, <2>1 DEF FetchPage, LeavePages
  <2>2. CASE ~LeavePages("backfill")
    BY <1>7, <1>t, <2>2 DEF FetchPage, NoGap, SweepResumes, Settled
  <2> QED
    BY <2>1, <2>2
<1>8. ASSUME pc = "items", Advance, UNCHANGED windowFrom,
             stored' = stored \cup {cursor}
      PROVE  NoGap' /\ SweepResumes'
  <2>1. NoGap' /\ \A s \in 1..cursor : Settled(s)'
    BY <1>8, InsertAtCursor
  <2>2. \/ pc' = "backfill"
        \/ pc' \in {"page", "items"} /\ cursor' = cursor + 1
    BY <1>8 DEF Advance, LeavePages
  <2>3. SweepResumes'
    BY <2>1, <2>2 DEF SweepResumes
  <2> QED
    BY <2>1, <2>3
<1>9. CASE HandleItem \/ PhotoFails
  BY <1>8, <1>9, <1>t DEF HandleItem, PhotoFails
<1>10. CASE HandlingBreaks
  <2>1. NoGap'
    BY <1>10, InsertAtCursor DEF HandlingBreaks
  <2> QED
    BY <1>10, <1>t, <2>1 DEF HandlingBreaks, LeavePages, SweepResumes
<1>11. CASE UNCHANGED vars
  BY <1>1, <1>11 DEF vars
<1> QED
  BY <1>2, <1>4, <1>5, <1>6, <1>7, <1>9, <1>10, <1>11
  DEF SweepOnlyNext, SweepStep, Environment

(* Resuming from the newest stored serial is sound while the realtime path *)
(* is down: however pages fail, photos break and Home Assistant restarts,  *)
(* no event inside the search window is ever missing below a stored one.   *)
THEOREM SweepsLeaveNoGap == SweepOnlySpec => []NoGap
<1>1. SweepInv => NoGap
  BY DEF SweepInv
<1> QED
  BY <1>1, SweepInit, SweepStepInv, PTL DEF SweepOnlySpec

-----------------------------------------------------------------------------
(* Sweeps with the realtime path.                                          *)

\* No realtime insert falls between the two queries of a sweep that found the
\* table empty.  If one does, that sweep begins at it and skips what is older.
QuietStart == pc = "plan" /\ maxSerial = 0 => stored' = stored

\* Why SkipsOnlyTheOld is inductive: what the first query returned is still a
\* row when the second has returned, although no longer the newest.
ReadTrue ==
    pc = "plan" => /\ maxSerial # 0 => maxSerial \in stored
                   /\ maxSerial = 0 => stored = {}

LiveInv == TypeOK /\ SkipsOnlyTheOld /\ ReadTrue

\* It may be passed over.
Passed(s) == Settled(s) \/ \E m \in stored : s <= m - SerialOverlap

\* Rows stay, and what has left the search window never returns to it.
LEMMA PassedStays ==
    ASSUME NEW s \in Int, Passed(s), stored \subseteq stored',
           windowFrom \in Int, windowFrom' \in Int, windowFrom <= windowFrom'
    PROVE  Passed(s)'
<1>1. CASE s \in stored
  BY <1>1 DEF Passed, Settled
<1>2. CASE s < windowFrom
  <2>1. s < windowFrom'
    BY <1>2
  <2> QED BY <2>1 DEF Passed, Settled
<1>3. CASE \E m \in stored : s <= m - SerialOverlap
  BY <1>3 DEF Passed
<1> QED BY <1>1, <1>2, <1>3 DEF Passed, Settled

\* A sweep begins no later than its overlap, whatever the missing photos say.
LEMMA BeginsInOverlap ==
    ASSUME TypeOK, ReadTrue, Plan,
           NEW begin \in 1..LastSerial + 1, BeginSerial(begin, maxSerial)
    PROVE  begin <= OverlapBegin(maxSerial)
<1> USE BoundsAssumption DEF TypeOK, LogOK, RowsOK, SweepOK
<1>1. pc = "plan" /\ maxSerial \in Int
  BY DEF Plan
<1>2. CASE MissingUrl = {}
  BY <1>1, <1>2 DEF BeginSerial, OverlapBegin, Larger
<1>3. CASE MissingUrl # {}
  <2>1. maxSerial # 0
    BY <1>1, <1>3 DEF ReadTrue, MissingUrl
  <2>2. PICK m \in MissingUrl :
           begin = Smaller(OverlapBegin(maxSerial), WidenedTo(m, maxSerial))
    BY <1>3, <2>1 DEF BeginSerial
  <2>3. m \in Int
    BY DEF MissingUrl
  <2> QED
    BY <1>1, <2>1, <2>2, <2>3 DEF OverlapBegin, Larger, Smaller, WidenedTo
<1> QED BY <1>2, <1>3

\* Every step of a sweep, every fault and every realtime insert keeps it.
LEMMA LiveStep == LiveInv /\ [Next]_vars /\ [QuietStart]_vars => LiveInv'
<1> SUFFICES ASSUME LiveInv, [Next]_vars, [QuietStart]_vars PROVE LiveInv'
  OBVIOUS
<1>0. TypeOK /\ SkipsOnlyTheOld /\ ReadTrue
  BY DEF LiveInv
<1>t. TypeOK'
  BY <1>0, TypeStep
<1>a. /\ windowFrom \in Int /\ windowFrom' \in Int /\ cursor \in Int
      /\ cursor >= 1 /\ maxSerial \in Int /\ maxSerial >= 0
  BY <1>0, <1>t DEF TypeOK, LogOK, SweepOK
<1>b. stored \subseteq Int /\ \A s \in stored : s >= 1
  BY <1>0, <1>a DEF TypeOK, LogOK, RowsOK
<1>c. pc \in {"page", "items"} => \A s \in 1..cursor - 1 : Passed(s)
  BY <1>0 DEF SkipsOnlyTheOld, Passed
<1> USE DEF log, rows, sweep
\* Steps with which the sweep moves on by a record at most.
<1>1. ASSUME pc \in {"page", "items"}, stored \subseteq stored',
             windowFrom <= windowFrom', pc' # "plan",
             \/ pc' \notin {"page", "items"}
             \/ cursor' = cursor
             \/ cursor' = cursor + 1 /\ cursor \in stored'
      PROVE  LiveInv'
  <2>1. ASSUME pc' \in {"page", "items"}, NEW s \in 1..cursor' - 1
        PROVE  Passed(s)'
    <3>1. CASE s \in 1..cursor - 1
      BY <1>1, <1>a, <1>c, <3>1, PassedStays
    <3>2. CASE s \notin 1..cursor - 1
      <4>1. s = cursor /\ cursor \in stored'
        BY <1>1, <1>a, <2>1, <3>2
      <4> QED BY <4>1 DEF Passed, Settled
    <3> QED BY <3>1, <3>2
  <2>2. SkipsOnlyTheOld' /\ ReadTrue'
    BY <1>1, <2>1 DEF SkipsOnlyTheOld, Passed, ReadTrue
  <2> QED BY <1>t, <2>2 DEF LiveInv
\* Steps that are not the sweep's.
<1>2. ASSUME UNCHANGED sweep, stored \subseteq stored',
             windowFrom <= windowFrom',
             pc = "plan" /\ maxSerial = 0 => stored' = stored
      PROVE  LiveInv'
  <2>1. ASSUME pc' \in {"page", "items"}, NEW s \in 1..cursor' - 1
        PROVE  Passed(s)'
    BY <1>2, <1>a, <1>c, <2>1, PassedStays
  <2>2. SkipsOnlyTheOld'
    BY <2>1 DEF SkipsOnlyTheOld, Passed
  <2>3. ReadTrue'
    BY <1>0, <1>2 DEF ReadTrue
  <2> QED BY <1>t, <2>2, <2>3 DEF LiveInv
\* Steps after which no sweep is under way.
<1>3. ASSUME pc' \in {"idle", "backfill"} PROVE LiveInv'
  BY <1>3, <1>t DEF LiveInv, SkipsOnlyTheOld, ReadTrue
<1>4. CASE TerminalEmits \/ RecentAges \/ WindowAges
  BY <1>2, <1>4, <1>a DEF TerminalEmits, RecentAges, WindowAges
<1>5. ASSUME NEW s \in Serials, Realtime(s) PROVE LiveInv'
  <2>1. /\ UNCHANGED sweep /\ stored \subseteq stored'
        /\ windowFrom' = windowFrom /\ s \in stored' /\ s \notin stored
    BY <1>5 DEF Realtime
  <2>2. QuietStart
    BY <2>1 DEF vars
  <2> QED BY <1>2, <1>a, <2>1, <2>2 DEF QuietStart
<1>6. CASE ReadMaxSerial
  <2>1. /\ pc' = "plan" /\ stored' = stored
        /\ \/ stored = {} /\ maxSerial' = 0
           \/ maxSerial' \in stored
    BY <1>6 DEF ReadMaxSerial
  <2>2. SkipsOnlyTheOld' /\ ReadTrue'
    BY <1>b, <2>1 DEF SkipsOnlyTheOld, ReadTrue
  <2> QED BY <1>t, <2>2 DEF LiveInv
<1>7. CASE Plan
  <2>1. PICK begin \in 1..LastSerial + 1 :
           BeginSerial(begin, maxSerial) /\ cursor' = Larger(begin, windowFrom)
    BY <1>7 DEF Plan
  <2>2. begin <= OverlapBegin(maxSerial)
    BY <1>0, <1>7, <2>1, BeginsInOverlap
  <2>3. /\ pc = "plan" /\ pc' = "page" /\ stored' = stored
        /\ windowFrom' = windowFrom
    BY <1>7 DEF Plan
  <2>4. ASSUME NEW s \in 1..cursor' - 1 PROVE Passed(s)'
    <3>1. s < begin \/ s < windowFrom
      BY <1>a, <2>1, <2>4, BoundsAssumption DEF Larger
    <3>2. CASE s < windowFrom
      BY <2>3, <3>2 DEF Passed, Settled
    <3>3. CASE s < begin
      <4>1. maxSerial # 0 /\ s <= maxSerial - SerialOverlap
        BY <1>a, <2>2, <2>4, <3>3, BoundsAssumption DEF OverlapBegin, Larger
      <4>2. maxSerial \in stored'
        BY <1>0, <2>3, <4>1 DEF ReadTrue
      <4> QED BY <4>1, <4>2 DEF Passed
    <3> QED BY <3>1, <3>2, <3>3
  <2>5. SkipsOnlyTheOld' /\ ReadTrue'
    BY <2>3, <2>4 DEF SkipsOnlyTheOld, Passed, ReadTrue
  <2> QED BY <1>t, <2>5 DEF LiveInv
<1>8. CASE FetchPage
  <2>1. /\ pc = "page" /\ UNCHANGED <<stored, windowFrom>>
        /\ pc' = "backfill" \/ (pc' = "items" /\ cursor' = cursor)
    BY <1>8 DEF FetchPage, LeavePages
  <2> QED BY <1>1, <1>a, <2>1
<1>9. CASE HandleItem \/ PhotoFails
  <2>1. pc = "items" /\ stored' = stored \cup {cursor} /\ Advance
        /\ windowFrom' = windowFrom
    BY <1>9 DEF HandleItem, PhotoFails
  <2>2. \/ pc' = "backfill"
        \/ pc' \in {"page", "items"} /\ cursor' = cursor + 1
    BY <2>1 DEF Advance, LeavePages
  <2>3. stored \subseteq stored' /\ cursor \in stored' /\ pc' # "plan"
    BY <2>1, <2>2
  <2> QED BY <1>1, <1>a, <2>1, <2>2, <2>3
<1>10. CASE PageFails \/ HandlingBreaks \/ FinishSweep \/ Restart
  BY <1>3, <1>10
  DEF PageFails, HandlingBreaks, FinishSweep, Restart, LeavePages
<1>11. CASE UNCHANGED vars
  BY <1>2, <1>11, <1>a DEF vars
<1> QED
  BY <1>4, <1>5, <1>6, <1>7, <1>8, <1>9, <1>10, <1>11
  DEF Next, SweepOnlyNext, SweepStep, Environment

(* event_reconciler.py:91: the overlap is looked at again by every sweep,  *)
(* however many live rows are inserted between and during its queries and  *)
(* pages; an event is passed over for its age only, unless a live row      *)
(* comes between the two queries of a sweep of an empty table.             *)
THEOREM OverlapIsSwept == Spec /\ [][QuietStart]_vars => []SkipsOnlyTheOld
<1>1. Init => LiveInv
  BY BoundsAssumption
  DEF Init, LiveInv, TypeOK, LogOK, RowsOK, SweepOK, SkipsOnlyTheOld, ReadTrue
<1>2. LiveInv => SkipsOnlyTheOld
  BY DEF LiveInv
<1> QED
  BY <1>1, <1>2, LiveStep, PTL DEF Spec

=============================================================================
