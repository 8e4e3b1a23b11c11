----------------------------- MODULE PushProofs -----------------------------
(***************************************************************************)
(* What is proved of the push route: of the slots of a terminal that point *)
(* it at this Home Assistant (second part), and of the webhook's queue.    *)
(*                                                                         *)
(* The push queue's promises for any number of terminals, loads and posts: *)
(* events of loaded gateways are attended, one is handled at a time, and   *)
(* an unload cancels nobody else's.  The inductive invariant adds that no  *)
(* post was resolved to a gateway that is yet to come: a gateway that was  *)
(* unloaded is never the current one again.                                *)
(***************************************************************************)
EXTENDS PushSlots, PushView, TLAPS

\* No post holds a gateway of a later load.
TargetsPast ==
    \A k \in Posts : target[k] # <<>> => target[k][2] <= loads[target[k][1]]

PushInv == TypeOK /\ TargetsPast /\ Attended /\ OneAtATime /\ OthersUnharmed

\* What is loaded after a step was loaded before it, but for a registration.
LEMMA LoadedBefore ==
    ASSUME TypeOK, NEW k \in Posts,
           UNCHANGED <<loads, target>>,
           \A t \in Terminals : entry'[t] = "in" => entry[t] = "in",
           Loaded(k)'
    PROVE  Loaded(k)
BY DEF TypeOK, Loaded, Current, Gateways

\* A registration loads no gateway that some post holds.
LEMMA RegisterLoadsNobody ==
    ASSUME TypeOK, TargetsPast, NEW t \in Terminals, Register(t),
           NEW k \in Posts, Loaded(k)'
    PROVE  Loaded(k)
BY PushViewAssumption DEF TypeOK, TargetsPast, Register, Loaded, Current, Gateways

LEMMA InitInv == Init => PushInv
BY PushViewAssumption DEF Init, PushInv, TypeOK, TargetsPast, Attended,
   OneAtATime, OthersUnharmed, InLine, Waiting, Ended, Gateways, Posts

LEMMA TypeStep == TypeOK /\ [Next]_vars => TypeOK'
<1> SUFFICES ASSUME TypeOK, [Next]_vars PROVE TypeOK'
  OBVIOUS
<1> USE PushViewAssumption DEF TypeOK, setups
<1>1. ASSUME NEW t \in Terminals, Register(t) PROVE TypeOK'
  BY <1>1 DEF Register
<1>2. ASSUME NEW t \in Terminals, Unregister(t) PROVE TypeOK'
  BY <1>2 DEF Unregister, CancelWorker, Ended
<1>3. ASSUME NEW t \in Terminals, Close(t) PROVE TypeOK'
  BY <1>3 DEF Close
<1>4. CASE Restart
  BY <1>4 DEF Restart, Ended
<1>5. ASSUME NEW t \in Terminals, NEW k \in Posts, Post(t, k) PROVE TypeOK'
  <2>1. <<t, loads[t]>> \in Gateways
    BY DEF Gateways
  <2>2. target' \in [Posts -> Gateways \cup {<<>>}]
    BY <1>5, <2>1 DEF Post
  <2>3. state' \in [Posts -> Waiting \cup Ended]
    BY <1>5 DEF Post, Waiting, Ended
  <2> QED BY <1>5, <2>2, <2>3 DEF Post
<1>6. ASSUME NEW k \in Posts, Ignore(k) PROVE TypeOK'
  BY <1>6 DEF Ignore, Ended
<1>7. ASSUME NEW k \in Posts, Enqueue(k) PROVE TypeOK'
  <2>1. worker' \in {"none", "get", "busy"}
    BY <1>7 DEF Enqueue, EnsureWorker
  <2>2. state' \in [Posts -> Waiting \cup Ended]
    BY <1>7 DEF Enqueue, Waiting, Ended
  <2>3. queue' \in Seq(Posts) /\ Len(queue') <= QueueMax
    <3>1. /\ Append(queue, k) \in Seq(Posts)
          /\ Len(Append(queue, k)) = Len(queue) + 1
      OBVIOUS
    <3>2. Len(queue) \in Nat
      OBVIOUS
    <3>3. CASE Len(queue) < QueueMax /\ queue' = Append(queue, k)
      BY <3>1, <3>2, <3>3
    <3>4. CASE UNCHANGED queue
      BY <3>4
    <3> QED BY <1>7, <3>3, <3>4 DEF Enqueue
  <2> QED BY <1>7, <2>1, <2>2, <2>3 DEF Enqueue
<1>8. CASE Take
  BY <1>8 DEF Take, Waiting
<1>9. ASSUME NEW k \in Posts, Handled(k) PROVE TypeOK'
  BY <1>9 DEF Handled, Ended
<1>10. CASE UNCHANGED vars
  BY <1>10 DEF vars
<1> QED BY <1>1, <1>2, <1>3, <1>4, <1>5, <1>6, <1>7, <1>8, <1>9, <1>10 DEF Next

LEMMA InvStep == PushInv /\ [Next]_vars => PushInv'
<1> SUFFICES ASSUME PushInv, [Next]_vars PROVE PushInv'
  OBVIOUS
<1>0. TypeOK /\ TypeOK'
  BY TypeStep DEF PushInv
<1> USE DEF PushInv
<1>1. ASSUME NEW t \in Terminals, Register(t) PROVE PushInv'
  <2>1. TargetsPast'
    BY <1>0, <1>1 DEF TypeOK, TargetsPast, Register, Gateways
  <2>2. \A k \in Posts : Loaded(k)' => Loaded(k)
    BY <1>0, <1>1, RegisterLoadsNobody
  <2> QED
    BY <1>0, <1>1, <2>1, <2>2
    DEF Register, Attended, OneAtATime, OthersUnharmed, InLine
<1>2. ASSUME NEW t \in Terminals, Unregister(t) PROVE PushInv'
  <2>1. \A k \in Posts : Loaded(k)' => Loaded(k)
    BY <1>0, <1>2, LoadedBefore DEF Unregister, TypeOK
  <2>2. TargetsPast'
    BY <1>2 DEF TargetsPast, Unregister
  <2>3. CASE Registered = {t} /\ CancelWorker
    <3>1. \A k \in Posts : ~ Loaded(k)'
      BY <1>0, <1>2, <2>3
      DEF Unregister, TypeOK, Registered, Loaded, Current, Gateways
    <3>2. worker' = "none" /\ \A k \in Posts : state'[k] # "handling"
      BY <2>3 DEF CancelWorker
    <3> QED
      BY <1>0, <2>2, <3>1, <3>2 DEF Attended, OneAtATime, OthersUnharmed
  <2>4. CASE UNCHANGED <<worker, state>>
    BY <1>0, <2>1, <2>2, <2>4 DEF Attended, OneAtATime, OthersUnharmed, InLine
  <2> QED BY <1>2, <2>3, <2>4 DEF Unregister
<1>3. ASSUME NEW t \in Terminals, Close(t) PROVE PushInv'
  <2>1. \A k \in Posts : Loaded(k)' => Loaded(k)
    BY <1>0, <1>3, LoadedBefore DEF Close, TypeOK
  <2> QED
    BY <1>0, <1>3, <2>1
    DEF Close, TargetsPast, Attended, OneAtATime, OthersUnharmed, InLine
<1>4. CASE Restart
  <2>1. \A k \in Posts : ~ Loaded(k)'
    BY <1>0, <1>4 DEF Restart, TypeOK, Loaded, Current, Gateways
  <2>2. worker' = "none" /\ \A k \in Posts : state'[k] # "handling"
    BY <1>0, <1>4 DEF Restart
  <2>3. TargetsPast'
    BY <1>4 DEF Restart, TargetsPast
  <2> QED
    BY <1>0, <2>1, <2>2, <2>3 DEF Attended, OneAtATime, OthersUnharmed
<1>5. ASSUME NEW t \in Terminals, NEW k \in Posts, Post(t, k) PROVE PushInv'
  <2>1. TargetsPast'
    BY <1>0, <1>5 DEF Post, TargetsPast, TypeOK, setups
  <2>2. \A j \in Posts \ {k} : Loaded(j)' => Loaded(j)
    BY <1>0, <1>5 DEF Post, TypeOK, Loaded, Current, setups
  <2>3. /\ worker' = worker
        /\ state[k] = "none" /\ state'[k] \in {"reading", "refused"}
        /\ \A j \in Posts \ {k} : state'[j] = state[j]
    BY <1>0, <1>5 DEF Post, TypeOK
  <2>4. Attended'
    BY <2>2, <2>3 DEF Attended, InLine
  <2>5. OneAtATime'
    BY <2>2, <2>3 DEF OneAtATime
  <2>6. OthersUnharmed'
    BY <2>2, <2>3 DEF OthersUnharmed
  <2> QED BY <1>0, <2>1, <2>4, <2>5, <2>6
<1>6. ASSUME NEW k \in Posts, Ignore(k) PROVE PushInv'
  BY <1>0, <1>6
  DEF Ignore, TypeOK, setups, TargetsPast, Attended, OneAtATime,
      OthersUnharmed, InLine, Loaded, Current
<1>7. ASSUME NEW k \in Posts, Enqueue(k) PROVE PushInv'
  <2>1. /\ UNCHANGED <<entry, loads, target>>
        /\ state[k] = "reading" /\ state'[k] \in {"queued", "dropped"}
        /\ \A j \in Posts \ {k} : state'[j] = state[j]
    BY <1>0, <1>7 DEF Enqueue, TypeOK, setups
  <2>2. worker' # "none" /\ (worker' = "busy" <=> worker = "busy")
    BY <1>0, <1>7 DEF Enqueue, EnsureWorker, TypeOK
  <2> QED
    BY <1>0, <2>1, <2>2
    DEF TargetsPast, Attended, OneAtATime, OthersUnharmed, InLine, Loaded,
        Current
<1>8. CASE Take
  <2> DEFINE k == Head(queue)
  <2>1. k \in Posts
    BY <1>0, <1>8 DEF Take, TypeOK
  <2>2. /\ UNCHANGED <<entry, loads, target>>
        /\ worker = "get" /\ worker' = "busy" /\ state'[k] = "handling"
        /\ \A j \in Posts \ {k} : state'[j] = state[j]
    BY <1>0, <1>8, <2>1 DEF Take, TypeOK, setups
  <2> HIDE DEF k
  <2>3. \A j \in Posts : state[j] # "handling"
    BY <2>2 DEF OneAtATime
  <2> QED
    BY <1>0, <2>1, <2>2, <2>3
    DEF TargetsPast, Attended, OneAtATime, OthersUnharmed, Loaded, Current
<1>9. ASSUME NEW k \in Posts, Handled(k) PROVE PushInv'
  <2>1. /\ UNCHANGED <<entry, loads, target>> /\ worker' = "get"
        /\ state[k] = "handling" /\ state'[k] \in {"handled", "failed"}
        /\ \A j \in Posts \ {k} : state'[j] = state[j]
    BY <1>0, <1>9 DEF Handled, TypeOK, setups
  <2>2. \A j \in Posts : state'[j] # "handling"
    BY <2>1 DEF OneAtATime
  <2> QED
    BY <1>0, <2>1, <2>2
    DEF TargetsPast, Attended, OneAtATime, OthersUnharmed, Loaded, Current
<1>10. CASE UNCHANGED vars
  BY <1>0, <1>10
  DEF vars, setups, TargetsPast, Attended, OneAtATime, OthersUnharmed, InLine,
      Loaded, Current
<1> QED
  BY <1>1, <1>2, <1>3, <1>4, <1>5, <1>6, <1>7, <1>8, <1>9, <1>10 DEF Next

LEMMA DropStep ==
    ASSUME TypeOK, [Next]_vars, NEW k \in Posts,
           state[k] # "dropped", state'[k] = "dropped"
    PROVE  worker' # "none"
<1>1. ASSUME NEW j \in Posts, Enqueue(j) PROVE worker' # "none"
  BY <1>1 DEF Enqueue, EnsureWorker
<1>2. ASSUME NEW t \in Terminals,
             Register(t) \/ Unregister(t) \/ Close(t)
      PROVE  FALSE
  BY <1>2 DEF TypeOK, Register, Unregister, CancelWorker, Close
<1>3. ASSUME NEW t \in Terminals, NEW j \in Posts, Post(t, j) PROVE FALSE
  BY <1>3 DEF TypeOK, Post
<1>4. ASSUME NEW j \in Posts, Ignore(j) \/ Handled(j) PROVE FALSE
  BY <1>4 DEF TypeOK, Ignore, Handled
<1>5. ~ Take
  <2>1. Take => state'[k] \in {state[k], "handling"}
    BY DEF TypeOK, Take
  <2> QED BY <2>1
<1>6. ~ Restart /\ ~ UNCHANGED vars
  BY DEF TypeOK, Restart, vars
<1> QED BY <1>1, <1>2, <1>3, <1>4, <1>5, <1>6 DEF Next

LEMMA Invariance == Spec => []PushInv
BY InitInv, InvStep, PTL DEF Spec

\* The target table, the queue and the posts keep their shape; the queue never
\* exceeds its bound.
THEOREM TypeCorrect == Spec => []TypeOK
<1>1. PushInv => TypeOK
  BY DEF PushInv
<1> QED BY <1>1, Invariance, PTL

\* push.py: events in line for a loaded terminal always have a worker.
THEOREM QueueAttended == Spec => []Attended
<1>1. PushInv => Attended
  BY DEF PushInv
<1> QED BY <1>1, Invariance, PTL

\* push.py:52: one event at a time, by one worker, over all cancellations.
THEOREM SingleWorker == Spec => []OneAtATime
<1>1. PushInv => OneAtATime
  BY DEF PushInv
<1> QED BY <1>1, Invariance, PTL

\* unregister_target: the unload of one terminal cancels no event of another.
THEOREM UnloadIsLocal == Spec => []OthersUnharmed
<1>1. PushInv => OthersUnharmed
  BY DEF PushInv
<1> QED BY <1>1, Invariance, PTL

\* post(): the worker is started before the queue may refuse the event.
THEOREM DropsAreAttended == Spec => DropHasWorker
<1>1. TypeOK /\ [Next]_vars
        => [\A k \in Posts : state[k] # "dropped" /\ state'[k] = "dropped"
                => worker' # "none"]_vars
  BY DropStep
<1>2. PushInv => TypeOK
  BY DEF PushInv
<1> QED BY <1>1, <1>2, Invariance, PTL DEF Spec, DropHasWorker


-----------------------------------------------------------------------------
(* The push slots of one terminal, for any number of entries and slots.    *)
(*                                                                         *)
(* The realtime path is kept because the record is true: while nothing     *)
(* overlaps and no answer is lost, a recorded slot of a live entry pushes  *)
(* to it, and the listener is left out only when there is a record.  That  *)
(* the record is complete needs more: nobody else empties a slot, so that  *)
(* everything below the one slot of ours stays taken and each claim comes  *)
(* back to it.                                                             *)

Lives  == {"absent", "setup", "loaded", "removing"} \cup Gone
Phases ==
    {"idle", "begin", "claim", "put", "answer", "finish",
     "release", "empty", "released"}

\* What async_update_entry and the reload it may cause leave behind.
LEMMA UpdateTypes ==
    ASSUME SlotsTypeOK, NEW i \in Entries, NEW c \in Callers,
           NEW slot \in Slots \cup {NoSlot}, NEW next \in Phases,
           Update(i, c, slot, next)
    PROVE  /\ dataSlot' \in [Entries -> Slots \cup {NoSlot}]
           /\ life' \in [Entries -> Lives]
           /\ streaming' \in SUBSET Entries
           /\ pc' \in [Entries -> [Callers -> Phases]]
           /\ options' = options
<1> USE DEF SlotsTypeOK, Phases, Lives, Callers
<1>1. CASE life[i] = "loaded" /\ slot # dataSlot[i]
  <2>1. /\ dataSlot' = [dataSlot EXCEPT ![i] = slot]
        /\ options' = options
        /\ life' = [life EXCEPT ![i] = "setup"]
        /\ streaming' = streaming \ {i}
    BY <1>1 DEF Update
  <2>2. pc' = [[pc EXCEPT ![i][c] = next] EXCEPT ![i]["entry"] = "begin"]
    BY <1>1 DEF Update
  <2>3. [pc EXCEPT ![i][c] = next] \in [Entries -> [Callers -> Phases]]
    OBVIOUS
  <2>4. pc' \in [Entries -> [Callers -> Phases]]
    BY <2>2, <2>3
  <2> QED BY <2>1, <2>4
<1>2. CASE ~(life[i] = "loaded" /\ slot # dataSlot[i])
  BY <1>2 DEF Update
<1> QED BY <1>1, <1>2

\* Every step, whatever overlaps or is lost, keeps the types.
LEMMA SlotsTypeStep == SlotsTypeOK /\ [SlotsNext]_slotsVars => SlotsTypeOK'
<1> SUFFICES ASSUME SlotsTypeOK, [SlotsNext]_slotsVars PROVE SlotsTypeOK'
  OBVIOUS
<1> USE SlotsAssumption DEF SlotsTypeOK, data, Gone, Fault, Callers, Phases,
        Lives
<1>1. ASSUME NEW i \in Entries, Add(i) PROVE SlotsTypeOK'
  BY <1>1 DEF Add
<1>2. ASSUME NEW i \in Entries, Begin(i) PROVE SlotsTypeOK'
  BY <1>2 DEF Begin
<1>3. ASSUME NEW i \in Entries, Finish(i) PROVE SlotsTypeOK'
  BY <1>3 DEF Finish
<1>4. ASSUME NEW i \in Entries, Reload(i) PROVE SlotsTypeOK'
  BY <1>4 DEF Reload
<1>5. ASSUME NEW i \in Entries, Remove(i) PROVE SlotsTypeOK'
  <2>1. CASE dataSlot[i] = NoSlot
    BY <1>5, <2>1 DEF Remove
  <2>2. CASE dataSlot[i] # NoSlot
    <3>1. /\ streaming' = streaming \ {i}
          /\ life' = [life EXCEPT ![i] = "removing"]
          /\ pc' = [pc EXCEPT ![i]["entry"] = "release"]
          /\ chosen' = [chosen EXCEPT ![i]["entry"] = dataSlot[i]]
          /\ UNCHANGED <<slots, data, decided, faults>>
      BY <1>5, <2>2 DEF Remove
    <3> QED BY <3>1
  <2> QED BY <2>1, <2>2
<1>6. ASSUME NEW i \in Entries, SetupPush(i) PROVE SlotsTypeOK'
  BY <1>6 DEF SetupPush
<1>7. ASSUME NEW i \in Entries, RemovePush(i) PROVE SlotsTypeOK'
  BY <1>7 DEF RemovePush
<1>8. ASSUME NEW i \in Entries, NEW c \in Callers, Choose(i, c)
      PROVE SlotsTypeOK'
  <2>1. CASE \E s \in Slots : /\ chosen' = [chosen EXCEPT ![i][c] = s]
                             /\ pc' = [pc EXCEPT ![i][c] = "put"]
    BY <1>8, <2>1 DEF Choose
  <2>2. CASE pc' = [pc EXCEPT ![i][c] = AfterClaim(c)] /\ UNCHANGED chosen
    BY <1>8, <2>2 DEF Choose, AfterClaim
  <2> QED BY <1>8, <2>1, <2>2 DEF Choose
<1>9. ASSUME NEW i \in Entries, NEW c \in Callers, Put(i, c)
      PROVE SlotsTypeOK'
  BY <1>9 DEF Put
<1>10. ASSUME NEW i \in Entries, NEW c \in Callers, Claimed(i, c)
      PROVE SlotsTypeOK'
  BY <1>10, UpdateTypes DEF Claimed, AfterClaim
<1>11. ASSUME NEW i \in Entries, NEW c \in Callers, ClaimFails(i, c)
      PROVE SlotsTypeOK'
  BY <1>11 DEF ClaimFails, AfterClaim
<1>12. ASSUME NEW i \in Entries, NEW c \in Callers, CheckOurs(i, c)
      PROVE SlotsTypeOK'
  BY <1>12 DEF CheckOurs
<1>13. ASSUME NEW i \in Entries, NEW c \in Callers, PutEmpty(i, c)
      PROVE SlotsTypeOK'
  BY <1>13 DEF PutEmpty
<1>14. ASSUME NEW i \in Entries, NEW c \in Callers, Released(i, c)
      PROVE SlotsTypeOK'
  <2>1. CASE c = "service"
    <3>1. Update(i, c, NoSlot, "idle")
      BY <1>14, <2>1 DEF Released
    <3>2. /\ chosen' = [chosen EXCEPT ![i][c] = NoSlot]
          /\ UNCHANGED <<slots, decided, faults>>
      BY <1>14 DEF Released
    <3>4. NoSlot \in Slots \cup {NoSlot} /\ "idle" \in Phases
      OBVIOUS
    <3>3. /\ dataSlot' \in [Entries -> Slots \cup {NoSlot}]
          /\ life' \in [Entries -> Lives]
          /\ streaming' \in SUBSET Entries
          /\ pc' \in [Entries -> [Callers -> Phases]]
          /\ options' = options
      BY <3>1, <3>4, UpdateTypes
    <3> QED BY <3>2, <3>3
  <2>2. CASE c = "entry"
    <3>1. /\ chosen' = [chosen EXCEPT ![i][c] = NoSlot]
          /\ life' = [life EXCEPT ![i] = "removed"]
          /\ pc' = [pc EXCEPT ![i][c] = "idle"]
          /\ UNCHANGED <<data, streaming, slots, decided, faults>>
      BY <1>14, <2>2 DEF Released
    <3> QED BY <3>1
  <2> QED BY <2>1, <2>2
<1>15. ASSUME NEW i \in Entries, NEW c \in Callers, ReleaseFails(i, c)
      PROVE SlotsTypeOK'
  BY <1>15 DEF ReleaseFails
<1>16. ASSUME NEW s \in Slots, Foreign(s) PROVE SlotsTypeOK'
  BY <1>16 DEF Foreign
<1>17. CASE UNCHANGED slotsVars
  BY <1>17 DEF slotsVars
<1> HIDE DEF SlotsTypeOK, data, Gone, Fault, Callers, Phases, Lives
<1> QED
  BY <1>1, <1>2, <1>3, <1>4, <1>5, <1>6, <1>7, <1>8, <1>9, <1>10, <1>11,
     <1>12, <1>13, <1>14, <1>15, <1>16, <1>17 DEF SlotsNext, Call

Up           == {"setup", "loaded", "removing"}
SetupSteps   == {"begin", "claim", "put", "answer", "finish"}
ReleaseSteps == {"release", "empty", "released"}
ServiceSteps == {"claim", "put", "answer"} \cup ReleaseSteps

\* Setup, removal and services of an entry take turns.
OneAtWork ==
    \A i \in Entries :
        /\ life[i] = "setup" <=> pc[i]["entry"] \in SetupSteps
        /\ life[i] = "removing" <=> pc[i]["entry"] \in ReleaseSteps
        /\ pc[i]["service"] # "idle" =>
            life[i] = "loaded" /\ pc[i]["service"] \in ServiceSteps

\* An integration is added again after the old entry is gone.
Alone == \A i, j \in Entries : life[i] \in Up /\ life[j] \in Up => i = j

\* What a caller works on; the slot whose answer is due pushes to it already.
ChosenSlot ==
    \A i \in Entries, c \in Callers :
        /\ pc[i][c] \in {"put", "answer"} \cup ReleaseSteps
              => chosen[i][c] \in Slots
        /\ pc[i][c] \in ReleaseSteps => chosen[i][c] = dataSlot[i]
        /\ pc[i][c] = "answer" => slots[chosen[i][c]] = i

\* An entry starts without a record.
FreshRecord == \A i \in Entries : life[i] = "absent" => dataSlot[i] = NoSlot

\* The recorded slot pushes to the entry until it has been emptied.
RecordTrue ==
    \A i \in Entries :
        (/\ life[i] \in {"setup", "loaded"}
         /\ dataSlot[i] # NoSlot
         /\ pc[i]["service"] # "released")
            => slots[dataSlot[i]] = i

\* Without a record the setup has decided for the listener.
StreamOrRecord ==
    \A i \in Entries :
        /\ (life[i] = "setup" /\ pc[i]["entry"] # "begin" /\ i \notin decided)
              => dataSlot[i] # NoSlot
        /\ (life[i] = "loaded" /\ i \notin streaming) => dataSlot[i] # NoSlot

SlotsPathInv ==
    /\ SlotsTypeOK /\ OneAtWork /\ Alone
    /\ ChosenSlot /\ FreshRecord /\ RecordTrue /\ StreamOrRecord

\* With no overlap each task of an entry waits for the other.
LEMMA OneAtWorkStep ==
    ASSUME OneInstallation, ~Overlap, SlotsTypeOK, OneAtWork, Alone,
           [SlotsNext]_slotsVars
    PROVE  OneAtWork' /\ Alone'
<1> USE DEF SlotsTypeOK, OneAtWork, Alone, Up, SetupSteps, ReleaseSteps,
        ServiceSteps, data, Gone, Callers, MayAct, Quiet
<1>1. ASSUME NEW i \in Entries, Add(i) PROVE OneAtWork' /\ Alone'
  BY <1>1 DEF Add
<1>2. ASSUME NEW i \in Entries, Begin(i) PROVE OneAtWork' /\ Alone'
  BY <1>2 DEF Begin
<1>3. ASSUME NEW i \in Entries, Finish(i) PROVE OneAtWork' /\ Alone'
  BY <1>3 DEF Finish
<1>4. ASSUME NEW i \in Entries, Reload(i) PROVE OneAtWork' /\ Alone'
  BY <1>4 DEF Reload
<1>5. ASSUME NEW i \in Entries, Remove(i) PROVE OneAtWork' /\ Alone'
  <2>1. CASE dataSlot[i] = NoSlot
    BY <1>5, <2>1 DEF Remove
  <2>2. CASE dataSlot[i] # NoSlot
    <3>1. /\ pc' = [pc EXCEPT ![i]["entry"] = "release"]
          /\ chosen' = [chosen EXCEPT ![i]["entry"] = dataSlot[i]]
          /\ life' = [life EXCEPT ![i] = "removing"]
          /\ pc[i]["entry"] = "idle" /\ pc[i]["service"] = "idle"
          /\ life[i] = "loaded"
          /\ UNCHANGED <<slots, dataSlot>>
      BY <1>5, <2>2 DEF Remove
    <3> QED BY <3>1, <2>2
  <2> QED BY <2>1, <2>2
<1>6. ASSUME NEW i \in Entries, SetupPush(i) PROVE OneAtWork' /\ Alone'
  BY <1>6 DEF SetupPush
<1>7. ASSUME NEW i \in Entries, RemovePush(i) PROVE OneAtWork' /\ Alone'
  BY <1>7 DEF RemovePush
<1>8. ASSUME NEW i \in Entries, NEW c \in Callers, Choose(i, c)
      PROVE OneAtWork' /\ Alone'
  BY <1>8 DEF Choose, AfterClaim
<1>9. ASSUME NEW i \in Entries, NEW c \in Callers, Put(i, c)
      PROVE OneAtWork' /\ Alone'
  BY <1>9 DEF Put
<1>10. ASSUME NEW i \in Entries, NEW c \in Callers, Claimed(i, c)
      PROVE OneAtWork' /\ Alone'
  BY <1>10 DEF Claimed, Update, AfterClaim
<1>11. ASSUME NEW i \in Entries, NEW c \in Callers, ClaimFails(i, c)
      PROVE OneAtWork' /\ Alone'
  BY <1>11 DEF ClaimFails, AfterClaim
<1>12. ASSUME NEW i \in Entries, NEW c \in Callers, CheckOurs(i, c)
      PROVE OneAtWork' /\ Alone'
  BY <1>12 DEF CheckOurs
<1>13. ASSUME NEW i \in Entries, NEW c \in Callers, PutEmpty(i, c)
      PROVE OneAtWork' /\ Alone'
  BY <1>13 DEF PutEmpty
<1>14. ASSUME NEW i \in Entries, NEW c \in Callers, Released(i, c)
      PROVE OneAtWork' /\ Alone'
  <2>1. CASE c = "service"
    BY <1>14, <2>1 DEF Released, Update
  <2>2. CASE c = "entry"
    <3>1. /\ life' = [life EXCEPT ![i] = "removed"]
          /\ pc' = [pc EXCEPT ![i][c] = "idle"]
          /\ pc[i][c] = "released"
      BY <1>14, <2>2 DEF Released
    <3> QED BY <3>1, <2>2
  <2> QED BY <2>1, <2>2
<1>15. ASSUME NEW i \in Entries, NEW c \in Callers, ReleaseFails(i, c)
      PROVE OneAtWork' /\ Alone'
  BY <1>15 DEF ReleaseFails
<1>16. ASSUME NEW s \in Slots, Foreign(s) PROVE OneAtWork' /\ Alone'
  BY <1>16 DEF Foreign
<1>17. CASE UNCHANGED slotsVars
  BY <1>17 DEF slotsVars
<1> QED
  BY <1>1, <1>2, <1>3, <1>4, <1>5, <1>6, <1>7, <1>8, <1>9, <1>10, <1>11,
     <1>12, <1>13, <1>14, <1>15, <1>16, <1>17 DEF SlotsNext, Call

\* No other caller touches the slot a caller works on.
LEMMA ChosenStep ==
    ASSUME OneInstallation, ~Overlap, MaxLost = 0,
           SlotsTypeOK, OneAtWork, Alone,
           ChosenSlot, FreshRecord,
           [SlotsNext]_slotsVars
    PROVE  ChosenSlot' /\ FreshRecord'
<1> USE SlotsAssumption DEF SlotsTypeOK, OneAtWork, Alone, Up, SetupSteps,
        ReleaseSteps, ServiceSteps, data, Gone, Callers, MayAct, Quiet,
        ChosenSlot, FreshRecord
<1>1. ASSUME NEW i \in Entries, Add(i) PROVE ChosenSlot' /\ FreshRecord'
  BY <1>1 DEF Add
<1>2. ASSUME NEW i \in Entries, Begin(i) PROVE ChosenSlot' /\ FreshRecord'
  BY <1>2 DEF Begin
<1>3. ASSUME NEW i \in Entries, Finish(i) PROVE ChosenSlot' /\ FreshRecord'
  BY <1>3 DEF Finish
<1>4. ASSUME NEW i \in Entries, Reload(i) PROVE ChosenSlot' /\ FreshRecord'
  BY <1>4 DEF Reload
<1>5. ASSUME NEW i \in Entries, Remove(i) PROVE ChosenSlot' /\ FreshRecord'
  <2>1. CASE dataSlot[i] = NoSlot
    BY <1>5, <2>1 DEF Remove
  <2>2. CASE dataSlot[i] # NoSlot
    <3>1. /\ pc' = [pc EXCEPT ![i]["entry"] = "release"]
          /\ chosen' = [chosen EXCEPT ![i]["entry"] = dataSlot[i]]
          /\ life' = [life EXCEPT ![i] = "removing"]
          /\ pc[i]["entry"] = "idle" /\ pc[i]["service"] = "idle"
          /\ life[i] = "loaded"
          /\ UNCHANGED <<slots, dataSlot>>
      BY <1>5, <2>2 DEF Remove
    <3> QED BY <3>1, <2>2
  <2> QED BY <2>1, <2>2
<1>6. ASSUME NEW i \in Entries, SetupPush(i) PROVE ChosenSlot' /\ FreshRecord'
  BY <1>6 DEF SetupPush
<1>7. ASSUME NEW i \in Entries, RemovePush(i) PROVE ChosenSlot' /\ FreshRecord'
  BY <1>7 DEF RemovePush
<1>8. ASSUME NEW i \in Entries, NEW c \in Callers, Choose(i, c)
      PROVE ChosenSlot' /\ FreshRecord'
  BY <1>8 DEF Choose, AfterClaim
<1>9. ASSUME NEW i \in Entries, NEW c \in Callers, Put(i, c)
      PROVE ChosenSlot' /\ FreshRecord'
  BY <1>9 DEF Put
<1>10. ASSUME NEW i \in Entries, NEW c \in Callers, Claimed(i, c)
      PROVE ChosenSlot' /\ FreshRecord'
  BY <1>10 DEF Claimed, Update, AfterClaim
<1>11. ASSUME NEW i \in Entries, NEW c \in Callers, ClaimFails(i, c)
      PROVE ChosenSlot' /\ FreshRecord'
  BY <1>11 DEF ClaimFails, AfterClaim, Fault
<1>12. ASSUME NEW i \in Entries, NEW c \in Callers, CheckOurs(i, c)
      PROVE ChosenSlot' /\ FreshRecord'
  BY <1>12 DEF CheckOurs
<1>13. ASSUME NEW i \in Entries, NEW c \in Callers, PutEmpty(i, c)
      PROVE ChosenSlot' /\ FreshRecord'
  BY <1>13 DEF PutEmpty
<1>14. ASSUME NEW i \in Entries, NEW c \in Callers, Released(i, c)
      PROVE ChosenSlot' /\ FreshRecord'
  BY <1>14 DEF Released, Update
<1>15. ASSUME NEW i \in Entries, NEW c \in Callers, ReleaseFails(i, c)
      PROVE ChosenSlot' /\ FreshRecord'
  BY <1>15 DEF ReleaseFails, Fault
<1>16. ASSUME NEW s \in Slots, Foreign(s) PROVE ChosenSlot' /\ FreshRecord'
  BY <1>16 DEF Foreign, Ours
<1>17. CASE UNCHANGED slotsVars
  BY <1>17 DEF slotsVars
<1> QED
  BY <1>1, <1>2, <1>3, <1>4, <1>5, <1>6, <1>7, <1>8, <1>9, <1>10, <1>11,
     <1>12, <1>13, <1>14, <1>15, <1>16, <1>17
     DEF SlotsNext, Call

\* A record is written when the slot is, and given up after it.
LEMMA RecordTrueStep ==
    ASSUME OneInstallation, ~Overlap, MaxLost = 0,
           SlotsTypeOK, OneAtWork, Alone,
           ChosenSlot, FreshRecord, RecordTrue,
           [SlotsNext]_slotsVars
    PROVE  RecordTrue'
<1> USE SlotsAssumption DEF SlotsTypeOK, OneAtWork, Alone, Up, SetupSteps,
        ReleaseSteps, ServiceSteps, data, Gone, Callers, MayAct, Quiet,
        ChosenSlot, FreshRecord, RecordTrue
<1>1. ASSUME NEW i \in Entries, Add(i) PROVE RecordTrue'
  BY <1>1 DEF Add
<1>2. ASSUME NEW i \in Entries, Begin(i) PROVE RecordTrue'
  BY <1>2 DEF Begin
<1>3. ASSUME NEW i \in Entries, Finish(i) PROVE RecordTrue'
  BY <1>3 DEF Finish
<1>4. ASSUME NEW i \in Entries, Reload(i) PROVE RecordTrue'
  BY <1>4 DEF Reload
<1>5. ASSUME NEW i \in Entries, Remove(i) PROVE RecordTrue'
  BY <1>5 DEF Remove
<1>6. ASSUME NEW i \in Entries, SetupPush(i) PROVE RecordTrue'
  BY <1>6 DEF SetupPush
<1>7. ASSUME NEW i \in Entries, RemovePush(i) PROVE RecordTrue'
  BY <1>7 DEF RemovePush
<1>8. ASSUME NEW i \in Entries, NEW c \in Callers, Choose(i, c)
      PROVE RecordTrue'
  BY <1>8 DEF Choose, AfterClaim
<1>9. ASSUME NEW i \in Entries, NEW c \in Callers, Put(i, c)
      PROVE RecordTrue'
  BY <1>9 DEF Put
<1>10. ASSUME NEW i \in Entries, NEW c \in Callers, Claimed(i, c)
      PROVE RecordTrue'
  BY <1>10 DEF Claimed, Update, AfterClaim
<1>11. ASSUME NEW i \in Entries, NEW c \in Callers, ClaimFails(i, c)
      PROVE RecordTrue'
  BY <1>11 DEF ClaimFails, AfterClaim, Fault
<1>12. ASSUME NEW i \in Entries, NEW c \in Callers, CheckOurs(i, c)
      PROVE RecordTrue'
  BY <1>12 DEF CheckOurs
<1>13. ASSUME NEW i \in Entries, NEW c \in Callers, PutEmpty(i, c)
      PROVE RecordTrue'
  BY <1>13 DEF PutEmpty
<1>14. ASSUME NEW i \in Entries, NEW c \in Callers, Released(i, c)
      PROVE RecordTrue'
  BY <1>14 DEF Released, Update
<1>15. ASSUME NEW i \in Entries, NEW c \in Callers, ReleaseFails(i, c)
      PROVE RecordTrue'
  BY <1>15 DEF ReleaseFails, Fault
<1>16. ASSUME NEW s \in Slots, Foreign(s) PROVE RecordTrue'
  BY <1>16 DEF Foreign, Ours
<1>17. CASE UNCHANGED slotsVars
  BY <1>17 DEF slotsVars
<1> QED
  BY <1>1, <1>2, <1>3, <1>4, <1>5, <1>6, <1>7, <1>8, <1>9, <1>10, <1>11,
     <1>12, <1>13, <1>14, <1>15, <1>16, <1>17
     DEF SlotsNext, Call

\* A setup that does without the listener has read a record.
LEMMA StreamStep ==
    ASSUME OneInstallation, ~Overlap, MaxLost = 0,
           SlotsTypeOK, OneAtWork, Alone,
           ChosenSlot, StreamOrRecord,
           [SlotsNext]_slotsVars
    PROVE  StreamOrRecord'
<1> USE SlotsAssumption DEF SlotsTypeOK, OneAtWork, Alone, Up, SetupSteps,
        ReleaseSteps, ServiceSteps, data, Gone, Callers, MayAct, Quiet,
        ChosenSlot, StreamOrRecord
<1>1. ASSUME NEW i \in Entries, Add(i) PROVE StreamOrRecord'
  BY <1>1 DEF Add
<1>2. ASSUME NEW i \in Entries, Begin(i) PROVE StreamOrRecord'
  BY <1>2 DEF Begin, RunStream
<1>3. ASSUME NEW i \in Entries, Finish(i) PROVE StreamOrRecord'
  BY <1>3 DEF Finish
<1>4. ASSUME NEW i \in Entries, Reload(i) PROVE StreamOrRecord'
  BY <1>4 DEF Reload
<1>5. ASSUME NEW i \in Entries, Remove(i) PROVE StreamOrRecord'
  BY <1>5 DEF Remove
<1>6. ASSUME NEW i \in Entries, SetupPush(i) PROVE StreamOrRecord'
  BY <1>6 DEF SetupPush
<1>7. ASSUME NEW i \in Entries, RemovePush(i) PROVE StreamOrRecord'
  BY <1>7 DEF RemovePush
<1>8. ASSUME NEW i \in Entries, NEW c \in Callers, Choose(i, c)
      PROVE StreamOrRecord'
  BY <1>8 DEF Choose, AfterClaim
<1>9. ASSUME NEW i \in Entries, NEW c \in Callers, Put(i, c)
      PROVE StreamOrRecord'
  BY <1>9 DEF Put
<1>10. ASSUME NEW i \in Entries, NEW c \in Callers, Claimed(i, c)
      PROVE StreamOrRecord'
  <2>1. chosen[i][c] # NoSlot
    BY <1>10, SlotsAssumption DEF Claimed, Slots, NoSlot
  <2> QED BY <1>10, <2>1 DEF Claimed, Update, AfterClaim
<1>11. ASSUME NEW i \in Entries, NEW c \in Callers, ClaimFails(i, c)
      PROVE StreamOrRecord'
  BY <1>11 DEF ClaimFails, AfterClaim, Fault
<1>12. ASSUME NEW i \in Entries, NEW c \in Callers, CheckOurs(i, c)
      PROVE StreamOrRecord'
  BY <1>12 DEF CheckOurs
<1>13. ASSUME NEW i \in Entries, NEW c \in Callers, PutEmpty(i, c)
      PROVE StreamOrRecord'
  BY <1>13 DEF PutEmpty
<1>14. ASSUME NEW i \in Entries, NEW c \in Callers, Released(i, c)
      PROVE StreamOrRecord'
  BY <1>14 DEF Released, Update
<1>15. ASSUME NEW i \in Entries, NEW c \in Callers, ReleaseFails(i, c)
      PROVE StreamOrRecord'
  BY <1>15 DEF ReleaseFails, Fault
<1>16. ASSUME NEW s \in Slots, Foreign(s) PROVE StreamOrRecord'
  BY <1>16 DEF Foreign
<1>17. CASE UNCHANGED slotsVars
  BY <1>17 DEF slotsVars
<1> QED
  BY <1>1, <1>2, <1>3, <1>4, <1>5, <1>6, <1>7, <1>8, <1>9, <1>10, <1>11,
     <1>12, <1>13, <1>14, <1>15, <1>16, <1>17
     DEF SlotsNext, Call

LEMMA SlotsPathStep ==
    ASSUME OneInstallation, ~Overlap, MaxLost = 0
    PROVE  SlotsPathInv /\ [SlotsNext]_slotsVars => SlotsPathInv'
<1> SUFFICES ASSUME SlotsPathInv, [SlotsNext]_slotsVars PROVE SlotsPathInv'
  OBVIOUS
<1>1. /\ SlotsTypeOK /\ OneAtWork /\ Alone
      /\ ChosenSlot /\ FreshRecord /\ RecordTrue /\ StreamOrRecord
  BY DEF SlotsPathInv
<1>2. SlotsTypeOK'
  BY <1>1, SlotsTypeStep
<1>3. OneAtWork' /\ Alone'
  BY <1>1, OneAtWorkStep
<1>4. ChosenSlot' /\ FreshRecord'
  BY <1>1, ChosenStep
<1>5. RecordTrue'
  BY <1>1, RecordTrueStep
<1>6. StreamOrRecord'
  BY <1>1, StreamStep
<1> QED BY <1>2, <1>3, <1>4, <1>5, <1>6 DEF SlotsPathInv

LEMMA SlotsPathInit == SlotsInit => SlotsPathInv
BY SlotsAssumption
   DEF SlotsInit, SlotsPathInv, SlotsTypeOK, OneAtWork, Alone, ChosenSlot,
       FreshRecord, RecordTrue, StreamOrRecord, Up, SetupSteps, ReleaseSteps,
       Callers, Gone

(* Every slot number, record and step is one the model knows, for any       *)
(* number of entries and slots, whatever overlaps or is lost.               *)
THEOREM SlotsTypeCorrect == SlotsSpec => []SlotsTypeOK
<1>1. SlotsInit => SlotsTypeOK
  BY SlotsPathInit DEF SlotsPathInv
<1> QED BY <1>1, SlotsTypeStep, PTL DEF SlotsSpec

(* "Always keep a realtime path", for any number of entries and slots and   *)
(* any number of refused requests, whatever others write into the slots     *)
(* that are not ours: an entry that is up has its listener or its slot.     *)
THEOREM KeepsRealtimePath ==
    ASSUME OneInstallation, ~Overlap, MaxLost = 0
    PROVE  SlotsSpec => []RealtimePath
<1>1. SlotsPathInv => RealtimePath
  <2> SUFFICES ASSUME SlotsPathInv, NEW i \in Entries, life[i] = "loaded",
                      Quiet(i), i \notin streaming
               PROVE  \E s \in Slots : slots[s] = i
    BY DEF RealtimePath
  <2>1. dataSlot[i] # NoSlot /\ dataSlot[i] \in Slots
    BY DEF SlotsPathInv, SlotsTypeOK, StreamOrRecord
  <2>2. slots[dataSlot[i]] = i
    BY <2>1 DEF SlotsPathInv, RecordTrue, Quiet, Callers
  <2> QED BY <2>1, <2>2
<1> QED BY <1>1, SlotsPathInit, SlotsPathStep, PTL DEF SlotsSpec

-----------------------------------------------------------------------------
\* Somebody else has every slot below one of ours.
CloudsBelow == \A s \in Slots : Ours(s) => \A r \in 1..s - 1 : slots[r] = Cloud

\* A claim on its way to the terminal adds no second slot of ours.
PutAlone ==
    \A i \in Entries, c \in Callers :
        pc[i][c] = "put" =>
            /\ \A r \in 1..chosen[i][c] - 1 : slots[r] = Cloud
            /\ \A s \in Slots : Ours(s) => s = chosen[i][c]

\* A release empties no slot of somebody else's.
EmptiesOurs ==
    \A i \in Entries, c \in Callers :
        pc[i][c] = "empty" => Ours(chosen[i][c])

Answering(i, s) == \E c \in Callers : pc[i][c] = "answer" /\ chosen[i][c] = s

\* A slot of an entry is its recorded one, or the record is on its way.
OnRecord ==
    \A i \in Entries, s \in Slots :
        slots[s] = i => dataSlot[i] = s \/ Answering(i, s)

ReleasedIsFree ==
    \A i \in Entries, c \in Callers :
        pc[i][c] = "released" => ~Ours(chosen[i][c])

SlotsRecordInv ==
    /\ SlotsPathInv
    /\ CloudsBelow /\ PutAlone /\ EmptiesOurs
    /\ OnRecord /\ ReleasedIsFree /\ NothingLeft

\* So there is one slot of ours at most.
LEMMA OneOfOurs ==
    ASSUME CloudsBelow, NEW r \in Slots, NEW s \in Slots, Ours(r), Ours(s)
    PROVE  r = s
<1>1. ASSUME NEW x \in Slots, NEW y \in Slots, Ours(x), Ours(y) PROVE ~(x < y)
  BY <1>1, SlotsAssumption DEF CloudsBelow, Slots, Ours
<1> QED BY <1>1, SlotsAssumption DEF Slots

\* A claim takes the first free slot; only free slots are below a later one.
LEMMA CloudsBelowStep ==
    ASSUME OneInstallation, ~Overlap, MaxLost = 0, Rewritten \subseteq {Empty},
           SlotsTypeOK, OneAtWork, Alone, ChosenSlot, FreshRecord,
           CloudsBelow, PutAlone, EmptiesOurs,
           [SlotsNext]_slotsVars
    PROVE  CloudsBelow' /\ PutAlone' /\ EmptiesOurs'
<1> USE SlotsAssumption DEF SlotsTypeOK, OneAtWork, Alone, Up, SetupSteps,
        ReleaseSteps, ServiceSteps, data, Gone, Callers, MayAct, Quiet,
        ChosenSlot, FreshRecord, CloudsBelow, PutAlone, EmptiesOurs, Slots,
        Ours
<1>1. ASSUME NEW i \in Entries, Add(i)
      PROVE CloudsBelow' /\ PutAlone' /\ EmptiesOurs'
  BY <1>1 DEF Add
<1>2. ASSUME NEW i \in Entries, Begin(i)
      PROVE CloudsBelow' /\ PutAlone' /\ EmptiesOurs'
  BY <1>2 DEF Begin
<1>3. ASSUME NEW i \in Entries, Finish(i)
      PROVE CloudsBelow' /\ PutAlone' /\ EmptiesOurs'
  BY <1>3 DEF Finish
<1>4. ASSUME NEW i \in Entries, Reload(i)
      PROVE CloudsBelow' /\ PutAlone' /\ EmptiesOurs'
  BY <1>4 DEF Reload
<1>5. ASSUME NEW i \in Entries, Remove(i)
      PROVE CloudsBelow' /\ PutAlone' /\ EmptiesOurs'
  <2>1. CASE dataSlot[i] = NoSlot
    BY <1>5, <2>1 DEF Remove
  <2>2. CASE dataSlot[i] # NoSlot
    <3>1. /\ pc' = [pc EXCEPT ![i]["entry"] = "release"]
          /\ chosen' = [chosen EXCEPT ![i]["entry"] = dataSlot[i]]
          /\ life' = [life EXCEPT ![i] = "removing"]
          /\ pc[i]["entry"] = "idle" /\ life[i] = "loaded"
          /\ UNCHANGED <<slots, dataSlot>>
      BY <1>5, <2>2 DEF Remove
    <3> QED BY <3>1
  <2> QED BY <2>1, <2>2
<1>6. ASSUME NEW i \in Entries, SetupPush(i)
      PROVE CloudsBelow' /\ PutAlone' /\ EmptiesOurs'
  BY <1>6 DEF SetupPush
<1>7. ASSUME NEW i \in Entries, RemovePush(i)
      PROVE CloudsBelow' /\ PutAlone' /\ EmptiesOurs'
  BY <1>7 DEF RemovePush
<1>8. ASSUME NEW i \in Entries, NEW c \in Callers, Choose(i, c)
     
      PROVE CloudsBelow' /\ PutAlone' /\ EmptiesOurs'
  <2>1. CloudsBelow' /\ EmptiesOurs'
    BY <1>8 DEF Choose, AfterClaim
  <2>2. PutAlone'
    <3>1. CASE /\ \A s \in Slots : ~Free(s)
               /\ pc' = [pc EXCEPT ![i][c] = AfterClaim(c)]
               /\ UNCHANGED chosen
      BY <1>8, <3>1 DEF Choose, AfterClaim
    <3>2. ASSUME NEW s \in Slots, Free(s), \A r \in 1..s - 1 : ~Free(r),
                 chosen' = [chosen EXCEPT ![i][c] = s],
                 pc' = [pc EXCEPT ![i][c] = "put"]
          PROVE  PutAlone'
      <4>1. \A r \in 1..s - 1 : slots[r] = Cloud
        BY <3>2 DEF Free
      <4>2. ASSUME NEW r \in Slots, Ours(r) PROVE r = s
        BY <3>2, <4>1, <4>2 DEF Free
      <4> QED BY <1>8, <3>2, <4>1, <4>2 DEF Choose
    <3> QED BY <1>8, <3>1, <3>2 DEF Choose
  <2> QED BY <2>1, <2>2
<1>9. ASSUME NEW i \in Entries, NEW c \in Callers, Put(i, c)
     
      PROVE CloudsBelow' /\ PutAlone' /\ EmptiesOurs'
  BY <1>9 DEF Put
<1>10. ASSUME NEW i \in Entries, NEW c \in Callers, Claimed(i, c)
     
      PROVE CloudsBelow' /\ PutAlone' /\ EmptiesOurs'
  BY <1>10 DEF Claimed, Update, AfterClaim
<1>11. ASSUME NEW i \in Entries, NEW c \in Callers, ClaimFails(i, c)
     
      PROVE CloudsBelow' /\ PutAlone' /\ EmptiesOurs'
  BY <1>11 DEF ClaimFails, AfterClaim, Fault
<1>12. ASSUME NEW i \in Entries, NEW c \in Callers, CheckOurs(i, c)
     
      PROVE CloudsBelow' /\ PutAlone' /\ EmptiesOurs'
  BY <1>12 DEF CheckOurs
<1>13. ASSUME NEW i \in Entries, NEW c \in Callers, PutEmpty(i, c)
     
      PROVE CloudsBelow' /\ PutAlone' /\ EmptiesOurs'
  BY <1>13 DEF PutEmpty
<1>14. ASSUME NEW i \in Entries, NEW c \in Callers, Released(i, c)
     
      PROVE CloudsBelow' /\ PutAlone' /\ EmptiesOurs'
  BY <1>14 DEF Released, Update
<1>15. ASSUME NEW i \in Entries, NEW c \in Callers, ReleaseFails(i, c)
     
      PROVE CloudsBelow' /\ PutAlone' /\ EmptiesOurs'
  BY <1>15 DEF ReleaseFails, Fault
<1>16. ASSUME NEW s \in Slots, Foreign(s)
      PROVE CloudsBelow' /\ PutAlone' /\ EmptiesOurs'
  BY <1>16 DEF Foreign
<1>17. CASE UNCHANGED slotsVars
  BY <1>17 DEF slotsVars
<1> QED
  BY <1>1, <1>2, <1>3, <1>4, <1>5, <1>6, <1>7, <1>8, <1>9, <1>10, <1>11,
     <1>12, <1>13, <1>14, <1>15, <1>16, <1>17
     DEF SlotsNext, Call

\* A claim comes back to the one slot of ours, a release empties it.
LEMMA OnRecordStep ==
    ASSUME OneInstallation, ~Overlap, MaxLost = 0, Rewritten \subseteq {Empty},
           SlotsTypeOK, OneAtWork, Alone, ChosenSlot, FreshRecord,
           CloudsBelow, PutAlone, OnRecord, ReleasedIsFree, NothingLeft,
           [SlotsNext]_slotsVars
    PROVE  OnRecord' /\ ReleasedIsFree' /\ NothingLeft'
<1> USE SlotsAssumption DEF SlotsTypeOK, OneAtWork, Alone, Up, SetupSteps,
        ReleaseSteps, ServiceSteps, data, Gone, Callers, MayAct, Quiet,
        ChosenSlot, FreshRecord, CloudsBelow, PutAlone, OnRecord, Answering,
        ReleasedIsFree, NothingLeft, Ours
<1>0. NoSlot \notin Slots
  BY SlotsAssumption DEF Slots, NoSlot
<1>1. ASSUME NEW i \in Entries, Add(i)
      PROVE OnRecord' /\ ReleasedIsFree' /\ NothingLeft'
  BY <1>1 DEF Add
<1>2. ASSUME NEW i \in Entries, Begin(i)
      PROVE OnRecord' /\ ReleasedIsFree' /\ NothingLeft'
  BY <1>2 DEF Begin
<1>3. ASSUME NEW i \in Entries, Finish(i)
      PROVE OnRecord' /\ ReleasedIsFree' /\ NothingLeft'
  BY <1>3 DEF Finish
<1>4. ASSUME NEW i \in Entries, Reload(i)
      PROVE OnRecord' /\ ReleasedIsFree' /\ NothingLeft'
  BY <1>4 DEF Reload
<1>5. ASSUME NEW i \in Entries, Remove(i)
      PROVE OnRecord' /\ ReleasedIsFree' /\ NothingLeft'
  <2>1. CASE dataSlot[i] = NoSlot
    BY <1>0, <1>5, <2>1 DEF Remove
  <2>2. CASE dataSlot[i] # NoSlot
    <3>1. /\ pc' = [pc EXCEPT ![i]["entry"] = "release"]
          /\ chosen' = [chosen EXCEPT ![i]["entry"] = dataSlot[i]]
          /\ life' = [life EXCEPT ![i] = "removing"]
          /\ pc[i]["entry"] = "idle" /\ life[i] = "loaded"
          /\ UNCHANGED <<slots, dataSlot>>
      BY <1>5, <2>2 DEF Remove
    <3> QED BY <3>1
  <2> QED BY <2>1, <2>2
<1>6. ASSUME NEW i \in Entries, SetupPush(i)
      PROVE OnRecord' /\ ReleasedIsFree' /\ NothingLeft'
  BY <1>6 DEF SetupPush
<1>7. ASSUME NEW i \in Entries, RemovePush(i)
      PROVE OnRecord' /\ ReleasedIsFree' /\ NothingLeft'
  BY <1>7 DEF RemovePush
<1>8. ASSUME NEW i \in Entries, NEW c \in Callers, Choose(i, c)
     
      PROVE OnRecord' /\ ReleasedIsFree' /\ NothingLeft'
  <2>1. ASSUME NEW j \in Entries, NEW s \in Slots, Answering(j, s)
        PROVE  Answering(j, s)'
    BY <1>8, <2>1 DEF Choose, AfterClaim
  <2>2. OnRecord'
    BY <1>8, <2>1 DEF Choose
  <2>3. NothingLeft'
    BY <1>8 DEF Choose
  <2>4. ReleasedIsFree'
    BY <1>8 DEF Choose, AfterClaim
  <2> QED BY <2>2, <2>3, <2>4
<1>9. ASSUME NEW i \in Entries, NEW c \in Callers, Put(i, c)
     
      PROVE OnRecord' /\ ReleasedIsFree' /\ NothingLeft'
  BY <1>9 DEF Put
<1>10. ASSUME NEW i \in Entries, NEW c \in Callers, Claimed(i, c)
     
      PROVE OnRecord' /\ ReleasedIsFree' /\ NothingLeft'
  <2>1. ASSUME NEW s \in Slots, slots[s] = i PROVE s = chosen[i][c]
    BY <1>10, <2>1, OneOfOurs, SlotsAssumption DEF Claimed
  <2>2. OnRecord'
    BY <1>10, <2>1 DEF Claimed, Update, AfterClaim
  <2>3. ReleasedIsFree' /\ NothingLeft'
    BY <1>10 DEF Claimed, Update, AfterClaim
  <2> QED BY <2>2, <2>3
<1>11. ASSUME NEW i \in Entries, NEW c \in Callers, ClaimFails(i, c)
     
      PROVE OnRecord' /\ ReleasedIsFree' /\ NothingLeft'
  BY <1>11 DEF ClaimFails, AfterClaim, Fault
<1>12. ASSUME NEW i \in Entries, NEW c \in Callers, CheckOurs(i, c)
     
      PROVE OnRecord' /\ ReleasedIsFree' /\ NothingLeft'
  BY <1>12 DEF CheckOurs
<1>13. ASSUME NEW i \in Entries, NEW c \in Callers, PutEmpty(i, c)
     
      PROVE OnRecord' /\ ReleasedIsFree' /\ NothingLeft'
  BY <1>13 DEF PutEmpty
<1>14. ASSUME NEW i \in Entries, NEW c \in Callers, Released(i, c)
     
      PROVE OnRecord' /\ ReleasedIsFree' /\ NothingLeft'
  BY <1>14 DEF Released, Update
<1>15. ASSUME NEW i \in Entries, NEW c \in Callers, ReleaseFails(i, c)
     
      PROVE OnRecord' /\ ReleasedIsFree' /\ NothingLeft'
  BY <1>15 DEF ReleaseFails, Fault
<1>16. ASSUME NEW s \in Slots, Foreign(s)
      PROVE OnRecord' /\ ReleasedIsFree' /\ NothingLeft'
  BY <1>16 DEF Foreign
<1>17. CASE UNCHANGED slotsVars
  BY <1>17 DEF slotsVars
<1> QED
  BY <1>1, <1>2, <1>3, <1>4, <1>5, <1>6, <1>7, <1>8, <1>9, <1>10, <1>11,
     <1>12, <1>13, <1>14, <1>15, <1>16, <1>17
     DEF SlotsNext, Call


LEMMA SlotsRecordStep ==
    ASSUME OneInstallation, ~Overlap, MaxLost = 0, Rewritten \subseteq {Empty}
    PROVE  SlotsRecordInv /\ [SlotsNext]_slotsVars => SlotsRecordInv'
<1> SUFFICES ASSUME SlotsRecordInv, [SlotsNext]_slotsVars PROVE SlotsRecordInv'
  OBVIOUS
<1>1. /\ SlotsPathInv
      /\ CloudsBelow /\ PutAlone /\ EmptiesOurs
      /\ OnRecord /\ ReleasedIsFree /\ NothingLeft
  BY DEF SlotsRecordInv
<1>2. SlotsTypeOK /\ OneAtWork /\ Alone /\ ChosenSlot /\ FreshRecord
  BY <1>1 DEF SlotsPathInv
<1>3. SlotsPathInv'
  BY <1>1, SlotsPathStep
<1>4. CloudsBelow' /\ PutAlone' /\ EmptiesOurs'
  BY <1>1, <1>2, CloudsBelowStep
<1>5. OnRecord' /\ ReleasedIsFree' /\ NothingLeft'
  BY <1>1, <1>2, OnRecordStep
<1> QED BY <1>3, <1>4, <1>5 DEF SlotsRecordInv

LEMMA SlotsRecordInit == SlotsInit => SlotsRecordInv
<1> SUFFICES ASSUME SlotsInit PROVE SlotsRecordInv
  OBVIOUS
<1>1. SlotsPathInv
  BY SlotsPathInit
<1>2. \A s \in Slots : slots[s] \in {Empty, Cloud}
  BY DEF SlotsInit
<1>3. \A i \in Entries : i \notin {Empty, Cloud}
  BY SlotsAssumption
<1>4. CloudsBelow /\ OnRecord /\ NothingLeft
  BY <1>2, <1>3 DEF CloudsBelow, OnRecord, NothingLeft, Ours
<1>5. PutAlone /\ EmptiesOurs /\ ReleasedIsFree
  BY DEF SlotsInit, PutAlone, EmptiesOurs, ReleasedIsFree
<1> QED BY <1>1, <1>4, <1>5 DEF SlotsRecordInv

LEMMA SlotsRecordCorrect ==
    ASSUME OneInstallation, ~Overlap, MaxLost = 0, Rewritten \subseteq {Empty}
    PROVE  SlotsSpec => []SlotsRecordInv
BY SlotsRecordInit, SlotsRecordStep, PTL DEF SlotsSpec

(* Every slot that pushes to an entry is the one its data names, so that a  *)
(* release finds it, as long as nobody else gives up a slot.                *)
THEOREM AllOnRecord ==
    ASSUME OneInstallation, ~Overlap, MaxLost = 0, Rewritten \subseteq {Empty}
    PROVE  SlotsSpec => []Recorded
<1>1. SlotsRecordInv => Recorded
  BY DEF SlotsRecordInv, OnRecord, Answering, Recorded, Quiet
<1> QED BY <1>1, SlotsRecordCorrect, PTL

(* A removal whose release went through leaves no slot that pushes to the   *)
(* removed entry's token, under the same conditions.                        *)
THEOREM RemovalLeavesNothing ==
    ASSUME OneInstallation, ~Overlap, MaxLost = 0, Rewritten \subseteq {Empty}
    PROVE  SlotsSpec => []NothingLeft
<1>1. SlotsRecordInv => NothingLeft
  BY DEF SlotsRecordInv
<1> QED BY <1>1, SlotsRecordCorrect, PTL

=============================================================================
