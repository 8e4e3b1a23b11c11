------------------------------- MODULE Lockout -------------------------------
(***************************************************************************)
(* The login lockout of the terminal and the client that must not keep it  *)
(* locked: _request, _fresh_digest, _note_lock and async_stream of api.py. *)
(* Every request makes two attempts, an unauthenticated probe and the      *)
(* request proper; an attempt while the terminal is locked locks it anew.  *)
(*                                                                         *)
(* Clocks count down in ticks: what is left of the terminal's lock and of  *)
(* the client's parking.  The park is one per host and shared by clients.  *)
(***************************************************************************)
EXTENDS Integers, FiniteSets

CONSTANTS
    Requests,   \* coroutines in _request
    Streams,    \* alertStream openings and probes, which take no gate
    Gate,       \* permits of the client's semaphore
    LockTime,   \* ticks a lock lasts, its unlockTime
    CountTime,  \* ticks noted for an answer that only counts failed logins
    Margin,     \* ticks _note_lock adds
    Patience,   \* ticks after its check within which a request sends both
    MaxLost     \* bound: answers that never arrive

ASSUME LockoutAssumption ==
    /\ Requests \cap Streams = {}
    /\ IsFiniteSet(Requests) /\ IsFiniteSet(Streams)
    /\ Gate \in Nat \ {0}
    /\ LockTime \in Nat \ {0} /\ CountTime \in Nat \ {0}
    /\ Margin \in Nat /\ Patience \in Nat /\ MaxLost \in Nat

\* The client's 30 s margin exceeds its timeouts (10 s, 15 s to connect).
ASSUME MarginAssumption == Margin >= Patience

Callers == Requests \cup Streams
Steps   == {"idle", "queued", "inside", "probing", "main", "sent", "body"}
NoLock  == 0
Answers == {NoLock, CountTime, LockTime}

VARIABLES
    lock,     \* what is left of the terminal's lock
    parked,   \* lock_remaining
    pc,       \* where each request is suspended
    age,      \* ticks since it passed the check
    answer,   \* seconds of lock its last attempt was answered with
    aware,    \* 1 once the client has read of the lock that lasts
    late,     \* attempts made since the client parked
    lost

requests == <<pc, age, answer>>
vars     == <<lock, parked, requests, aware, late, lost>>

Init ==
    /\ lock \in {0, LockTime} /\ parked = 0
    /\ pc = [r \in Callers |-> "idle"]
    /\ age = [r \in Callers |-> 0]
    /\ answer = [r \in Callers |-> NoLock]
    /\ aware = 0 /\ late = 0 /\ lost = 0

Goto(r, step) == pc' = [pc EXCEPT ![r] = step]
InGate == {r \in Requests : pc[r] \in {"inside", "probing", "main", "sent"}}
StillSends(r) == pc[r] \in {"probing", "main"}

-----------------------------------------------------------------------------
(* The terminal.                                                           *)

\* Failed logins of somebody else lock it.
TerminalLocks ==
    /\ lock = 0
    /\ lock' = LockTime
    /\ UNCHANGED <<parked, requests, aware, late, lost>>

\* An attempt: a lock starts over; without one, failed logins may be counted.
Attempt(r) ==
    /\ late' = IF parked > 0 THEN late + 1 ELSE late
    /\ \/ /\ lock > 0
          /\ lock' = LockTime
          /\ answer' = [answer EXCEPT ![r] = LockTime]
       \/ /\ lock = 0 /\ UNCHANGED lock
          /\ \E a \in {NoLock, CountTime} : answer' = [answer EXCEPT ![r] = a]

Down(t) == IF t > 0 THEN t - 1 ELSE 0

\* Time passes.  Timeouts bound how long a request may still send.
Tick ==
    /\ \A r \in Callers : StillSends(r) => age[r] < Patience
    /\ lock' = Down(lock)
    /\ parked' = Down(parked)
    /\ age' = [r \in Callers |-> IF StillSends(r) THEN age[r] + 1 ELSE 0]
    /\ aware' = IF lock' = 0 THEN 0 ELSE aware
    /\ late' = IF parked' = 0 THEN 0 ELSE late
    /\ UNCHANGED <<pc, answer, lost>>

-----------------------------------------------------------------------------
(* The client.                                                             *)

\* Mutant: the last answer counts.
Noted_Last(seconds) == seconds + Margin

\* _note_lock: the park is prolonged, never cut short.
Noted(seconds) ==
    IF seconds + Margin > parked THEN seconds + Margin ELSE parked

\* _raise_if_locked on a body that names a lock: park the client and give up.
Note(r) ==
    /\ answer[r] # NoLock
    /\ parked' = Noted(answer[r])
    /\ aware' = IF lock > 0 /\ answer[r] = LockTime THEN 1 ELSE aware
    /\ answer' = [answer EXCEPT ![r] = NoLock]
    /\ Goto(r, "idle")
    /\ UNCHANGED <<lock, late, lost>>

\* _request checks before it queues for the gate.
Start(r) ==
    /\ r \in Requests
    /\ pc[r] = "idle" /\ parked = 0
    /\ Goto(r, "queued")
    /\ UNCHANGED <<lock, parked, age, answer, aware, late, lost>>

\* A permit; _pace may still suspend the request.
Enter(r) ==
    /\ pc[r] = "queued"
    /\ Cardinality(InGate) < Gate
    /\ Goto(r, "inside")
    /\ UNCHANGED <<lock, parked, age, answer, aware, late, lost>>

\* async_stream and async_probe_stream go straight to _fresh_digest.
OpenStream(r) ==
    /\ r \in Streams
    /\ pc[r] = "idle"
    /\ Goto(r, "inside")
    /\ UNCHANGED <<lock, parked, age, answer, aware, late, lost>>

\* Mutant: no second check; whoever queued before the park still probes.
Probe_Unchecked(r) ==
    /\ pc[r] = "inside"
    /\ Attempt(r)
    /\ age' = [age EXCEPT ![r] = 0]
    /\ Goto(r, "probing")
    /\ UNCHANGED <<parked, aware, lost>>

\* _fresh_digest checks again and probes without another suspension.
Probe(r) ==
    /\ pc[r] = "inside"
    /\ parked = 0
    /\ Attempt(r)
    /\ age' = [age EXCEPT ![r] = 0]
    /\ Goto(r, "probing")
    /\ UNCHANGED <<parked, aware, lost>>

\* Parked meanwhile: HikvisionLockoutError, nothing is sent.
TurnBack(r) ==
    /\ pc[r] = "inside" /\ parked > 0
    /\ Goto(r, "idle")
    /\ UNCHANGED <<lock, parked, age, answer, aware, late, lost>>

\* Mutant: the probe's body is not looked at.
ProbeAnswered_Blind(r) ==
    /\ pc[r] = "probing"
    /\ answer' = [answer EXCEPT ![r] = NoLock]
    /\ Goto(r, IF answer[r] = NoLock THEN "main" ELSE "idle")
    /\ UNCHANGED <<lock, parked, age, aware, late, lost>>

\* The probe's 401 names a lock, or brings the challenge.
ProbeAnswered(r) ==
    /\ pc[r] = "probing"
    /\ \/ Note(r) /\ UNCHANGED age
       \/ /\ answer[r] = NoLock
          /\ Goto(r, "main")
          /\ UNCHANGED <<lock, parked, age, answer, aware, late, lost>>

\* The request proper goes out without a further check.
Send(r) ==
    /\ pc[r] = "main"
    /\ Attempt(r)
    /\ Goto(r, "sent")
    /\ UNCHANGED <<parked, age, aware, lost>>

\* Its headers: done, or a 401 whose body is read outside the gate.
Answered(r) ==
    /\ pc[r] = "sent"
    /\ Goto(r, IF answer[r] = NoLock THEN "idle" ELSE "body")
    /\ UNCHANGED <<lock, parked, age, answer, aware, late, lost>>

Rejected(r) == pc[r] = "body" /\ Note(r) /\ UNCHANGED age

\* A timeout or a broken connection: an answer is never read.
Lose(r) ==
    /\ pc[r] \in {"probing", "sent", "body"}
    /\ lost < MaxLost /\ lost' = lost + 1
    /\ answer' = [answer EXCEPT ![r] = NoLock]
    /\ Goto(r, "idle")
    /\ UNCHANGED <<lock, parked, age, aware, late>>

Proceed(r) ==
    \/ Probe(r) \/ TurnBack(r) \/ ProbeAnswered(r) \/ Send(r) \/ Answered(r)
    \/ Rejected(r)

Next ==
    \/ TerminalLocks \/ Tick
    \/ \E r \in Callers :
        Start(r) \/ Enter(r) \/ OpenStream(r) \/ Proceed(r) \/ Lose(r)

\* Time passes and what was sent is answered; nobody has to poll.
Fairness == WF_vars(Tick) /\ \A r \in Callers : WF_vars(Proceed(r))

Spec == Init /\ [][Next]_vars
FairSpec == Spec /\ Fairness

-----------------------------------------------------------------------------
ClocksOK ==
    /\ lock \in Nat /\ lock <= LockTime
    /\ parked \in Nat
    /\ age \in [Callers -> Nat]

TypeOK ==
    /\ ClocksOK
    /\ pc \in [Callers -> Steps]
    /\ answer \in [Callers -> Answers]
    /\ aware \in {0, 1}
    /\ late \in Nat
    /\ lost \in 0..MaxLost

(* _raise_if_locked: the client is parked "so no poller keeps refreshing    *)
(* the lock".  Once it has read of a lock it stays parked at least as long  *)
(* as the terminal stays locked, although requests that were under way      *)
(* lock the terminal anew and some of their answers are lost.               *)
ParkCoversLock == aware = 1 => parked >= lock

(* Why it is inductive: whoever may still send passed the check before the  *)
(* park, and the margin is still ahead of what is left of its patience.     *)
MarginAhead ==
    aware = 1 =>
        /\ lock > 0
        /\ \A r \in Callers :
            StillSends(r) => parked >= LockTime + Patience - age[r]

(* A burst stops at once: after the client has parked, at most the requests *)
(* inside the gate and the streams attempt anything, each of them once.     *)
LateBounded == late <= Gate + Cardinality(Streams)

(* However many pollers there are, they do not keep the terminal locked.    *)
UnlocksAgain == lock > 0 ~> lock = 0

=============================================================================
