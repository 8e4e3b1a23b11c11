----------------------------- MODULE PushView -----------------------------
(***************************************************************************)
(* push.py: the webhook all terminals post to.  post() looks the token up, *)
(* awaits the body and puts the event into one bounded queue; a single     *)
(* worker task takes the events out and hands each to the gateway its      *)
(* target had when the post came in.  The worker is started by a post and  *)
(* cancelled when the last target is unregistered; what is queued then     *)
(* stays queued.                                                           *)
(*                                                                         *)
(* A reload gives a terminal a new gateway and a new connection to the     *)
(* database; the gateway of an earlier load has a closed one.  Posts are   *)
(* numbered as they arrive, and state[k] says how far post k has come.     *)
(***************************************************************************)
EXTENDS Integers, Sequences

CONSTANTS
    Terminals,
    QueueMax,    \* _QUEUE_MAX
    MaxLoads,    \* bound: times a terminal's entry is set up
    MaxPosts     \* bound: posts in a behaviour

ASSUME PushViewAssumption ==
    /\ QueueMax \in Nat \ {0}
    /\ MaxLoads \in Nat
    /\ MaxPosts \in Nat

Posts == 1..MaxPosts
Gateways == Terminals \X (0..MaxLoads)

Waiting == {"none", "reading", "queued", "handling"}
\* "refused": 404.  "ignored": no event in the body, or 413 or 400.
\* "dropped": the queue was full.  "failed": the gateway raised.
\* "cancelled": the worker was cancelled while the gateway was at it.
Ended == {"refused", "ignored", "dropped", "handled", "failed", "cancelled"}

VARIABLES
    entry,       \* of each terminal: "out", "in" (target registered), or
                 \* "closing" (unregistered, its store still open)
    loads,       \* the number of its current gateway
    target,      \* the gateway each post was resolved to
    state,       \* how far each post has come
    queue,       \* view._queue, by post number
    worker       \* view._worker: "none", "get" or "busy"

setups == <<entry, loads>>
vars   == <<setups, target, state, queue, worker>>

Init ==
    /\ entry = [t \in Terminals |-> "out"]
    /\ loads = [t \in Terminals |-> 0]
    /\ target = [k \in Posts |-> <<>>]
    /\ state = [k \in Posts |-> "none"]
    /\ queue = <<>>
    /\ worker = "none"

Registered == {t \in Terminals : entry[t] = "in"}

\* The gateway of post k is the one its terminal's entry has now.
Current(k) == target[k] # <<>> /\ target[k][2] = loads[target[k][1]]
Loaded(k)   == Current(k) /\ entry[target[k][1]] = "in"
OpenStore(k) == Current(k) /\ entry[target[k][1]] # "out"

-----------------------------------------------------------------------------
\* async_setup_entry: a new gateway over a new connection, its target in the
\* table.
Register(t) ==
    /\ entry[t] = "out"
    /\ loads[t] < MaxLoads
    /\ loads' = [loads EXCEPT ![t] = @ + 1]
    /\ entry' = [entry EXCEPT ![t] = "in"]
    /\ UNCHANGED <<target, state, queue, worker>>

\* Mutant: the cancelled worker finishes what it is handling.
CancelWorker_Finishes ==
    /\ worker' = "none"
    /\ UNCHANGED state

\* Cancelling the worker ends what it is handling; the queue stays.
CancelWorker ==
    /\ worker' = "none"
    /\ state' = [k \in Posts |->
                    IF state[k] = "handling" THEN "cancelled" ELSE state[k]]

\* Mutant: any terminal's unload cancels the worker.
Unregister_CancelsAlways(t) ==
    /\ entry[t] = "in"
    /\ entry' = [entry EXCEPT ![t] = "closing"]
    /\ CancelWorker
    /\ UNCHANGED <<loads, target, queue>>

\* unregister_target, on unload: the last target takes the worker with it.
Unregister(t) ==
    /\ entry[t] = "in"
    /\ entry' = [entry EXCEPT ![t] = "closing"]
    /\ \/ Registered = {t} /\ CancelWorker
       \/ Registered # {t} /\ UNCHANGED <<worker, state>>
    /\ UNCHANGED <<loads, target, queue>>

\* The rest of async_unload_entry: platforms, then the store's connection.
Close(t) ==
    /\ entry[t] = "closing"
    /\ entry' = [entry EXCEPT ![t] = "out"]
    /\ UNCHANGED <<loads, target, state, queue, worker>>

\* Home Assistant restarts: the view, its queue and every gateway are gone.
Restart ==
    /\ \E t \in Terminals : loads[t] > 0
    /\ entry' = [t \in Terminals |-> "out"]
    /\ state' = [k \in Posts |->
                    IF state[k] \in {"reading", "queued", "handling"}
                    THEN "cancelled" ELSE state[k]]
    /\ queue' = <<>>
    /\ worker' = "none"
    /\ UNCHANGED <<loads, target>>

-----------------------------------------------------------------------------
\* post(), up to the await of the body.
Post(t, k) ==
    /\ state[k] = "none"
    /\ k > 1 => state[k - 1] # "none"
    /\ \/ /\ entry[t] = "in"
          /\ target' = [target EXCEPT ![k] = <<t, loads[t]>>]
          /\ state' = [state EXCEPT ![k] = "reading"]
       \/ /\ entry[t] # "in"
          /\ state' = [state EXCEPT ![k] = "refused"]
          /\ UNCHANGED target
    /\ UNCHANGED <<setups, queue, worker>>

\* The body is too large, cannot be read or parsed, or has no event in it.
Ignore(k) ==
    /\ state[k] = "reading"
    /\ state' = [state EXCEPT ![k] = "ignored"]
    /\ UNCHANGED <<setups, target, queue, worker>>

EnsureWorker == worker' = IF worker = "none" THEN "get" ELSE worker

\* Mutant: the worker is only started by the post that finds the queue empty.
Enqueue_WorkerIfEmpty(k) ==
    /\ state[k] = "reading"
    /\ worker' = IF worker = "none" /\ queue = <<>> THEN "get" ELSE worker
    /\ \/ /\ Len(queue) < QueueMax
          /\ queue' = Append(queue, k)
          /\ state' = [state EXCEPT ![k] = "queued"]
       \/ /\ Len(queue) >= QueueMax
          /\ state' = [state EXCEPT ![k] = "dropped"]
          /\ UNCHANGED queue
    /\ UNCHANGED <<setups, target>>

\* The rest of post(): the worker first, then the queue or the drop.
Enqueue(k) ==
    /\ state[k] = "reading"
    /\ EnsureWorker
    /\ \/ /\ Len(queue) < QueueMax
          /\ queue' = Append(queue, k)
          /\ state' = [state EXCEPT ![k] = "queued"]
       \/ /\ Len(queue) >= QueueMax
          /\ state' = [state EXCEPT ![k] = "dropped"]
          /\ UNCHANGED queue
    /\ UNCHANGED <<setups, target>>

\* _drain: queue.get() returns, and the gateway gets the event.
Take ==
    /\ worker = "get"
    /\ queue # <<>>
    /\ queue' = Tail(queue)
    /\ state' = [state EXCEPT ![Head(queue)] = "handling"]
    /\ worker' = "busy"
    /\ UNCHANGED <<setups, target>>

\* Mutant: an exception of the gateway ends the worker, _worker still set.
Handled_Dies(k) ==
    /\ state[k] = "handling"
    /\ \/ /\ OpenStore(k)
          /\ state' = [state EXCEPT ![k] = "handled"]
          /\ worker' = "get"
       \/ state' = [state EXCEPT ![k] = "failed"] /\ UNCHANGED worker
    /\ UNCHANGED <<setups, target, queue>>

\* async_handle returns, or raises: with its store closed it always does.
Handled(k) ==
    /\ state[k] = "handling"
    /\ \/ OpenStore(k) /\ state' = [state EXCEPT ![k] = "handled"]
       \/ state' = [state EXCEPT ![k] = "failed"]
    /\ worker' = "get"
    /\ UNCHANGED <<setups, target, queue>>

Next ==
    \/ \E t \in Terminals :
        \/ Register(t) \/ Unregister(t) \/ Close(t)
        \/ \E k \in Posts : Post(t, k)
    \/ \E k \in Posts : Ignore(k) \/ Enqueue(k) \/ Handled(k)
    \/ Take
    \/ Restart

\* The event loop runs a task that can run, and every await of async_handle
\* returns: its requests have timeouts.
Fairness == WF_vars(Take) /\ \A k \in Posts : WF_vars(Handled(k))

Spec == Init /\ [][Next]_vars
FairSpec == Spec /\ Fairness

-----------------------------------------------------------------------------
TypeOK ==
    /\ entry \in [Terminals -> {"out", "in", "closing"}]
    /\ loads \in [Terminals -> 0..MaxLoads]
    /\ target \in [Posts -> Gateways \cup {<<>>}]
    /\ state \in [Posts -> Waiting \cup Ended]
    /\ queue \in Seq(Posts) /\ Len(queue) <= QueueMax
    /\ worker \in {"none", "get", "busy"}

\* What a post has to do with the worker while it waits for it.
InLine(k) == state[k] \in {"queued", "handling"}

(* Everything in line for a gateway that is loaded has a worker that will   *)
(* come to it, whatever the other terminals' unloads did to that worker and *)
(* whatever earlier gateways left in the queue.                             *)
Attended == \A k \in Posts : InLine(k) /\ Loaded(k) => worker # "none"

(* "events are handled one at a time by a single worker": across cancelled  *)
(* workers and new ones, one event is with a gateway at most, and it is     *)
(* there exactly while the worker is busy.                                  *)
OneAtATime ==
    /\ \A j, k \in Posts :
        state[j] = "handling" /\ state[k] = "handling" => j = k
    /\ worker = "busy" <=> \E k \in Posts : state[k] = "handling"

(* Only the unload of its own entry cuts an event short: a terminal that    *)
(* stays loaded loses nothing to another one's reload.                      *)
OthersUnharmed == \A k \in Posts : state[k] = "cancelled" => ~ Loaded(k)

(* An accepted event reaches its gateway, unless its entry is unloaded.     *)
Served ==
    \A k \in Posts : state[k] = "queued" ~> (state[k] \in Ended \/ ~ Loaded(k))

(* No event is dropped for want of a worker.  Events of unloaded gateways   *)
(* may fill the queue with nobody at work on them; the first post after a   *)
(* reload is dropped then, but its drop starts the worker that empties it.  *)
DropHasWorker ==
    [][\A k \in Posts :
        state[k] # "dropped" /\ state'[k] = "dropped" => worker' # "none"]_vars

=============================================================================
