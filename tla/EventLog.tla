------------------------------ MODULE EventLog ------------------------------
(***************************************************************************)
(* What the integration promises about one terminal's access events: an    *)
(* event is recorded, and the bus event of const.EVENT_BUS_EVENT is fired  *)
(* for it at most once, never before it is recorded.                       *)
(***************************************************************************)
EXTENDS Naturals

CONSTANT Events

VARIABLES
    recorded,   \* events that are in the log
    fired       \* how many bus events each event has caused

Init ==
    /\ recorded = {}
    /\ fired = [e \in Events |-> 0]

Record(e) ==
    /\ e \notin recorded
    /\ recorded' = recorded \cup {e}
    /\ UNCHANGED fired

Fire(e) ==
    /\ e \in recorded
    /\ fired[e] = 0
    /\ fired' = [fired EXCEPT ![e] = 1]
    /\ UNCHANGED recorded

Next == \E e \in Events : Record(e) \/ Fire(e)

Spec == Init /\ [][Next]_<<recorded, fired>>

=============================================================================
