------------------------------ MODULE PushSlots ------------------------------
(***************************************************************************)
(* Who the terminal pushes events to: the httpHosts slots of push.py and   *)
(* the parts of __init__.py and services.py that claim and release them.   *)
(* The record of the slot in the entry's data decides at the next setup    *)
(* whether the stream listener runs.                                       *)
(*                                                                         *)
(* An entry lives once: an integration that is removed and added again is  *)
(* another entry, with another token.  A slot holds the entry whose token  *)
(* its URL carries.                                                        *)
(***************************************************************************)
EXTENDS Integers, FiniteSets

CONSTANTS
    Entries,          \* config entries of this one terminal
    TotalSlots,       \* _TOTAL_SLOTS
    Empty, Cloud,     \* no URL; somebody else's URL
    OneInstallation,  \* TRUE: the entries belong to one Home Assistant
    Overlap,          \* TRUE: the user acts while a call is under way
    Rewritten,        \* what others may rewrite in a slot: Empty, Cloud
    MaxForeign,       \* bound: how often they do
    MaxRefused,       \* bound: requests the terminal does not carry out
    MaxLost           \* bound: requests it does, whose answer is lost

ASSUME SlotsAssumption ==
    /\ TotalSlots \in Nat \ {0}
    /\ Empty \notin Entries /\ Cloud \notin Entries /\ Empty # Cloud
    /\ Rewritten \subseteq {Empty, Cloud}
    /\ OneInstallation \in BOOLEAN /\ Overlap \in BOOLEAN
    /\ MaxForeign \in Nat /\ MaxRefused \in Nat /\ MaxLost \in Nat

Slots   == 1..TotalSlots
NoSlot  == 0
Callers == {"entry", "service"}   \* setup or removal; a service call
Choices == {"push", "register", "both"}

VARIABLES
    slots,      \* the terminal's httpHosts
    life,       \* of each config entry
    options,    \* OPT_EVENT_ROUTE = push, OPT_REGISTER_PUSH.., OPT_ALSO_RUN..
    dataSlot,   \* DATA_PUSH_SLOT in the entry's data
    decided,    \* entries whose setup has built a listener
    streaming,  \* entries whose listener runs
    pc,         \* where each caller is suspended
    chosen,     \* the slot it is writing
    faults      \* how often each bound was used

data == <<dataSlot, options>>
slotsVars == <<slots, life, data, decided, streaming, pc, chosen, faults>>

SlotsInit ==
    /\ slots \in [Slots -> {Empty, Cloud}]
    /\ life = [i \in Entries |-> "absent"]
    /\ options = [i \in Entries |-> {}]
    /\ dataSlot = [i \in Entries |-> NoSlot]
    /\ decided = {} /\ streaming = {}
    /\ pc = [i \in Entries |-> [c \in Callers |-> "idle"]]
    /\ chosen = [i \in Entries |-> [c \in Callers |-> NoSlot]]
    /\ faults = [k \in {"foreign", "refused", "lost"} |-> 0]

Fault(kind, bound) ==
    /\ faults[kind] < bound
    /\ faults' = [faults EXCEPT ![kind] = @ + 1]

Quiet(i) == \A c \in Callers : pc[i][c] = "idle"
MayAct(i) == Overlap \/ Quiet(i)

-----------------------------------------------------------------------------
(* The entry: setup, reload, removal.                                      *)

Gone == {"removed", "stranded"}

Add(i) ==
    /\ life[i] = "absent"
    /\ OneInstallation => \A j \in Entries : life[j] \in Gone \cup {"absent"}
    /\ life' = [life EXCEPT ![i] = "setup"]
    /\ \E o \in SUBSET Choices : options' = [options EXCEPT ![i] = o]
    /\ pc' = [pc EXCEPT ![i]["entry"] = "begin"]
    /\ UNCHANGED <<slots, dataSlot, decided, streaming, chosen, faults>>

\* Mutant: run_stream looks at the option instead of the record.
RunStream_Option(i) ==
    \/ "push" \notin options[i] \/ "both" \in options[i]
    \/ "register" \notin options[i]

\* The listener runs unless push is selected and its slot is on record.
RunStream(i) ==
    "push" \notin options[i] \/ "both" \in options[i] \/ dataSlot[i] = NoSlot

\* The decision comes before the claim.
Begin(i) ==
    /\ pc[i]["entry"] = "begin"
    /\ decided' = IF RunStream(i) THEN decided \cup {i} ELSE decided \ {i}
    /\ pc' = [pc EXCEPT ![i]["entry"] =
                IF {"push", "register"} \subseteq options[i]
                THEN "claim" ELSE "finish"]
    /\ UNCHANGED <<slots, life, data, streaming, chosen, faults>>

\* The listener starts last; from now on an update of the entry reloads it.
Finish(i) ==
    /\ pc[i]["entry"] = "finish"
    /\ life' = [life EXCEPT ![i] = "loaded"]
    /\ streaming' = streaming \cup ({i} \cap decided)
    /\ pc' = [pc EXCEPT ![i]["entry"] = "idle"]
    /\ UNCHANGED <<slots, data, decided, chosen, faults>>

\* async_update_entry: the record, and the reload it causes when loaded.
Update(i, c, slot, next) ==
    /\ dataSlot' = [dataSlot EXCEPT ![i] = slot]
    /\ UNCHANGED options
    /\ \/ /\ life[i] = "loaded" /\ slot # dataSlot[i]
          /\ life' = [life EXCEPT ![i] = "setup"]
          /\ streaming' = streaming \ {i}
          /\ pc' = [pc EXCEPT ![i][c] = next, ![i]["entry"] = "begin"]
       \/ /\ life[i] # "loaded" \/ slot = dataSlot[i]
          /\ pc' = [pc EXCEPT ![i][c] = next]
          /\ UNCHANGED <<life, streaming>>

\* The options form, or a reload by hand.
Reload(i) ==
    /\ life[i] = "loaded" /\ MayAct(i)
    /\ \E o \in SUBSET Choices : options' = [options EXCEPT ![i] = o]
    /\ life' = [life EXCEPT ![i] = "setup"]
    /\ streaming' = streaming \ {i}
    /\ pc' = [pc EXCEPT ![i]["entry"] = "begin"]
    /\ UNCHANGED <<slots, dataSlot, decided, chosen, faults>>

\* Mutant: the entry is removed without releasing its slot.
Remove_KeepsSlot(i) ==
    /\ life[i] = "loaded" /\ MayAct(i)
    /\ streaming' = streaming \ {i}
    /\ life' = [life EXCEPT ![i] = "removed"]
    /\ UNCHANGED <<slots, data, decided, pc, chosen, faults>>

\* async_unload_entry, then async_remove_entry releases the recorded slot.
Remove(i) ==
    /\ life[i] = "loaded" /\ MayAct(i)
    /\ streaming' = streaming \ {i}
    /\ \/ /\ dataSlot[i] = NoSlot
          /\ life' = [life EXCEPT ![i] = "removed"]
          /\ UNCHANGED <<pc, chosen>>
       \/ /\ dataSlot[i] # NoSlot
          /\ life' = [life EXCEPT ![i] = "removing"]
          /\ pc' = [pc EXCEPT ![i]["entry"] = "release"]
          /\ chosen' = [chosen EXCEPT ![i]["entry"] = dataSlot[i]]
    /\ UNCHANGED <<slots, data, decided, faults>>

-----------------------------------------------------------------------------
(* Services: each works on the entry as it found it.                       *)

SetupPush(i) ==
    /\ life[i] = "loaded" /\ MayAct(i) /\ pc[i]["service"] = "idle"
    /\ pc' = [pc EXCEPT ![i]["service"] = "claim"]
    /\ UNCHANGED <<slots, life, data, decided, streaming, chosen, faults>>

RemovePush(i) ==
    /\ life[i] = "loaded" /\ MayAct(i) /\ pc[i]["service"] = "idle"
    /\ dataSlot[i] # NoSlot
    /\ pc' = [pc EXCEPT ![i]["service"] = "release"]
    /\ chosen' = [chosen EXCEPT ![i]["service"] = dataSlot[i]]
    /\ UNCHANGED <<slots, life, data, decided, streaming, faults>>

-----------------------------------------------------------------------------
(* async_claim_slot                                                        *)

\* A URL that starts with our prefix, whoever's token it carries.
Ours(s) == slots[s] \notin {Empty, Cloud}

\* Mutant: only an empty slot is free.
Free_OnlyEmpty(s) == slots[s] = Empty

Free(s) == slots[s] = Empty \/ Ours(s)

AfterClaim(c) == IF c = "entry" THEN "finish" ELSE "idle"

\* Mutant: the index in the answer is taken for the slot's id.
Choose_NextIndex(i, c) ==
    /\ pc[i][c] = "claim"
    /\ \/ \E s \in Slots :
            /\ Free(s) /\ \A r \in 1..s - 1 : ~ Free(r)
            /\ chosen' = [chosen EXCEPT ![i][c] = s + 1]
            /\ pc' = [pc EXCEPT ![i][c] = "put"]
       \/ /\ \A s \in Slots : ~ Free(s)
          /\ pc' = [pc EXCEPT ![i][c] = AfterClaim(c)]
          /\ UNCHANGED chosen
    /\ UNCHANGED <<slots, life, data, decided, streaming, faults>>

\* The slots are read; the first free one is chosen.
Choose(i, c) ==
    /\ pc[i][c] = "claim"
    /\ \/ \E s \in Slots :
            /\ Free(s) /\ \A r \in 1..s - 1 : ~ Free(r)
            /\ chosen' = [chosen EXCEPT ![i][c] = s]
            /\ pc' = [pc EXCEPT ![i][c] = "put"]
       \/ /\ \A s \in Slots : ~ Free(s)
          /\ pc' = [pc EXCEPT ![i][c] = AfterClaim(c)]
          /\ UNCHANGED chosen
    /\ UNCHANGED <<slots, life, data, decided, streaming, faults>>

\* The terminal carries out the PUT, whatever the slot holds by then.
Put(i, c) ==
    /\ pc[i][c] = "put"
    /\ slots' = [slots EXCEPT ![chosen[i][c]] = i]
    /\ pc' = [pc EXCEPT ![i][c] = "answer"]
    /\ UNCHANGED <<life, data, decided, streaming, chosen, faults>>

\* Its answer arrives: the slot goes on record.
Claimed(i, c) ==
    /\ pc[i][c] = "answer"
    /\ Update(i, c, chosen[i][c], AfterClaim(c))
    /\ chosen' = [chosen EXCEPT ![i][c] = NoSlot]
    /\ UNCHANGED <<slots, decided, faults>>

\* A request of the claim fails: the record is left as it was.
ClaimFails(i, c) ==
    /\ \/ pc[i][c] \in {"claim", "put"} /\ Fault("refused", MaxRefused)
       \/ pc[i][c] = "answer" /\ Fault("lost", MaxLost)
    /\ pc' = [pc EXCEPT ![i][c] = AfterClaim(c)]
    /\ chosen' = [chosen EXCEPT ![i][c] = NoSlot]
    /\ UNCHANGED <<slots, life, data, decided, streaming>>

-----------------------------------------------------------------------------
(* async_release_slot                                                      *)

\* What the caller does when the release is through.
Released(i, c) ==
    /\ pc[i][c] = "released"
    /\ chosen' = [chosen EXCEPT ![i][c] = NoSlot]
    /\ \/ c = "service" /\ Update(i, c, NoSlot, "idle")
       \/ /\ c = "entry"
          /\ life' = [life EXCEPT ![i] = "removed"]
          /\ pc' = [pc EXCEPT ![i][c] = "idle"]
          /\ UNCHANGED <<data, streaming>>
    /\ UNCHANGED <<slots, decided, faults>>

\* Only a slot of ours is emptied.
CheckOurs(i, c) ==
    /\ pc[i][c] = "release"
    /\ pc' = [pc EXCEPT ![i][c] =
                IF Ours(chosen[i][c]) THEN "empty" ELSE "released"]
    /\ UNCHANGED <<slots, life, data, decided, streaming, chosen, faults>>

PutEmpty(i, c) ==
    /\ pc[i][c] = "empty"
    /\ slots' = [slots EXCEPT ![chosen[i][c]] = Empty]
    /\ pc' = [pc EXCEPT ![i][c] = "released"]
    /\ UNCHANGED <<life, data, decided, streaming, chosen, faults>>

\* remove_push keeps the record; a removed entry only logs the failure.
ReleaseFails(i, c) ==
    /\ \/ pc[i][c] \in {"release", "empty"} /\ Fault("refused", MaxRefused)
       \/ pc[i][c] = "released" /\ Fault("lost", MaxLost)
    /\ chosen' = [chosen EXCEPT ![i][c] = NoSlot]
    /\ pc' = [pc EXCEPT ![i][c] = "idle"]
    /\ life' = [life EXCEPT ![i] = IF c = "entry" THEN "stranded" ELSE @]
    /\ UNCHANGED <<slots, data, decided, streaming>>

-----------------------------------------------------------------------------
\* Somebody else registers a URL in an empty slot, or gives one up.
Foreign(s) ==
    /\ slots[s] \in Rewritten
    /\ Fault("foreign", MaxForeign)
    /\ slots' = [slots EXCEPT ![s] = IF @ = Empty THEN Cloud ELSE Empty]
    /\ UNCHANGED <<life, data, decided, streaming, pc, chosen>>

Call(i, c) ==
    \/ Choose(i, c) \/ Put(i, c) \/ Claimed(i, c) \/ ClaimFails(i, c)
    \/ CheckOurs(i, c) \/ PutEmpty(i, c) \/ Released(i, c) \/ ReleaseFails(i, c)

SlotsNext ==
    \/ \E i \in Entries :
        \/ Add(i) \/ Begin(i) \/ Finish(i) \/ Reload(i) \/ Remove(i)
        \/ SetupPush(i) \/ RemovePush(i)
        \/ \E c \in Callers : Call(i, c)
    \/ \E s \in Slots : Foreign(s)

SlotsSpec == SlotsInit /\ [][SlotsNext]_slotsVars

-----------------------------------------------------------------------------
SlotsTypeOK ==
    /\ slots \in [Slots -> Entries \cup {Empty, Cloud}]
    /\ life \in [Entries -> {"absent", "setup", "loaded", "removing"} \cup Gone]
    /\ options \in [Entries -> SUBSET Choices]
    /\ dataSlot \in [Entries -> Slots \cup {NoSlot}]
    /\ decided \in SUBSET Entries /\ streaming \in SUBSET Entries
    /\ pc \in [Entries -> [Callers ->
                {"idle", "begin", "claim", "put", "answer", "finish",
                 "release", "empty", "released"}]]
    /\ chosen \in [Entries -> [Callers -> Slots \cup {NoSlot}]]
    /\ faults \in [{"foreign", "refused", "lost"} -> Nat]

(* __init__.py: "Always keep a realtime path".  Whatever was refused and    *)
(* however the options changed, an entry that is up either listens to the   *)
(* stream or has a slot of the terminal that pushes to it.                  *)
RealtimePath ==
    \A i \in Entries :
        (life[i] = "loaded" /\ Quiet(i))
            => i \in streaming \/ \E s \in Slots : slots[s] = i

(* The terminal pushes to an entry from the recorded slot only: nothing it  *)
(* does leaves a second slot that no release would find.                    *)
Recorded ==
    \A i \in Entries :
        (life[i] \in {"setup", "loaded"} /\ Quiet(i))
            => \A s \in Slots : slots[s] = i => dataSlot[i] = s

(* async_remove_entry releases the terminal's push slot: after a removal    *)
(* whose release went through, no slot pushes to a token nobody knows.      *)
NothingLeft ==
    \A i \in Entries :
        life[i] = "removed" => \A s \in Slots : slots[s] # i

=============================================================================
