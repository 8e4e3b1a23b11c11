----------------------------- MODULE ConfigFlow -----------------------------
(***************************************************************************)
(* config_flow.py: the forms that add a terminal, take new credentials for *)
(* it (reauth) or a new address (reconfigure), several of them open at     *)
(* once, while terminals change their addresses and passwords.             *)
(*                                                                         *)
(* A form is submitted, its data probed in two awaits (deviceInfo, then    *)
(* the capabilities) and only then written.  The port is left out: a       *)
(* terminal answers at a host.  User and password are one value.  What     *)
(* Home Assistant's flow manager does with unique ids, aborts and reloads  *)
(* is modelled from how the forms use it.                                  *)
(***************************************************************************)
EXTENDS Naturals, FiniteSets

CONSTANTS
    Terminals,    \* serial numbers
    Hosts,        \* addresses
    Secrets,      \* credentials
    Entries,      \* ids a config entry may get
    Flows,        \* forms that may be open at once
    Nobody,       \* instead of a terminal
    NoEntry,      \* instead of an entry's data
    NoForm,       \* instead of a form's
    MaxChanges    \* bound: moves, new passwords and removals

Typed == [host : Hosts, secret : Secrets]
Data  == [uid : Terminals, host : Hosts, secret : Secrets]
Forms ==
    [step : {"identify", "discover"}, kind : {"user", "reauth", "reconfigure"},
     id : Entries \cup {Nobody}, data : Typed, found : Terminals \cup {Nobody}]

ASSUME ConfigFlowAssumption ==
    /\ Nobody \notin Terminals \cup Entries
    /\ NoEntry \notin Data /\ NoForm \notin Forms
    /\ MaxChanges \in Nat

VARIABLES
    home,      \* the terminal that answers at an address
    secret,    \* the credentials a terminal takes
    entries,   \* the config entries: unique id, host and credentials
    running,   \* the data a loaded entry was set up with, or NoEntry
    flow,      \* the open forms
    proven,    \* history: who answered where and took which credentials
    changes

world == <<home, secret>>
vars  == <<world, entries, running, flow, proven, changes>>

Init ==
    /\ home \in [Hosts -> Terminals \cup {Nobody}]
    /\ \A t \in Terminals : Cardinality({h \in Hosts : home[h] = t}) = 1
    /\ secret \in [Terminals -> Secrets]
    /\ entries = [i \in Entries |-> NoEntry]
    /\ running = [i \in Entries |-> NoEntry]
    /\ flow = [f \in Flows |-> NoForm]
    /\ proven = {}
    /\ changes = 0

Exists(i) == entries[i] # NoEntry
EntryOf(t) == {i \in Entries : Exists(i) /\ entries[i].uid = t}
Close(f) == flow' = [flow EXCEPT ![f] = NoForm]

-----------------------------------------------------------------------------
(* The world: DHCP, somebody at the terminal, the user who removes.        *)

Change == changes < MaxChanges /\ changes' = changes + 1

Move ==
    /\ Change
    /\ \E a, b \in Hosts :
        /\ home[a] # home[b]
        /\ home' = [home EXCEPT ![a] = home[b], ![b] = home[a]]
    /\ UNCHANGED <<secret, entries, running, flow, proven>>

NewSecret ==
    /\ Change
    /\ \E t \in Terminals, s \in Secrets : secret' = [secret EXCEPT ![t] = s]
    /\ UNCHANGED <<home, entries, running, flow, proven>>

\* async_remove_entry; the reauth forms of the entry are closed with it.
RemoveEntry(i) ==
    /\ Change /\ Exists(i)
    /\ entries' = [entries EXCEPT ![i] = NoEntry]
    /\ running' = [running EXCEPT ![i] = NoEntry]
    /\ flow' = [f \in Flows |->
                  IF flow[f] # NoForm /\ flow[f].kind = "reauth" /\ flow[f].id = i
                  THEN NoForm ELSE flow[f]]
    /\ UNCHANGED <<world, proven>>

-----------------------------------------------------------------------------
(* The forms.                                                              *)

\* async_step_user, with what the user typed.
SubmitUser(f) ==
    /\ flow[f] = NoForm
    /\ \E d \in Typed :
        flow' = [flow EXCEPT ![f] = [step |-> "identify", kind |-> "user",
                                     id |-> Nobody, data |-> d, found |-> Nobody]]
    /\ UNCHANGED <<world, entries, running, proven, changes>>

ReauthOpen(t) ==
    \E g \in Flows : /\ flow[g] # NoForm /\ flow[g].kind = "reauth"
                     /\ flow[g].id \in EntryOf(t)

\* async_step_reauth_confirm: the host is the entry's, as it is now.
SubmitReauth(f, i) ==
    /\ flow[f] = NoForm /\ Exists(i) /\ ~ReauthOpen(entries[i].uid)
    /\ \E s \in Secrets :
        flow' = [flow EXCEPT ![f] =
                    [step |-> "identify", kind |-> "reauth", id |-> i,
                     data |-> [host |-> entries[i].host, secret |-> s],
                     found |-> Nobody]]
    /\ UNCHANGED <<world, entries, running, proven, changes>>

\* async_step_reconfigure: an empty password keeps the entry's.
SubmitReconfigure(f, i) ==
    /\ flow[f] = NoForm /\ Exists(i)
    /\ \E h \in Hosts, s \in Secrets :
        flow' = [flow EXCEPT ![f] =
                    [step |-> "identify", kind |-> "reconfigure", id |-> i,
                     data |-> [host |-> h, secret |-> s], found |-> Nobody]]
    /\ UNCHANGED <<world, entries, running, proven, changes>>

Takes(h, s) == home[h] # Nobody /\ secret[home[h]] = s

\* The first await of _probe: deviceInfo answers, or the form shows an error.
Identify(f) ==
    /\ flow[f] # NoForm /\ flow[f].step = "identify"
    /\ LET d == flow[f].data
       IN \/ /\ Takes(d.host, d.secret)
             /\ flow' = [flow EXCEPT ![f].step = "discover", ![f].found = home[d.host]]
             /\ proven' = proven \cup {<<home[d.host], d.host, d.secret>>}
          \/ ~Takes(d.host, d.secret) /\ Close(f) /\ UNCHANGED proven
    /\ UNCHANGED <<world, entries, running, changes>>

\* An entry's data changes and its reload begins.
Update(i, data) ==
    /\ entries' = [entries EXCEPT ![i] = data]
    /\ running' = [running EXCEPT ![i] = NoEntry]

\* Mutant: the unique id is not looked up.
FinishUser_Always(f) ==
    LET d == flow[f].data
        t == flow[f].found
    IN \E i \in Entries :
        /\ ~Exists(i)
        /\ entries' = [entries EXCEPT ![i] =
                          [uid |-> t, host |-> d.host, secret |-> d.secret]]
        /\ UNCHANGED running

\* async_set_unique_id aborts next to an open reauth form of the terminal;
\* _abort_if_unique_id_configured gives a known entry the new host, and only
\* that; an unknown terminal becomes an entry.
FinishUser(f) ==
    LET d == flow[f].data
        t == flow[f].found
    IN \/ ReauthOpen(t) /\ UNCHANGED <<entries, running>>
       \/ /\ ~ReauthOpen(t)
          /\ \E i \in EntryOf(t) :
                IF entries[i].host = d.host THEN UNCHANGED <<entries, running>>
                ELSE Update(i, [entries[i] EXCEPT !.host = d.host])
       \/ /\ ~ReauthOpen(t) /\ EntryOf(t) = {}
          /\ \E i \in Entries :
                /\ ~Exists(i)
                /\ Update(i, [uid |-> t, host |-> d.host, secret |-> d.secret])

\* Mutant: whoever answers is taken for the entry's terminal.
FinishKnown_AnyDevice(f) ==
    LET d == flow[f].data
        i == flow[f].id
    IN IF Exists(i) THEN Update(i, [entries[i] EXCEPT !.host = d.host,
                                                      !.secret = d.secret])
       ELSE UNCHANGED <<entries, running>>

\* reauth and reconfigure: wrong_device, or the whole of the data is written.
FinishKnown(f) ==
    LET d == flow[f].data
        i == flow[f].id
    IN \/ /\ Exists(i) /\ flow[f].found = entries[i].uid
          /\ Update(i, [entries[i] EXCEPT !.host = d.host, !.secret = d.secret])
       \/ /\ ~(Exists(i) /\ flow[f].found = entries[i].uid)
          /\ UNCHANGED <<entries, running>>

\* The second await of _probe is over, or a request of it failed.
Finish(f) ==
    /\ flow[f] # NoForm /\ flow[f].step = "discover"
    /\ \/ flow[f].kind = "user" /\ FinishUser(f)
       \/ flow[f].kind # "user" /\ FinishKnown(f)
       \/ UNCHANGED <<entries, running>>
    /\ Close(f)
    /\ UNCHANGED <<world, proven, changes>>

-----------------------------------------------------------------------------
\* async_setup_entry reads the entry's data; it does not compare the serial
\* number that answers with the entry's unique id.
SetUpEntry(i) ==
    /\ Exists(i) /\ running[i] = NoEntry
    /\ Takes(entries[i].host, entries[i].secret)
    /\ running' = [running EXCEPT ![i] = entries[i]]
    /\ UNCHANGED <<world, entries, flow, proven, changes>>

Form(f) ==
    \/ SubmitUser(f)
    \/ \E i \in Entries : SubmitReauth(f, i) \/ SubmitReconfigure(f, i)
    \/ Identify(f) \/ Finish(f)

Next ==
    \/ Move \/ NewSecret
    \/ \E i \in Entries : RemoveEntry(i) \/ SetUpEntry(i)
    \/ \E f \in Flows : Form(f)

Spec == Init /\ [][Next]_vars

-----------------------------------------------------------------------------
TypeOK ==
    /\ home \in [Hosts -> Terminals \cup {Nobody}]
    /\ secret \in [Terminals -> Secrets]
    /\ entries \in [Entries -> Data \cup {NoEntry}]
    /\ running \in [Entries -> Data \cup {NoEntry}]
    /\ flow \in [Flows -> Forms \cup {NoForm}]
    /\ \A f \in Flows : flow[f] # NoForm =>
        /\ flow[f].found = Nobody <=> flow[f].step = "identify"
        /\ flow[f].id = Nobody <=> flow[f].kind = "user"
    /\ proven \subseteq Terminals \X Hosts \X Secrets
    /\ changes \in 0..MaxChanges

(* However many forms race, a terminal has one entry: the unique id is      *)
(* looked up after the last await before an entry is created.               *)
OneEntryPerTerminal ==
    \A t \in Terminals : \A i, j \in EntryOf(t) : i = j

(* Whatever moved and whichever forms overlapped: the address of an entry   *)
(* has answered as its terminal, and its credentials were taken by it.      *)
Proven ==
    \A i \in Entries : Exists(i) =>
        /\ \E s \in Secrets : <<entries[i].uid, entries[i].host, s>> \in proven
        /\ \E h \in Hosts : <<entries[i].uid, h, entries[i].secret>> \in proven

=============================================================================
