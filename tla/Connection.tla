----------------------------- MODULE Connection -----------------------------
(***************************************************************************)
(* The listener inside a config entry: async_setup_entry with its retries, *)
(* the health coordinator, the connection sensor that shows both, and the  *)
(* reauth flow that only one answer of the terminal starts.                *)
(*                                                                         *)
(* The entry takes the stream route, so that every successful setup starts *)
(* the listener.  PushSlots is about the choice of the route, Lockout about*)
(* the park behind the mood "locked".                                      *)
(***************************************************************************)
EXTENDS Listener

VARIABLES
    entry,     \* the config entry's state
    polled,    \* the health coordinator's last_update_success
    polling,   \* its next refresh is scheduled
    shown,     \* the connection sensor's state as it was last written
    reauth     \* the user is asked for credentials

panel == <<entry, polled, polling, shown, reauth>>
cvars == <<vars, panel>>

\* native_value.  What the terminal says of its own network is left out, and
\* so is the state "error", which no listener reaches.
NativeValue(s, success) ==
    CASE success = "failed" -> "offline"
      [] success # "failed"
           /\ s \in {"reconnecting", "connecting", "disconnected"} -> "degraded"
      [] OTHER -> "connected"

\* What reaches the state machine: after a failed refresh a CoordinatorEntity is
\* unavailable, and native_value is not asked.
Written(s, success) ==
    IF success = "failed" THEN "unavailable" ELSE NativeValue(s, success)

ConnectionInit ==
    /\ Init
    /\ entry = "unloaded" /\ polled = "never" /\ polling = FALSE
    /\ shown = "unavailable" /\ reauth = FALSE

-----------------------------------------------------------------------------
(* The entry.                                                              *)

\* ConfigEntryNotReady, which is tried again, or ConfigEntryAuthFailed.
Refused ==
    \/ /\ mood \in {"down", "locked", "wrong"}
       /\ entry' = "retry" /\ UNCHANGED reauth
    \/ /\ mood = "forbidden"
       /\ entry' = "auth_failed" /\ reauth' = TRUE

\* The sensor is added, and written, before the listener starts.
Loaded ==
    /\ Answers
    /\ Start
    /\ entry' = "loaded"
    /\ polled' = "ok" /\ polling' = TRUE
    /\ shown' = Written("init", "ok")
    /\ UNCHANGED reauth

SetUp ==
    /\ entry \in {"unloaded", "retry"}
    /\ \/ Loaded
       \/ Refused /\ UNCHANGED <<vars, polled, polling, shown>>

Away ==
    /\ entry' = "unloaded" /\ polled' = "never" /\ polling' = FALSE
    /\ shown' = "unavailable"

\* A reload, or a restart of Home Assistant.
Unload ==
    /\ entry = "loaded"
    /\ Stop /\ Away
    /\ UNCHANGED reauth

\* async_step_reauth_confirm with credentials that pass the probe.
Reauthenticate ==
    /\ reauth
    /\ NewCredentials /\ Away
    /\ reauth' = FALSE

-----------------------------------------------------------------------------
(* The health coordinator and the sensor.                                  *)

\* Whatever the terminal refuses fails the update; only a 403 is an
\* authentication error, after which nothing polls any more.
PollOutcome ==
    /\ polled' = IF Answers THEN "ok" ELSE "failed"
    /\ polling' = (mood # "forbidden")
    /\ reauth' = (reauth \/ mood = "forbidden")

\* Mutant: listeners hear of a change of success only.
Poll_OnChange ==
    /\ entry = "loaded" /\ polling
    /\ PollOutcome
    /\ shown' = IF polled = polled' THEN shown ELSE Written(state, polled')
    /\ UNCHANGED <<vars, entry>>

\* Listeners hear of every refresh but a failure that follows a failure.
Poll ==
    /\ entry = "loaded" /\ polling
    /\ PollOutcome
    /\ shown' = IF polled = "failed" /\ polled' = "failed"
                THEN shown ELSE Written(state, polled')
    /\ UNCHANGED <<vars, entry>>

\* SIGNAL_ACCESS makes the sensor write its state.
Write ==
    /\ shown' = Written(state, polled)
    /\ UNCHANGED <<entry, polled, polling, reauth>>

LiveEvent == Handle /\ Write

Sweep ==
    \/ /\ SweepStarts \/ SweepResumes \/ SweepEnds \/ SweepFails
       /\ UNCHANGED panel
    \/ /\ SweepStores
       /\ \/ stored' # stored /\ Write
          \/ stored' = stored /\ UNCHANGED panel

-----------------------------------------------------------------------------
Next ==
    \/ (Emit \/ Expire \/ EmitFiller \/ ChangeMood) /\ UNCHANGED panel
    \/ LoopNext /\ UNCHANGED panel
    \/ LiveEvent \/ Sweep
    \/ SetUp \/ Unload \/ Reauthenticate
    \/ Poll

Spec == ConnectionInit /\ [][Next]_cvars

\* Home Assistant retries the setup and refreshes the coordinator; the user
\* need never answer the form.
FairSpec ==
    /\ Spec
    /\ ListenerFairness
    /\ WF_cvars(SetUp) /\ WF_cvars(Poll)

-----------------------------------------------------------------------------
PanelTypeOK ==
    /\ entry \in {"unloaded", "retry", "auth_failed", "loaded"}
    /\ polled \in {"never", "ok", "failed"}
    /\ polling \in BOOLEAN /\ reauth \in BOOLEAN
    /\ shown \in {"unavailable", "degraded", "connected"}
    /\ entry = "loaded" <=> pc # "off"

\* Whoever stops to try has asked the user for credentials.
AskedFor ==
    entry = "auth_failed" \/ (entry = "loaded" /\ ~ polling) => reauth

(* A terminal that serves again gets its stream back for good, whatever it  *)
(* refused before, unless setup waits for credentials.                      *)
StreamReturns ==
    <>[](mood = "serves") => <>[](Connected \/ entry = "auth_failed")

(* The connection sensor follows: it says connected in the end, unless a    *)
(* 403 has stopped the polls, and it is unavailable, never offline, for a   *)
(* terminal that stays away, although listener_state stays connected during *)
(* a back-off.                                                              *)
ShownFollows ==
    /\ <>[](mood = "serves") => <>[](shown = "connected" \/ reauth)
    /\ <>[](mood = "down") => <>[](shown = "unavailable")

=============================================================================
