--------------------------- MODULE CaptureSession ---------------------------
(***************************************************************************)
(* One device's capture sessions, one after another                        *)
(* (crates/openlogi-device/src/session/gesture.rs and keyboard.rs), and    *)
(* the restore of what they diverted (capture_restore.rs): controls are    *)
(* diverted one by one, re-diverted when the device wakes, and given back  *)
(* on stop, on a failed start, or by later retries of a token that the     *)
(* caller keeps, over whatever channel the registry then publishes.        *)
(*                                                                         *)
(* Concurrent with it: inventory changes the publication, the host         *)
(* suspends and resumes device I/O, the device loses its diversions and    *)
(* announces that it is back, the channel goes deaf (writes are accepted,  *)
(* nothing comes back), single writes fail with or without effect.  What   *)
(* is captured is not modelled.                                            *)
(***************************************************************************)
EXTENDS Naturals

CONSTANTS Controls,     \* controls of the device, its thumb wheel included
          Channels,     \* channels inventory may publish for the route
          Own,          \* the channel a standalone session opens itself
          Strikes,      \* SILENT_STRIKES_BEFORE_RESTART
          Watched,      \* mouse sessions ping an idle channel, keyboards not
          None

ASSUME CaptureAssumption ==
    /\ Strikes \in Nat \ {0}
    /\ Watched \in BOOLEAN
    /\ None \notin Channels \cup {Own}
    /\ Own \notin Channels

VARIABLES
    published,  \* channel the registry has for the device's route
    allowed,    \* the device-I/O gate is open ...
    lost,       \* ... and nobody is left to move it
    deaf,       \* nothing comes back on the session's channel any more
    flaky,      \* writes still fail now and then
    diverted,   \* controls the firmware diverts
    pc,         \* what the session, or the restore, is doing
    standalone, \* no registry: the session opened its own channel
    on, gone,   \* its channel; since closed
    left,       \* controls this phase still has to write
    owned,      \* ArmedControls::reporting, later the token's controls
    found,      \* those of them found diverted already
    policy,     \* RetiredChannelPolicy
    via, ok,    \* channel a restore writes through; no write failed so far
    stopAsked,  \* shutdown was requested
    wake,       \* a reconnect broadcast waits
    resumed,    \* a reopening of the gate not yet noticed
    fresh,      \* reports came in that liveness has not seen
    strikes,    \* CaptureLiveness::silent_strikes
    cause,      \* ghost: why the session stopped
    quiet,      \* ghost: pings since a report last came in, and ...
    awake,      \* ... since the gate last reopened, both up to Strikes
    touched     \* ghost: controls that were ever owned

envVars == <<published, allowed, lost, deaf, flaky>>
armVars == <<standalone, on, gone, owned, found, touched>>
restoreVars == <<policy, via, ok>>
ghostVars == <<quiet, awake>>
watchVars == <<stopAsked, wake, resumed, fresh, strikes, ghostVars>>
vars == <<envVars, diverted, pc, left, armVars, restoreVars, watchVars, cause>>

Monitored == {"active", "waking", "rearming", "pinging"}
Owing == {"lookup", "restoring", "pending"}
Causes == {"none", "gate", "changed", "shutdown", "silent", "failed"}

EnvTypes ==
    /\ published \in Channels \cup {None}
    /\ {allowed, lost, deaf, flaky} \subseteq BOOLEAN

HoldTypes ==
    /\ pc \in {"idle", "arming"} \cup Monitored \cup Owing
    /\ {on, via} \subseteq Channels \cup {Own, None}
    /\ {standalone, gone, ok} \subseteq BOOLEAN
    /\ diverted \subseteq Controls /\ left \subseteq Controls
    /\ owned \subseteq Controls /\ found \subseteq owned
    /\ touched \subseteq Controls
    /\ policy \in {"replacementOnly", "currentAllowed"}

FlagTypes == {stopAsked, wake, resumed, fresh} \subseteq BOOLEAN

CountTypes ==
    /\ strikes \in 0..(Strikes - 1)
    /\ {quiet, awake} \subseteq 0..Strikes
    /\ cause \in Causes

TypeOK == EnvTypes /\ HoldTypes /\ FlagTypes /\ CountTypes

\* Diversions may be left over from a session that never tore down.
Init ==
    /\ published \in Channels \cup {None}
    /\ allowed = TRUE /\ lost = FALSE /\ deaf = FALSE /\ flaky = TRUE
    /\ diverted \in SUBSET Controls
    /\ pc = "idle" /\ standalone = FALSE
    /\ on = None /\ gone = FALSE
    /\ left = {} /\ owned = {} /\ found = {} /\ touched = {}
    /\ policy = "replacementOnly" /\ via = None /\ ok = TRUE
    /\ stopAsked = FALSE /\ wake = FALSE /\ resumed = FALSE
    /\ fresh = FALSE /\ strikes = 0 /\ quiet = 0 /\ awake = 0
    /\ cause = "none"
-----------------------------------------------------------------------------
\* How a write through c ends: done; with effect but no answer; refused.
Outcomes(c) ==
    {"refused"}
        \cup (IF allowed THEN {"unanswered"} ELSE {})
        \cup (IF allowed /\ ~(deaf /\ c = on /\ ~gone) THEN {"done"} ELSE {})

Settled(c) == IF ~flaky /\ "done" \in Outcomes(c) THEN {"done"} ELSE Outcomes(c)

\* ChannelRegistry::is_current of the session's channel.
Current == standalone \/ published = on

\* Every monitoring state is forgotten when the session stops.
Forget ==
    /\ stopAsked' = FALSE /\ wake' = FALSE /\ resumed' = FALSE
    /\ fresh' = FALSE /\ strikes' = 0

Release ==
    /\ pc' = "idle"
    /\ owned' = {} /\ found' = {}

\* stop_for_current_publication: what is given back, and whether the channel
\* that armed it may do that.  A session that owns nothing is done.
Stop(why) ==
    /\ cause' = why
    /\ Forget
    /\ policy' = IF Current THEN "currentAllowed" ELSE "replacementOnly"
    /\ IF owned = {} THEN Release
       ELSE pc' = "lookup" /\ UNCHANGED <<owned, found>>
    /\ UNCHANGED <<envVars, diverted, left, standalone, on, gone, touched, via,
                   ok>>
-----------------------------------------------------------------------------
(***************************************************************************)
(* Arming.                                                                 *)
(***************************************************************************)
Start ==
    /\ pc = "idle" /\ allowed
    /\ \/ standalone' = FALSE /\ published # None /\ on' = published
       \/ standalone' = TRUE /\ on' = Own
    /\ pc' = "arming" /\ gone' = FALSE
    /\ left' \in SUBSET Controls
    /\ deaf' \in BOOLEAN
    /\ policy' = "replacementOnly"
    /\ cause' = "none" /\ quiet' = 0 /\ awake' = 0
    /\ UNCHANGED <<published, allowed, lost, flaky, diverted, owned, found,
                   touched, via, ok, stopAsked, wake, resumed, fresh,
                   strikes>>

\* rollback_capture_start
RollBack ==
    /\ pc' = "lookup" /\ policy' = "currentAllowed" /\ left' = {}
    /\ Forget

\* A read that precedes a divert fails; nothing owned, nothing to roll back.
ArmReadFails ==
    /\ pc = "arming"
    /\ IF owned = {}
       THEN Release /\ Forget /\ left' = {} /\ UNCHANGED policy
       ELSE RollBack /\ UNCHANGED <<owned, found>>
    /\ UNCHANGED <<envVars, diverted, standalone, on, gone, touched, via, ok,
                   ghostVars, cause>>

Divert(k, outcome) ==
    diverted' = IF outcome = "refused" THEN diverted ELSE diverted \cup {k}

\* Mutant: a control is owned once its divert was answered.
ArmWriteThenOwn(k) ==
    /\ pc = "arming" /\ k \in left
    /\ touched' = touched \cup {k}
    /\ \E outcome \in Settled(on) :
          /\ Divert(k, outcome)
          /\ IF outcome = "done"
             THEN /\ owned' = owned \cup {k}
                  /\ left' = left \ {k}
                  /\ UNCHANGED <<pc, policy, stopAsked, wake, resumed, fresh,
                                 strikes>>
             ELSE RollBack /\ UNCHANGED owned
    /\ UNCHANGED <<envVars, standalone, on, gone, found, via, ok, ghostVars,
                   cause>>

\* Ownership is recorded before the write: one that fails may still have
\* reached the firmware.
ArmWrite(k) ==
    /\ pc = "arming" /\ k \in left
    /\ owned' = owned \cup {k} /\ touched' = touched \cup {k}
    /\ found' = IF k \in diverted THEN found \cup {k} ELSE found
    /\ \E outcome \in Settled(on) :
          /\ Divert(k, outcome)
          /\ IF outcome = "done"
             THEN /\ left' = left \ {k}
                  /\ UNCHANGED <<pc, policy, stopAsked, wake, resumed, fresh,
                                 strikes>>
             ELSE RollBack
    /\ UNCHANGED <<envVars, standalone, on, gone, via, ok, ghostVars,
                   cause>>

Armed ==
    /\ pc = "arming" /\ left = {}
    /\ pc' = "active"
    /\ UNCHANGED <<envVars, diverted, left, armVars, restoreVars, watchVars,
                   cause>>
-----------------------------------------------------------------------------
(***************************************************************************)
(* Monitoring: monitor_capture and monitor_keyboard_capture.  select! is   *)
(* biased, so a branch is taken when none before it is ready.              *)
(***************************************************************************)
Polling == pc = "active" /\ allowed /\ ~lost /\ ~resumed

GateGone == pc = "active" /\ lost /\ Stop("gate") /\ UNCHANGED ghostVars

\* CaptureLiveness::record_activity: counts only if reports came in.
TakeActivity ==
    /\ fresh' = FALSE
    /\ strikes' = IF fresh THEN 0 ELSE strikes

\* The gate was reopened.
NoteResume ==
    /\ pc = "active" /\ allowed /\ ~lost /\ resumed
    /\ resumed' = FALSE /\ awake' = 0
    /\ TakeActivity
    /\ UNCHANGED <<envVars, diverted, pc, left, armVars, restoreVars,
                   stopAsked, wake, quiet, cause>>

ChangeSeen ==
    Polling /\ ~Current /\ Stop("changed") /\ UNCHANGED ghostVars

ShutdownSeen ==
    /\ Polling /\ Current /\ stopAsked
    /\ Stop("shutdown") /\ UNCHANGED ghostVars

Quiescent == Polling /\ Current /\ ~stopAsked

Wake ==
    /\ pc' = "waking" /\ wake' = FALSE
    /\ UNCHANGED <<envVars, diverted, left, armVars, restoreVars, stopAsked,
                   resumed, fresh, strikes, ghostVars, cause>>

\* Mutant: the branches are polled in any order.
WakeUnbiased == Polling /\ wake /\ Wake

WakeSeen == Quiescent /\ wake /\ Wake

\* After the settling pause: nothing is written while I/O is suspended.
Rearm ==
    /\ pc = "waking"
    /\ IF allowed THEN pc' = "rearming" /\ left' = owned
       ELSE pc' = "active" /\ UNCHANGED left
    /\ UNCHANGED <<envVars, diverted, armVars, restoreVars, watchVars, cause>>

\* Failures are logged and passed over; the channel may be obsolete by now.
RearmWrite(k) ==
    /\ pc = "rearming" /\ k \in left
    /\ left' = left \ {k}
    /\ \E outcome \in Settled(on) : Divert(k, outcome)
    /\ UNCHANGED <<envVars, pc, armVars, restoreVars, watchVars, cause>>

Rearmed ==
    /\ pc = "rearming" /\ left = {}
    /\ pc' = "active"
    /\ UNCHANGED <<envVars, diverted, left, armVars, restoreVars, watchVars,
                   cause>>

ActivitySeen ==
    /\ Quiescent /\ ~wake /\ fresh
    /\ TakeActivity
    /\ UNCHANGED <<envVars, diverted, pc, left, armVars, restoreVars,
                   stopAsked, wake, resumed, ghostVars, cause>>

CountPing(n) == IF n < Strikes THEN n + 1 ELSE n

Ping ==
    /\ pc' = "pinging"
    /\ quiet' = CountPing(quiet) /\ awake' = CountPing(awake)
    /\ UNCHANGED <<envVars, diverted, left, armVars, restoreVars, stopAsked,
                   wake, resumed, fresh, cause>>

\* Mutant: a new idle interval starts with a clean slate.
IdleDueForgives ==
    Quiescent /\ ~wake /\ ~fresh /\ Watched /\ Ping /\ strikes' = 0

\* An idle interval has passed without a report.
IdleDue ==
    Quiescent /\ ~wake /\ ~fresh /\ Watched /\ Ping /\ UNCHANGED strikes

Strike ==
    IF strikes + 1 >= Strikes THEN Stop("silent") /\ UNCHANGED ghostVars
    ELSE /\ pc' = "active" /\ strikes' = strikes + 1
         /\ UNCHANGED <<envVars, diverted, left, armVars, restoreVars,
                        stopAsked, wake, resumed, fresh, ghostVars, cause>>

Alive ==
    /\ pc' = "active" /\ strikes' = 0 /\ fresh' = FALSE
    /\ UNCHANGED <<envVars, diverted, left, armVars, restoreVars, stopAsked,
                   wake, resumed, awake, cause>>

PingAnswered == pc = "pinging" /\ ~deaf /\ Alive /\ quiet' = 0

\* Mutant: a report that came in during the ping does not count.
StrikeAnyway == pc = "pinging" /\ Strike

\* A report that came in beside the ping proves delivery all the same.
PingSilent ==
    pc = "pinging" /\ IF fresh THEN Alive /\ UNCHANGED quiet ELSE Strike

PingFails == pc = "pinging" /\ Stop("failed") /\ UNCHANGED ghostVars
-----------------------------------------------------------------------------
(***************************************************************************)
(* Giving back: PendingCaptureRestore::retry, restore_standalone.          *)
(***************************************************************************)
\* The token holds a weak reference to the channel that armed it.
OnRetired == published = on /\ ~gone

Begin(c) ==
    /\ pc' = "restoring" /\ via' = c /\ left' = owned /\ ok' = TRUE

Defer == pc' = "pending" /\ UNCHANGED <<via, left, ok>>

\* Mutant: the route is compared instead of the channel.
LookUpByRoute ==
    /\ pc = "lookup"
    /\ cause' = "none"
    /\ IF standalone THEN Begin(on)
       ELSE IF published = None \/ policy = "replacementOnly" THEN Defer
       ELSE Begin(published)
    /\ UNCHANGED <<envVars, diverted, armVars, policy, watchVars>>

LookUp ==
    /\ pc = "lookup"
    /\ cause' = "none"
    /\ IF standalone THEN Begin(on)
       ELSE IF published = None \/ (policy = "replacementOnly" /\ OnRetired)
       THEN Defer ELSE Begin(published)
    /\ UNCHANGED <<envVars, diverted, armVars, policy, watchVars>>

\* Mutant: what a control was found to be is what it is restored to.
RestoreReplays(k) ==
    /\ pc = "restoring" /\ k \in left
    /\ left' = left \ {k}
    /\ \E outcome \in Settled(via) :
          /\ diverted' = IF outcome = "refused" \/ k \in found THEN diverted
                         ELSE diverted \ {k}
          /\ ok' = (ok /\ outcome = "done")
    /\ UNCHANGED <<envVars, pc, armVars, policy, via, watchVars, cause>>

\* undivert_change clears the diversion whatever the control was before.
RestoreWrite(k) ==
    /\ pc = "restoring" /\ k \in left
    /\ left' = left \ {k}
    /\ \E outcome \in Settled(via) :
          /\ diverted' = IF outcome = "refused" THEN diverted
                         ELSE diverted \ {k}
          /\ ok' = (ok /\ outcome = "done")
    /\ UNCHANGED <<envVars, pc, armVars, policy, via, watchVars, cause>>

\* Accepted if all was written and its publication is still current.
FinishRestore ==
    /\ pc = "restoring" /\ left = {}
    /\ via' = None /\ ok' = TRUE
    /\ IF ok /\ (standalone \/ published = via) THEN Release
       ELSE pc' = "pending" /\ UNCHANGED <<owned, found>>
    /\ UNCHANGED <<envVars, diverted, left, standalone, on, gone, touched,
                   policy, watchVars, cause>>

\* The caller retries the token it keeps; a retry goes by the registry.
Retry ==
    /\ pc = "pending"
    /\ pc' = "lookup" /\ standalone' = FALSE
    /\ UNCHANGED <<envVars, diverted, left, on, gone, owned, found, touched,
                   restoreVars, watchVars, cause>>
-----------------------------------------------------------------------------
(***************************************************************************)
(* Beside the session.                                                     *)
(***************************************************************************)
\* Inventory publishes another channel for the route, or none, or the same
\* one again: a slot that is missing from one pass loses its route and gets
\* it back on the receiver's channel.
Publish ==
    /\ published' \in (Channels \cup {None}) \ {published}
    /\ UNCHANGED <<allowed, lost, deaf, flaky, diverted, pc, left, armVars,
                   restoreVars, watchVars, cause>>

\* The last reference to the retired channel goes.
CloseRetired ==
    /\ pc = "pending" /\ published # on /\ ~gone
    /\ gone' = TRUE
    /\ UNCHANGED <<envVars, diverted, pc, left, standalone, on, owned, found,
                   touched, restoreVars, watchVars, cause>>

Suspend ==
    /\ allowed /\ ~lost
    /\ allowed' = FALSE
    /\ UNCHANGED <<published, lost, deaf, flaky, diverted, pc, left, armVars,
                   restoreVars, watchVars, cause>>

Resume ==
    /\ ~allowed /\ ~lost
    /\ allowed' = TRUE
    /\ resumed' = (pc \in {"arming"} \cup Monitored)
    /\ UNCHANGED <<published, lost, deaf, flaky, diverted, pc, left, armVars,
                   restoreVars, stopAsked, wake, fresh, strikes, ghostVars,
                   cause>>

LoseGate ==
    /\ ~lost /\ lost' = TRUE
    /\ UNCHANGED <<published, allowed, deaf, flaky, diverted, pc, left,
                   armVars, restoreVars, watchVars, cause>>

AskStop ==
    /\ pc \in {"arming"} \cup Monitored /\ ~stopAsked
    /\ stopAsked' = TRUE
    /\ UNCHANGED <<envVars, diverted, pc, left, armVars, restoreVars, wake,
                   resumed, fresh, strikes, ghostVars, cause>>

\* The device loses its diversions; a session may hear that it is back.
PowerCycle ==
    /\ diverted' = {}
    /\ wake' \in IF pc \in Monitored /\ ~deaf THEN {wake, TRUE} ELSE {wake}
    /\ UNCHANGED <<envVars, pc, left, armVars, restoreVars, stopAsked,
                   resumed, fresh, strikes, ghostVars, cause>>

\* Any report: ChannelActivity::record
Hear ==
    /\ Watched /\ pc \in Monitored /\ ~deaf
    /\ fresh' = TRUE /\ quiet' = 0
    /\ UNCHANGED <<envVars, diverted, pc, left, armVars, restoreVars,
                   stopAsked, wake, resumed, strikes, awake, cause>>

GoDeaf ==
    /\ ~deaf /\ deaf' = TRUE
    /\ UNCHANGED <<published, allowed, lost, flaky, diverted, pc, left,
                   armVars, restoreVars, watchVars, cause>>

Settle ==
    /\ flaky /\ flaky' = FALSE
    /\ UNCHANGED <<published, allowed, lost, deaf, diverted, pc, left,
                   armVars, restoreVars, watchVars, cause>>
-----------------------------------------------------------------------------
Arming ==
    \/ ArmReadFails \/ Armed
    \/ \E k \in Controls : ArmWrite(k)

Monitoring ==
    \/ GateGone \/ NoteResume \/ ChangeSeen \/ ShutdownSeen
    \/ WakeSeen \/ Rearm \/ Rearmed
    \/ ActivitySeen
    \/ IdleDue \/ PingAnswered \/ PingSilent \/ PingFails
    \/ \E k \in Controls : RearmWrite(k)

Restoring ==
    \/ LookUp \/ FinishRestore \/ Retry
    \/ \E k \in Controls : RestoreWrite(k)

Beside ==
    \/ Publish \/ CloseRetired
    \/ Suspend \/ Resume \/ LoseGate
    \/ AskStop \/ PowerCycle \/ Hear \/ GoDeaf \/ Settle

Next == Start \/ Arming \/ Monitoring \/ Restoring \/ Beside

Spec == Init /\ [][Next]_vars

\* The session's task runs, its idle timer fires and pings time out; the
\* caller retries its token on every inventory change and every tick.  What
\* the world does is owed to nobody.
FairSpec == Spec /\ WF_vars(Arming \/ Monitoring) /\ WF_vars(Restoring)
-----------------------------------------------------------------------------
(***************************************************************************)
(* Safety                                                                  *)
(***************************************************************************)
\* Once a capture has returned Restored, or a start has failed clean, no
\* control that this process diverted is still diverted, whatever write
\* failed half way, whichever channel did the restore, and however often the
\* device woke and was re-armed (capture_restore.rs, CaptureSessionOutcome).
RestoredMeansReleased == pc = "idle" => diverted \cap touched = {}

\* The channel is given up as silent only if every one of the last Strikes
\* pings stayed unanswered and no report of any kind came in since the first
\* (liveness.rs, finish_ping: activity racing a silent result wins).
SilentMeansSilent == cause = "silent" => quiet = Strikes

\* A strike from before the host slept is cleared when it resumes, so a
\* silent verdict rests on pings sent since then (gesture.rs, the comment in
\* monitor_capture on what visible resume does to a pre-sleep strike).
PreSleepStrikeCleared == cause = "silent" => awake = Strikes
-----------------------------------------------------------------------------
(***************************************************************************)
(* Liveness                                                                *)
(***************************************************************************)
\* A requested stop is acted on while I/O is allowed, however often the
\* device wakes, reports or is pinged (gesture.rs, the biased select!).
StopIsSeen == stopAsked ~> (~stopAsked \/ ~allowed)

\* A channel that delivers nothing any more is left by its session
\* (gesture.rs, the liveness watchdog).
DeafnessNoticed ==
    <>[]allowed
        => ((Watched /\ deaf /\ pc \in Monitored) ~> pc \notin Monitored)

\* A token is redeemed once another channel than the one that armed it stays
\* published and works (capture_restore.rs, retry).
RestoredElsewhere ==
    \A c \in Channels :
        <>[](published = c /\ allowed /\ ~flaky /\ ~OnRetired)
            => []<>(pc \notin Owing)

\* A token is redeemed once any working channel stays published for the
\* route: the caller retries "on the current inventory channel" (gesture.rs,
\* run_capture_session).
RetryReleases ==
    \A c \in Channels :
        <>[](published = c /\ allowed /\ ~flaky /\ ~deaf)
            => []<>(pc \notin Owing)
-----------------------------------------------------------------------------
(***************************************************************************)
(* The inductive invariant                                                 *)
(***************************************************************************)
\* Whatever is still diverted is owed: by the session or by its token, and
\* in a restore that has seen no failure by the writes still to come.
OwedInv ==
    /\ diverted \cap touched \subseteq owned
    /\ pc = "restoring" /\ ok => diverted \cap touched \subseteq left
    /\ pc = "rearming" => left \subseteq owned
    /\ pc = "idle" => owned = {}

\* Strikes are pings that nothing has answered, or a report is waiting that
\* will clear them.
StrikeInv ==
    /\ pc \in Monitored \ {"pinging"} /\ ~fresh => strikes <= quiet
    /\ pc = "pinging" /\ ~fresh => strikes + 1 <= quiet
    /\ pc \in {"idle", "arming"} \cup Owing => strikes = 0 /\ ~fresh
    /\ pc \in {"arming"} \cup Monitored => cause # "silent"

IInv == TypeOK /\ OwedInv /\ StrikeInv /\ SilentMeansSilent
=============================================================================
