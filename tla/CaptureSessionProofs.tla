------------------------ MODULE CaptureSessionProofs ------------------------
(***************************************************************************)
(* For any device, any channels and any number of strikes: what a capture  *)
(* session diverted is owed until it is given back, and only an unbroken   *)
(* run of silent pings condemns a channel.  And for any controls: what the *)
(* hand does on them and on the wheel is what the consumer is told.        *)
(***************************************************************************)
EXTENDS CaptureSession, CapturedInput, FiniteSetTheorems, WellFoundedInduction, TLAPS

(***************************************************************************)
(* Types.                                                                  *)
(***************************************************************************)
\* Starting and arming a session keeps every variable in its range.
LEMMA ArmingTypes ==
    ASSUME TypeOK, Start \/ Arming PROVE TypeOK'
<1> USE CaptureAssumption
<1>1. CASE Start
    <2>1. EnvTypes'
        BY <1>1 DEF TypeOK, EnvTypes, Start
    <2>2. HoldTypes'
        BY <1>1 DEF TypeOK, EnvTypes, HoldTypes, Start, Monitored, Owing
    <2>3. FlagTypes'
        BY <1>1 DEF TypeOK, FlagTypes, Start
    <2>4. CountTypes'
        BY <1>1 DEF TypeOK, CountTypes, Start, Causes
    <2>. QED BY <2>1, <2>2, <2>3, <2>4 DEF TypeOK
<1>2. CASE ArmReadFails
    <2>1. EnvTypes'
        BY <1>2 DEF TypeOK, EnvTypes, ArmReadFails, RollBack, Release, Forget,
           envVars, ghostVars
    <2>2. HoldTypes'
        BY <1>2 DEF TypeOK, HoldTypes, ArmReadFails, RollBack, Release,
           Forget, envVars, ghostVars, Monitored, Owing
    <2>3. FlagTypes'
        BY <1>2 DEF TypeOK, FlagTypes, ArmReadFails, RollBack, Release,
           Forget, envVars, ghostVars
    <2>4. CountTypes'
        BY <1>2 DEF TypeOK, CountTypes, ArmReadFails, RollBack, Release,
           Forget, envVars, ghostVars, Causes
    <2>. QED BY <2>1, <2>2, <2>3, <2>4 DEF TypeOK
<1>3. CASE Armed
    BY <1>3 DEF TypeOK, EnvTypes, HoldTypes, FlagTypes, CountTypes, Armed,
       envVars, armVars, restoreVars, watchVars, ghostVars, Monitored, Owing,
       Causes
<1>4. ASSUME NEW k \in Controls, ArmWrite(k) PROVE TypeOK'
    <2>1. EnvTypes'
        BY <1>4 DEF TypeOK, EnvTypes, ArmWrite, Divert, RollBack, Forget,
           envVars, ghostVars
    <2>2. HoldTypes'
        BY <1>4 DEF TypeOK, HoldTypes, ArmWrite, Divert, RollBack, Forget,
           envVars, ghostVars, Monitored, Owing
    <2>3. FlagTypes'
        BY <1>4 DEF TypeOK, FlagTypes, ArmWrite, Divert, RollBack, Forget,
           envVars, ghostVars
    <2>4. CountTypes'
        BY <1>4 DEF TypeOK, CountTypes, ArmWrite, Divert, RollBack, Forget,
           envVars, ghostVars, Causes
    <2>. QED BY <2>1, <2>2, <2>3, <2>4 DEF TypeOK
<1>. QED BY <1>1, <1>2, <1>3, <1>4 DEF Arming

\* Stopping a session keeps every variable in its range.
LEMMA StopTypes ==
    ASSUME TypeOK, NEW why \in Causes, Stop(why), UNCHANGED ghostVars
    PROVE  TypeOK'
<1>1. EnvTypes'
    BY CaptureAssumption DEF TypeOK, EnvTypes, Stop, Forget, Release, envVars,
       ghostVars
<1>2. HoldTypes'
    BY CaptureAssumption DEF TypeOK, HoldTypes, Stop, Forget, Release,
       envVars, ghostVars, Monitored, Owing
<1>3. FlagTypes'
    BY CaptureAssumption DEF TypeOK, FlagTypes, Stop, Forget, Release,
       envVars, ghostVars
<1>4. CountTypes'
    BY CaptureAssumption DEF TypeOK, CountTypes, Stop, Forget, Release,
       envVars, ghostVars, Causes
<1>. QED BY <1>1, <1>2, <1>3, <1>4 DEF TypeOK

\* Every branch of the monitoring loop keeps every variable in its range.
LEMMA MonitoringTypes ==
    ASSUME TypeOK, Monitoring PROVE TypeOK'
<1> USE CaptureAssumption
<1>1. CASE GateGone \/ ChangeSeen \/ ShutdownSeen \/ PingFails
    BY <1>1, StopTypes
       DEF GateGone, ChangeSeen, ShutdownSeen, PingFails, Causes
<1>2. CASE NoteResume
    <2>1. EnvTypes'
        BY <1>2 DEF TypeOK, EnvTypes, NoteResume, TakeActivity, envVars,
           armVars, restoreVars
    <2>2. HoldTypes'
        BY <1>2 DEF TypeOK, HoldTypes, NoteResume, TakeActivity, envVars,
           armVars, restoreVars, Monitored, Owing
    <2>3. FlagTypes'
        BY <1>2 DEF TypeOK, FlagTypes, NoteResume, TakeActivity, envVars,
           armVars, restoreVars
    <2>4. CountTypes'
        BY <1>2 DEF TypeOK, CountTypes, NoteResume, TakeActivity, envVars,
           armVars, restoreVars, Causes
    <2>. QED BY <2>1, <2>2, <2>3, <2>4 DEF TypeOK
<1>3. CASE WakeSeen
    BY <1>3 DEF TypeOK, EnvTypes, HoldTypes, FlagTypes, CountTypes, WakeSeen,
       Wake, envVars, armVars, restoreVars, ghostVars, Monitored, Owing,
       Causes
<1>4. CASE Rearm
    BY <1>4 DEF TypeOK, EnvTypes, HoldTypes, FlagTypes, CountTypes, Rearm,
       envVars, armVars, restoreVars, watchVars, ghostVars, Monitored, Owing,
       Causes
<1>5. CASE Rearmed
    BY <1>5 DEF TypeOK, EnvTypes, HoldTypes, FlagTypes, CountTypes, Rearmed,
       envVars, armVars, restoreVars, watchVars, ghostVars, Monitored, Owing,
       Causes
<1>6. CASE ActivitySeen
    <2>1. EnvTypes'
        BY <1>6 DEF TypeOK, EnvTypes, ActivitySeen, TakeActivity, envVars,
           armVars, restoreVars, ghostVars
    <2>2. HoldTypes'
        BY <1>6 DEF TypeOK, HoldTypes, ActivitySeen, TakeActivity, envVars,
           armVars, restoreVars, ghostVars, Monitored, Owing
    <2>3. FlagTypes'
        BY <1>6 DEF TypeOK, FlagTypes, ActivitySeen, TakeActivity, envVars,
           armVars, restoreVars, ghostVars
    <2>4. CountTypes'
        BY <1>6 DEF TypeOK, CountTypes, ActivitySeen, TakeActivity, envVars,
           armVars, restoreVars, ghostVars, Causes
    <2>. QED BY <2>1, <2>2, <2>3, <2>4 DEF TypeOK
<1>7. CASE IdleDue
    BY <1>7 DEF TypeOK, EnvTypes, HoldTypes, FlagTypes, CountTypes, IdleDue,
       Ping, CountPing, envVars, armVars, restoreVars, Monitored, Owing,
       Causes
<1>8. CASE PingAnswered
    <2>1. EnvTypes'
        BY <1>8 DEF TypeOK, EnvTypes, PingAnswered, Alive, envVars, armVars,
           restoreVars
    <2>2. HoldTypes'
        BY <1>8 DEF TypeOK, HoldTypes, PingAnswered, Alive, envVars, armVars,
           restoreVars, Monitored, Owing
    <2>3. FlagTypes'
        BY <1>8 DEF TypeOK, FlagTypes, PingAnswered, Alive, envVars, armVars,
           restoreVars
    <2>4. CountTypes'
        BY <1>8 DEF TypeOK, CountTypes, PingAnswered, Alive, envVars, armVars,
           restoreVars, Causes
    <2>. QED BY <2>1, <2>2, <2>3, <2>4 DEF TypeOK
<1>9. CASE PingSilent
    <2>1. CASE fresh
        <3>1. EnvTypes'
            BY <1>9, <2>1 DEF TypeOK, EnvTypes, PingSilent, Alive, envVars,
               armVars, restoreVars
        <3>2. HoldTypes'
            BY <1>9, <2>1 DEF TypeOK, HoldTypes, PingSilent, Alive, envVars,
               armVars, restoreVars, Monitored, Owing
        <3>3. FlagTypes'
            BY <1>9, <2>1 DEF TypeOK, FlagTypes, PingSilent, Alive, envVars,
               armVars, restoreVars
        <3>4. CountTypes'
            BY <1>9, <2>1 DEF TypeOK, CountTypes, PingSilent, Alive, envVars,
               armVars, restoreVars, Causes
        <3>. QED BY <3>1, <3>2, <3>3, <3>4 DEF TypeOK
    <2>2. CASE ~fresh /\ strikes + 1 >= Strikes
        BY <1>9, <2>2, StopTypes DEF PingSilent, Strike, Causes
    <2>3. CASE ~fresh /\ ~(strikes + 1 >= Strikes)
        BY <1>9, <2>3 DEF TypeOK, EnvTypes, HoldTypes, FlagTypes, CountTypes,
           PingSilent, Strike, envVars, armVars, restoreVars, ghostVars,
           Monitored, Owing, Causes
    <2>. QED BY <2>1, <2>2, <2>3
<1>10. ASSUME NEW k \in Controls, RearmWrite(k) PROVE TypeOK'
    BY <1>10 DEF TypeOK, EnvTypes, HoldTypes, FlagTypes, CountTypes,
       RearmWrite, Divert, envVars, armVars, restoreVars, watchVars,
       ghostVars, Monitored, Owing, Causes
<1>. QED
    BY <1>1, <1>2, <1>3, <1>4, <1>5, <1>6, <1>7, <1>8, <1>9, <1>10
       DEF Monitoring

\* Restoring and retrying keep every variable in its range.
LEMMA RestoringTypes ==
    ASSUME TypeOK, Restoring PROVE TypeOK'
<1> USE CaptureAssumption
<1>1. CASE LookUp
    BY <1>1 DEF TypeOK, EnvTypes, HoldTypes, FlagTypes, CountTypes, LookUp,
       Begin, Defer, envVars, armVars, watchVars, ghostVars, Monitored, Owing,
       Causes
<1>2. CASE FinishRestore
    BY <1>2 DEF TypeOK, EnvTypes, HoldTypes, FlagTypes, CountTypes,
       FinishRestore, Release, envVars, watchVars, ghostVars, Monitored,
       Owing, Causes
<1>3. CASE Retry
    BY <1>3 DEF TypeOK, EnvTypes, HoldTypes, FlagTypes, CountTypes, Retry,
       envVars, restoreVars, watchVars, ghostVars, Monitored, Owing, Causes
<1>4. ASSUME NEW k \in Controls, RestoreWrite(k) PROVE TypeOK'
    BY <1>4 DEF TypeOK, EnvTypes, HoldTypes, FlagTypes, CountTypes,
       RestoreWrite, envVars, armVars, watchVars, ghostVars, Monitored, Owing,
       Causes
<1>. QED BY <1>1, <1>2, <1>3, <1>4 DEF Restoring

\* So does what happens beside the session.
LEMMA BesideTypes ==
    ASSUME TypeOK, Beside PROVE TypeOK'
<1> USE CaptureAssumption
       DEF TypeOK, EnvTypes, HoldTypes, FlagTypes, CountTypes, envVars, armVars, restoreVars, watchVars, ghostVars,
           Monitored, Owing, Causes
<1>1. CASE Publish
    BY <1>1 DEF Publish
<1>2. CASE CloseRetired
    BY <1>2 DEF CloseRetired
<1>3. CASE Suspend \/ LoseGate
    BY <1>3 DEF Suspend, LoseGate
<1>4. CASE Resume
    BY <1>4 DEF Resume
<1>5. CASE AskStop
    BY <1>5 DEF AskStop
<1>6. CASE PowerCycle
    BY <1>6 DEF PowerCycle
<1>7. CASE Hear
    BY <1>7 DEF Hear
<1>8. CASE GoDeaf \/ Settle
    BY <1>8 DEF GoDeaf, Settle
<1>. QED
    BY <1>1, <1>2, <1>3, <1>4, <1>5, <1>6, <1>7, <1>8 DEF Beside
-----------------------------------------------------------------------------
(***************************************************************************)
(* What is diverted is owed.                                               *)
(***************************************************************************)
\* Arming owns a control before it diverts it.
LEMMA ArmingOwes ==
    ASSUME OwedInv, Start \/ Arming PROVE OwedInv'
<1>1. CASE Start
    BY <1>1 DEF OwedInv, Start
<1>2. CASE ArmReadFails
    BY <1>2 DEF OwedInv, ArmReadFails, RollBack, Release, envVars
<1>3. CASE Armed
    BY <1>3 DEF OwedInv, Armed, armVars, restoreVars
<1>4. ASSUME NEW k \in Controls, ArmWrite(k) PROVE OwedInv'
    BY <1>4 DEF OwedInv, ArmWrite, Divert, RollBack
<1>. QED BY <1>1, <1>2, <1>3, <1>4 DEF Arming

\* Stopping forgets only what owes nothing.
LEMMA StopOwes ==
    ASSUME OwedInv, NEW why, Stop(why), pc # "restoring" PROVE OwedInv'
BY DEF OwedInv, Stop, Release

\* Monitoring diverts again only what the session owns.
LEMMA MonitoringOwes ==
    ASSUME OwedInv, Monitoring PROVE OwedInv'
<1>1. CASE GateGone \/ ChangeSeen \/ ShutdownSeen \/ PingFails
    BY <1>1, StopOwes
       DEF GateGone, ChangeSeen, ShutdownSeen, PingFails, Polling
<1>2. CASE NoteResume \/ ActivitySeen
    BY <1>2 DEF OwedInv, NoteResume, ActivitySeen, armVars, restoreVars
<1>3. CASE WakeSeen \/ IdleDue
    BY <1>3 DEF OwedInv, WakeSeen, Wake, IdleDue, Ping, armVars, restoreVars
<1>4. CASE Rearm \/ Rearmed
    BY <1>4 DEF OwedInv, Rearm, Rearmed, armVars, restoreVars
<1>5. CASE PingAnswered
    BY <1>5 DEF OwedInv, PingAnswered, Alive, armVars, restoreVars
<1>6. CASE PingSilent
    <2>1. CASE fresh
        BY <1>6, <2>1 DEF OwedInv, PingSilent, Alive, armVars, restoreVars
    <2>2. CASE ~fresh /\ strikes + 1 >= Strikes
        BY <1>6, <2>2, StopOwes DEF PingSilent, Strike
    <2>3. CASE ~fresh /\ ~(strikes + 1 >= Strikes)
        BY <1>6, <2>3 DEF OwedInv, PingSilent, Strike, armVars, restoreVars
    <2>. QED BY <2>1, <2>2, <2>3
<1>7. ASSUME NEW k \in Controls, RearmWrite(k) PROVE OwedInv'
    BY <1>7 DEF OwedInv, RearmWrite, Divert, armVars, restoreVars
<1>. QED
    BY <1>1, <1>2, <1>3, <1>4, <1>5, <1>6, <1>7 DEF Monitoring

\* A restore that ends well has cleared all that was owed.
LEMMA RestoringOwes ==
    ASSUME OwedInv, Restoring PROVE OwedInv'
<1>1. CASE LookUp
    BY <1>1 DEF OwedInv, LookUp, Begin, Defer, armVars
<1>2. CASE FinishRestore
    BY <1>2 DEF OwedInv, FinishRestore, Release
<1>3. CASE Retry
    BY <1>3 DEF OwedInv, Retry
<1>4. ASSUME NEW k \in Controls, RestoreWrite(k) PROVE OwedInv'
    <2>. PICK outcome \in Settled(via) :
            /\ diverted' = IF outcome = "refused" THEN diverted
                           ELSE diverted \ {k}
            /\ ok' = (ok /\ outcome = "done")
        BY <1>4 DEF RestoreWrite
    <2>1. CASE outcome = "refused"
        BY <1>4, <2>1 DEF OwedInv, RestoreWrite, armVars
    <2>2. CASE outcome # "refused"
        BY <1>4, <2>2 DEF OwedInv, RestoreWrite, armVars
    <2>. QED BY <2>1, <2>2
<1>. QED BY <1>1, <1>2, <1>3, <1>4 DEF Restoring

\* Nothing beside the session diverts, or takes ownership away.
LEMMA BesideOwes ==
    ASSUME OwedInv, Beside PROVE OwedInv'
<1> USE DEF OwedInv, armVars, restoreVars
<1>1. CASE PowerCycle
    BY <1>1 DEF PowerCycle
<1>2. CASE Publish \/ CloseRetired \/ Suspend \/ Resume \/ LoseGate
    BY <1>2 DEF Publish, CloseRetired, Suspend, Resume, LoseGate
<1>3. CASE AskStop \/ Hear \/ GoDeaf \/ Settle
    BY <1>3 DEF AskStop, Hear, GoDeaf, Settle
<1>. QED BY <1>1, <1>2, <1>3 DEF Beside
-----------------------------------------------------------------------------
(***************************************************************************)
(* A strike is a ping that nothing has answered.                           *)
(***************************************************************************)
StrikesCounted == StrikeInv /\ SilentMeansSilent

\* A session begins, and fails to begin, without strikes.
LEMMA ArmingStrikes ==
    ASSUME TypeOK, StrikesCounted, Start \/ Arming PROVE StrikesCounted'
<1> USE DEF TypeOK, CountTypes, StrikesCounted, StrikeInv, SilentMeansSilent,
            Monitored, Owing
<1>1. CASE Start
    BY <1>1 DEF Start
<1>2. CASE ArmReadFails
    BY <1>2 DEF ArmReadFails, RollBack, Release, Forget, ghostVars
<1>3. CASE Armed
    BY <1>3, CaptureAssumption DEF Armed, watchVars, ghostVars
<1>4. ASSUME NEW k \in Controls, ArmWrite(k) PROVE StrikesCounted'
    BY <1>4 DEF ArmWrite, RollBack, Forget, ghostVars
<1>. QED BY <1>1, <1>2, <1>3, <1>4 DEF Arming

\* Stopping forgets the strikes; it is for silence only when all were silent.
LEMMA StopStrikes ==
    ASSUME StrikesCounted, NEW why, Stop(why), UNCHANGED ghostVars,
           why = "silent" => quiet = Strikes
    PROVE  StrikesCounted'
BY DEF StrikesCounted, StrikeInv, SilentMeansSilent, Monitored, Owing, Stop,
       Forget, Release, ghostVars

\* Every branch of the monitoring loop keeps the count of silent pings.
LEMMA MonitoringStrikes ==
    ASSUME TypeOK, StrikesCounted, Monitoring PROVE StrikesCounted'
<1> USE CaptureAssumption
    DEF TypeOK, CountTypes, StrikesCounted, StrikeInv, SilentMeansSilent,
        Monitored, Owing
<1>1. CASE GateGone \/ ChangeSeen \/ ShutdownSeen \/ PingFails
    BY <1>1, StopStrikes DEF GateGone, ChangeSeen, ShutdownSeen, PingFails
<1>2. CASE NoteResume
    BY <1>2 DEF NoteResume, TakeActivity
<1>3. CASE ActivitySeen
    BY <1>3 DEF ActivitySeen, Quiescent, Polling, TakeActivity, ghostVars
<1>4. CASE WakeSeen
    BY <1>4 DEF WakeSeen, Wake, Quiescent, Polling, ghostVars
<1>5. CASE Rearm \/ Rearmed
    BY <1>5 DEF Rearm, Rearmed, watchVars, ghostVars
<1>6. CASE IdleDue
    BY <1>6 DEF IdleDue, Ping, CountPing, Quiescent, Polling
<1>7. CASE PingAnswered
    BY <1>7 DEF PingAnswered, Alive
<1>8. CASE PingSilent
    <2>1. CASE fresh
        BY <1>8, <2>1 DEF PingSilent, Alive
    <2>2. CASE ~fresh /\ strikes + 1 >= Strikes
        <3>1. quiet = Strikes
            BY <1>8, <2>2 DEF PingSilent
        <3>. QED BY <1>8, <2>2, <3>1, StopStrikes DEF PingSilent, Strike
    <2>3. CASE ~fresh /\ ~(strikes + 1 >= Strikes)
        BY <1>8, <2>3 DEF PingSilent, Strike, ghostVars
    <2>. QED BY <2>1, <2>2, <2>3
<1>9. ASSUME NEW k \in Controls, RearmWrite(k) PROVE StrikesCounted'
    BY <1>9 DEF RearmWrite, watchVars, ghostVars
<1>. QED
    BY <1>1, <1>2, <1>3, <1>4, <1>5, <1>6, <1>7, <1>8, <1>9 DEF Monitoring

\* Restoring has no strikes to count.
LEMMA RestoringStrikes ==
    ASSUME StrikesCounted, Restoring PROVE StrikesCounted'
<1> USE DEF StrikesCounted, StrikeInv, SilentMeansSilent, Monitored, Owing,
            watchVars, ghostVars
<1>1. CASE LookUp
    BY <1>1 DEF LookUp, Begin, Defer
<1>2. CASE FinishRestore \/ Retry
    BY <1>2 DEF FinishRestore, Release, Retry
<1>3. ASSUME NEW k \in Controls, RestoreWrite(k) PROVE StrikesCounted'
    BY <1>3 DEF RestoreWrite
<1>. QED BY <1>1, <1>2, <1>3 DEF Restoring

\* Beside the session, only a report touches the count, and it excuses all.
LEMMA BesideStrikes ==
    ASSUME StrikesCounted, Beside PROVE StrikesCounted'
<1> USE DEF StrikesCounted, StrikeInv, SilentMeansSilent, Monitored, Owing,
            watchVars, ghostVars
<1>1. CASE Hear
    BY <1>1 DEF Hear
<1>2. CASE Publish \/ CloseRetired \/ Suspend \/ Resume \/ LoseGate
    BY <1>2 DEF Publish, CloseRetired, Suspend, Resume, LoseGate
<1>3. CASE AskStop
    BY <1>3 DEF AskStop
<1>4. CASE PowerCycle
    BY <1>4 DEF PowerCycle
<1>5. CASE GoDeaf \/ Settle
    BY <1>5 DEF GoDeaf, Settle
<1>. QED BY <1>1, <1>2, <1>3, <1>4, <1>5 DEF Beside
-----------------------------------------------------------------------------
(***************************************************************************)
(* The theorems.                                                           *)
(***************************************************************************)
LEMMA InitIInv == Init => IInv
<1> SUFFICES ASSUME Init PROVE IInv
    OBVIOUS
<1> USE CaptureAssumption DEF Init
<1>1. EnvTypes /\ HoldTypes
    BY DEF EnvTypes, HoldTypes
<1>2. FlagTypes
    BY DEF FlagTypes
<1>3. CountTypes
    BY DEF CountTypes, Causes
<1>4. OwedInv
    BY DEF OwedInv
<1>5. StrikeInv /\ SilentMeansSilent
    BY DEF StrikeInv, SilentMeansSilent, Monitored
<1>. QED BY <1>1, <1>2, <1>3, <1>4, <1>5 DEF IInv, TypeOK

\* A step that changes nothing disturbs nothing.
LEMMA StutterIInv ==
    ASSUME IInv, UNCHANGED vars PROVE IInv'
<1> USE DEF IInv, vars, envVars, armVars, restoreVars, watchVars, ghostVars
<1>1. EnvTypes' /\ HoldTypes'
    BY DEF TypeOK, EnvTypes, HoldTypes
<1>2. FlagTypes' /\ CountTypes'
    BY DEF TypeOK, FlagTypes, CountTypes
<1>3. OwedInv'
    BY DEF OwedInv
<1>4. StrikeInv' /\ SilentMeansSilent'
    BY DEF StrikeInv, SilentMeansSilent
<1>. QED BY <1>1, <1>2, <1>3, <1>4 DEF TypeOK

LEMMA NextIInv ==
    ASSUME IInv, Next PROVE IInv'
<1> USE DEF IInv, StrikesCounted
<1>1. CASE Start \/ Arming
    BY <1>1, ArmingTypes, ArmingOwes, ArmingStrikes
<1>2. CASE Monitoring
    BY <1>2, MonitoringTypes, MonitoringOwes, MonitoringStrikes
<1>3. CASE Restoring
    BY <1>3, RestoringTypes, RestoringOwes, RestoringStrikes
<1>4. CASE Beside
    BY <1>4, BesideTypes, BesideOwes, BesideStrikes
<1>. QED BY <1>1, <1>2, <1>3, <1>4 DEF Next

\* The inductive invariant holds of every device and every channel.
THEOREM CaptureInvariant == Spec => []IInv
<1>1. Init => IInv
    BY InitIInv
<1>2. IInv /\ [Next]_vars => IInv'
    BY NextIInv, StutterIInv
<1>. QED BY <1>1, <1>2, PTL DEF Spec

\* When a capture has come to its end, nothing that this process diverted is
\* still diverted (capture_restore.rs, CaptureSessionOutcome::Restored).
THEOREM RestoredIsReleased == Spec => []RestoredMeansReleased
<1>1. IInv => RestoredMeansReleased
    BY DEF IInv, OwedInv, RestoredMeansReleased
<1>. QED BY <1>1, CaptureInvariant, PTL

\* Only an unbroken run of silent pings condemns a channel as silent
\* (liveness.rs, finish_ping).
THEOREM SilenceIsUnbroken == Spec => []SilentMeansSilent
<1>1. IInv => SilentMeansSilent
    BY DEF IInv
<1>. QED BY <1>1, CaptureInvariant, PTL
-----------------------------------------------------------------------------
(***************************************************************************)
(* The captured input (CapturedInput): the sets it is built from.          *)
(***************************************************************************)
\* The first of a set of places.
LEMMA FirstPlace == ASSUME NEW T \in SUBSET Nat, T # {} PROVE \E m \in T : \A y \in T : m <= y
<1> DEFINE R == {ss \in Nat \X Nat : ss[1] < ss[2]}
<1>1. R = OpToRel(<, Nat)
  BY DEF OpToRel
<1>2. IsWellFoundedOn(R, Nat)
  BY <1>1, NatLessThanWellFounded
<1> HIDE DEF R
<1>3. PICK m \in T : \A y \in T : ~(<<y, m>> \in R)
  BY <1>2, WFMin
<1>4. \A y \in T : y \in Nat /\ m \in Nat /\ (<<y, m>> \in R <=> y < m)
  BY DEF R
<1>5. ASSUME NEW y \in T PROVE m <= y
  <2>1. ~(<<y, m>> \in R)
    BY <1>3
  <2>2. y \in Nat /\ m \in Nat /\ ~(y < m)
    BY <1>4, <2>1
  <2> QED
    BY <2>2
<1> QED
  BY <1>5

\* The source a hold begins with is one of those held.
LEMMA FirstIsHeld == ASSUME NEW S \in SUBSET SourceSet, S # {} PROVE FirstOf(S) \in S
<1> DEFINE T == {i \in DOMAIN Sources : Sources[i] \in S}
<1>1. DOMAIN Sources = 1..Len(Sources) /\ Len(Sources) \in Nat
  BY SourcesAreDistinct
<1>2. T \in SUBSET Nat /\ T # {}
  BY <1>1 DEF SourceSet
<1>3. PICK m \in T : \A y \in T : m <= y
  BY <1>2, FirstPlace
<1>4. m \in DOMAIN Sources /\ Sources[m] \in S /\ \A j \in 1..(m - 1) : Sources[j] \notin S
  <2>1. m \in 1..Len(Sources) /\ Sources[m] \in S
    BY <1>1, <1>3
  <2>2. ASSUME NEW j \in 1..(m - 1) PROVE Sources[j] \notin S
    <3>1. j \in 1..Len(Sources) /\ ~(m <= j)
      BY <1>1, <2>1
    <3> QED
      BY <1>1, <1>3, <3>1
  <2> QED
    BY <1>1, <2>1, <2>2
<1> QED
  BY <1>4 DEF FirstOf

\* Two sources are more than one.
LEMMA OneSource ==
    ASSUME NEW S \in SUBSET SourceSet, NEW s \in S, ~(Cardinality(S) > 1)
    PROVE  S = {s}
<1>1. IsFiniteSet(SourceSet)
  <2>1. SourceSet = {Sources[i] : i \in 1..Len(Sources)} /\ Len(Sources) \in Nat
    BY SourcesAreDistinct DEF SourceSet
  <2> DEFINE f == [i \in 1..Len(Sources) |-> Sources[i]]
  <2>2. IsFiniteSet(1..Len(Sources))
    BY <2>1, FS_Interval
  <2>3. f \in [1..Len(Sources) -> SourceSet] /\ SourceSet = {f[i] : i \in 1..Len(Sources)}
    BY <2>1
  <2>4. f \in Surjection(1..Len(Sources), SourceSet)
    BY <2>3 DEF Surjection
  <2> QED
    BY <2>2, <2>4, FS_Surjection
<1>2. IsFiniteSet(S) /\ Cardinality(S) \in Nat
  BY <1>1, FS_Subset, FS_CardinalityType
<1>3. SUFFICES ASSUME NEW t \in S, t # s PROVE FALSE
  OBVIOUS
<1>4. IsFiniteSet(S \ {s}) /\ Cardinality(S \ {s}) = Cardinality(S) - 1
  BY <1>2, FS_RemoveElement
<1>5. Cardinality(S \ {s}) \in Nat /\ Cardinality(S \ {s}) # 0
  BY <1>3, <1>4, FS_CardinalityType, FS_EmptySet
<1> QED
  BY <1>2, <1>4, <1>5

\* What the hold is after a snapshot.
LEMMA HoldFacts ==
    ASSUME InputInv, NEW down \in SUBSET Held
    PROVE  /\ HoldAfter(down) \in Holds \cup {Nobody}
           /\ HoldAfter(down) = Nobody <=> down \cap SourceSet = {}
           /\ HoldAfter(down) # Nobody => HoldAfter(down).cid \in down \cap SourceSet
           /\ HoldAfter(down) # Nobody /\ ~HoldAfter(down).overlap =>
                  down \cap SourceSet = {HoldAfter(down).cid}
           /\ Keeps(down) => /\ HoldAfter(down).cid = hold.cid
                             /\ HoldAfter(down).fired = hold.fired
                             /\ HoldAfter(down).mixed = hold.mixed
                             /\ HoldAfter(down) # Nobody
           /\ ~Keeps(down) /\ HoldAfter(down) # Nobody =>
                  /\ ~HoldAfter(down).fired /\ ~HoldAfter(down).mixed
                  /\ HoldAfter(down).skip <=> /\ HoldAfter(down).cid = Panel
                                              /\ HoldAfter(down).cid \notin gesturesDown
<1> DEFINE held == down \cap SourceSet
           h == HoldAfter(down)
           more == (Cardinality(held) > 1)
<1>1. held \in SUBSET SourceSet /\ more \in BOOLEAN
  OBVIOUS
<1>5. \A s \in held : ~more => held = {s}
  BY <1>1, OneSource
<1>2. CASE Keeps(down)
  <2>1. h = [hold EXCEPT !.overlap = more]
    BY <1>2 DEF HoldAfter
  <2>2. hold \in Holds /\ hold # Nobody /\ hold.cid \in held
    BY <1>2 DEF Keeps, InputInv, InputTypes, HoldIsOfSource
  <2> HIDE DEF h
  <2> HIDE DEF more
  <2>3. h \in Holds /\ h.cid = hold.cid /\ h.fired = hold.fired /\ h.mixed = hold.mixed
        /\ h.overlap = more
    BY <1>1, <2>1, <2>2 DEF Holds
  <2>4. h # Nobody
    BY <2>3, NobodyHolds
  <2>6. ~h.overlap => held = {h.cid}
    BY <1>1, <1>5, <2>2, <2>3
  <2> QED
    BY <1>2, <2>2, <2>3, <2>4, <2>6 DEF h
<1>3. CASE ~Keeps(down) /\ held = {}
  BY <1>3 DEF HoldAfter
<1>4. CASE ~Keeps(down) /\ held # {}
  <2> DEFINE f == FirstOf(held)
  <2>1. f \in held
    BY <1>4, FirstIsHeld
  <2> HIDE DEF f
  <2>2. h = BeginHold(f, more, f \notin gesturesDown)
    BY <1>4 DEF HoldAfter, f
  <2> HIDE DEF more
  <2>3. /\ h \in Holds /\ h.cid = f /\ ~h.fired /\ ~h.mixed
        /\ h.overlap = more
        /\ h.skip = (f = Panel /\ f \notin gesturesDown)
    BY <1>1, <2>1, <2>2 DEF Holds, BeginHold
  <2> HIDE DEF h
  <2>4. h # Nobody
    BY <2>3, NobodyHolds
  <2>5. ~h.overlap => held = {h.cid}
    BY <1>5, <2>1, <2>3
  <2> QED
    BY <1>4, <2>1, <2>3, <2>4, <2>5 DEF h
<1> QED
  BY <1>2, <1>3, <1>4

\* The buttons of what is down.
LEMMA ButtonFacts ==
    /\ \A c \in Held : /\ ButtonOf(c) \in Buttons
                       /\ c \in SourceSet \cup Plain => ButtonOf(c) = c
                       /\ c \in DpiControls => ButtonOf(c) = Dpi
    /\ Dpi \notin SourceSet \cup Plain
    /\ \A down \in SUBSET Held :
           /\ ButtonsOf(down) = (down \cap SourceSet) \cup (down \cap Plain)
                                  \cup IF down \cap DpiControls # {} THEN {Dpi} ELSE {}
           /\ ButtonsOf(down) \subseteq Buttons
    /\ \A b \in Buttons, down \in SUBSET Held :
           ControlsOf(b) \cap down # {} <=> b \in ButtonsOf(down)
<1>1. /\ \A c \in Held : /\ ButtonOf(c) \in Buttons
                         /\ c \in SourceSet \cup Plain => ButtonOf(c) = c
                         /\ c \in DpiControls => ButtonOf(c) = Dpi
      /\ Dpi \notin SourceSet \cup Plain
  BY CaptureFits, DispatchIsUnique DEF ButtonOf, Buttons, Held
<1>2. ASSUME NEW down \in SUBSET Held
      PROVE  /\ ButtonsOf(down) = (down \cap SourceSet) \cup (down \cap Plain)
                                  \cup IF down \cap DpiControls # {} THEN {Dpi} ELSE {}
             /\ ButtonsOf(down) \subseteq Buttons
  BY <1>1 DEF ButtonsOf, Held
<1>3. ASSUME NEW b \in Buttons, NEW down \in SUBSET Held
      PROVE  ControlsOf(b) \cap down # {} <=> b \in ButtonsOf(down)
  BY DEF ButtonsOf, ControlsOf
<1> QED
  BY <1>1, <1>2, <1>3

\* What is kept of a source.
LEMMA KeptSource ==
    ASSUME InputTypes, NEW s \in SourceSet PROVE s \in Before <=> s \in gesturesDown
BY ButtonFacts, DispatchIsUnique DEF InputTypes, Before

\* What reports say.
LEMMA ReportFacts ==
    ASSUME NEW e \in Reports
    PROVE  /\ e.kind \in {"buttons", "motion", "back", "wheel"}
           /\ e.kind = "buttons" => e.down \in SUBSET Held
           /\ e.kind = "motion" => e.dx \in Int /\ e.dy \in Int /\ e.by \in SUBSET SourceSet
           /\ e.kind = "wheel" => /\ e.turn \in {"none", "forward", "back"}
                                  /\ e.turn = "none" /\ e.status = "inactive" => e.tap = TRUE
BY DEF Reports, WheelReports

\* Snapshots, motion and broadcasts are reports.
LEMMA ReportsMade ==
    /\ \A down \in SUBSET Held : /\ Snapshot(down) \in Reports /\ Snapshot(down).kind = "buttons"
                                 /\ Snapshot(down).down = down
    /\ \A dx \in Int, dy \in Int, jump \in BOOLEAN :
           /\ Motion(dx, dy, jump) \in Reports /\ Motion(dx, dy, jump).kind = "motion"
           /\ Motion(dx, dy, jump).by = IF jump THEN {} ELSE fingers \cap SourceSet
    /\ [kind |-> "back"] \in Reports
BY DEF Snapshot, Motion, Reports

(***************************************************************************)
(* The queue of reports: what of the invariant is about it, and how it     *)
(* fares when reports come and go.                                         *)
(***************************************************************************)
Grown(n) == /\ Len(events) \in Nat /\ Len(events') = Len(events) + n
            /\ \A i \in Queued : events'[i] = events[i]
Shortened == /\ Len(events) \in Nat \ {0} /\ Len(events') = Len(events) - 1
             /\ \A i \in 1..(Len(events) - 1) : events'[i] = events[i + 1]
Queue == /\ SnapshotsAreLast /\ HeldAreReported /\ NothingLingers
         /\ MotionIsTheirs /\ JumpsAreExpected

\* One report more.
LEMMA OneMore ==
    ASSUME events \in Seq(Reports), NEW e \in Reports,
           events' = Append(events, e) \/ events' = events \o <<e>>
    PROVE  events' \in Seq(Reports) /\ Grown(1) /\ events'[Len(events) + 1] = e
BY DEF Grown, Queued

\* Two reports more.
LEMMA TwoMore ==
    ASSUME events \in Seq(Reports), NEW e \in Reports, NEW f \in Reports,
           events' = events \o <<e, f>>
    PROVE  /\ events' \in Seq(Reports) /\ Grown(2)
           /\ events'[Len(events) + 1] = e /\ events'[Len(events) + 2] = f
BY DEF Grown, Queued

\* The first report is gone.
LEMMA OneLess ==
    ASSUME events \in Seq(Reports), events # <<>>, events' = Tail(events)
    PROVE  /\ events' \in Seq(Reports) /\ Shortened
           /\ Head(events) = events[1] /\ events[1] \in Reports /\ 1 \in Queued
BY DEF Shortened, Queued

\* A report that is neither a snapshot nor the last before one is taken.
LEMMA PopKeepsQueue ==
    ASSUME Queue, Shortened, ~Shows(1), told \in Nat,
           UNCHANGED <<fingers, diverting, gesturesDown, dpiDown, buttonsDown, edge>>,
           told' = IF Wakes(1) THEN told + 1 ELSE told
    PROVE  Queue'
<1>1. /\ \A i \in Queued' : /\ i + 1 \in Queued /\ events'[i] = events[i + 1]
                            /\ i \in Nat
      /\ \A i \in Queued : i # 1 => i - 1 \in Queued' /\ events'[i - 1] = events[i]
  BY DEF Shortened, Queued
<1>2. SnapshotsAreLast'
  <2> SUFFICES ASSUME NEW i \in Queued', Shows(i)'
               PROVE  /\ \/ \E j \in Queued' : j > i /\ (Shows(j) \/ Wakes(j))'
                         \/ events'[i].down = fingers
                      /\ diverting \/ \E j \in Queued' : j > i /\ Wakes(j)'
    BY DEF SnapshotsAreLast
  <2>1. i + 1 \in Queued /\ Shows(i + 1) /\ i \in Nat /\ events'[i] = events[i + 1]
    BY <1>1 DEF Shows
  <2>2. \A j \in Queued : j > i + 1 =>
            /\ j - 1 \in Queued' /\ j - 1 > i
            /\ Shows(j) => Shows(j - 1)'
            /\ Wakes(j) => Wakes(j - 1)'
    BY <1>1, <2>1 DEF Shows, Wakes, Queued
  <2> QED
    BY <2>1, <2>2 DEF Queue, SnapshotsAreLast
<1>3. HeldAreReported'
  <2>1. ASSUME diverting, fingers # {}, NEW i \in Queued', Shows(i)'
        PROVE  (\E j \in Queued' : j > i /\ Shows(j)') \/ events'[i].down = fingers
    <3>1. i + 1 \in Queued /\ Shows(i + 1) /\ i \in Nat /\ events'[i] = events[i + 1]
      BY <1>1, <2>1 DEF Shows
    <3>2. \A j \in Queued : j > i + 1 /\ Shows(j) => j - 1 \in Queued' /\ j - 1 > i /\ Shows(j - 1)'
      BY <1>1, <3>1 DEF Shows, Queued
    <3> QED
      BY <2>1, <3>1, <3>2 DEF Queue, HeldAreReported
  <2>2. (\A i \in Queued' : ~Shows(i)') => \A i \in Queued : ~Shows(i)
    BY <1>1 DEF Shows
  <2> QED
    BY <2>1, <2>2 DEF Queue, HeldAreReported, Shows
<1>4. NothingLingers'
  <2>1. (\A i \in Queued' : ~Shows(i)') => \A i \in Queued : ~Shows(i)
    BY <1>1 DEF Shows
  <2>2. told' = 0 /\ (\A i \in Queued' : ~Wakes(i)') => told = 0 /\ \A i \in Queued : ~Wakes(i)
    BY <1>1 DEF Wakes
  <2> QED
    BY <2>1, <2>2 DEF Queue, NothingLingers, Before, Shows, Wakes
<1>5. MotionIsTheirs'
  <2> SUFFICES ASSUME NEW i \in Queued', events'[i].kind = "motion", events'[i].by # {}
               PROVE  OfThose(i)'
    BY DEF MotionIsTheirs
  <2>1. i + 1 \in Queued /\ i \in Nat /\ events'[i] = events[i + 1]
    BY <1>1
  <2>2. ASSUME NEW j \in Queued', j < i, Shows(j)'
        PROVE  \/ \E k \in Queued' : j < k /\ k < i /\ Shows(k)'
               \/ events'[j].down \cap SourceSet = events'[i].by
    <3>1. j + 1 \in Queued /\ j \in Nat /\ events'[j] = events[j + 1] /\ j + 1 < i + 1 /\ Shows(j + 1)
      <4>1. j + 1 \in Queued /\ j \in Nat /\ events'[j] = events[j + 1]
        BY <1>1
      <4> QED
        BY <2>1, <2>2, <4>1 DEF Shows
    <3>2. \A k \in Queued : j + 1 < k /\ k < i + 1 /\ Shows(k) =>
              k - 1 \in Queued' /\ j < k - 1 /\ k - 1 < i /\ Shows(k - 1)'
      BY SMTT(40), <1>1, <2>1, <3>1 DEF Shows, Queued
    <3> QED
      BY <2>1, <3>1, <3>2 DEF Queue, MotionIsTheirs, OfThose
  <2>3. NoneShows(i)' => NoneShows(i + 1)
    <3> SUFFICES ASSUME NoneShows(i)', NEW j \in Queued, j < i + 1, Shows(j) PROVE FALSE
      BY DEF NoneShows
    <3>1. j # 1
      OBVIOUS
    <3>2. j - 1 \in Queued' /\ j - 1 < i /\ Shows(j - 1)'
      BY <1>1, <2>1, <3>1 DEF Shows, Queued
    <3> QED
      BY <3>2 DEF NoneShows
  <2> QED
    BY <2>1, <2>2, <2>3 DEF Queue, MotionIsTheirs, OfThose
<1>6. JumpsAreExpected'
  <2> SUFFICES ASSUME NEW i \in Queued', events'[i].kind = "motion", events'[i].by = {}
               PROVE  Announced(i)'
    BY DEF JumpsAreExpected
  <2>1. i + 1 \in Queued /\ i \in Nat \ {0} /\ events'[i] = events[i + 1]
    BY <1>1 DEF Queued
  <2>2. /\ Shows(i) /\ Panel \in events[i].down \cap SourceSet
        /\ \A j \in Queued : j < i /\ Shows(j) =>
               \/ \E k \in Queued : j < k /\ k < i /\ (Shows(k) \/ Wakes(k))
               \/ Panel \notin events[j].down
        /\ (\A j \in Queued : j < i => ~Shows(j) /\ ~Wakes(j)) => Panel \notin gesturesDown \/ told > 0
    <3>1. i + 1 # 1 /\ i + 1 - 1 = i
      BY <2>1
    <3> QED
      BY <2>1, <3>1 DEF Queue, JumpsAreExpected, Announced
  <2>3. i # 1 /\ i \in Queued
    BY <2>1, <2>2 DEF Queued
  <2>4. i - 1 \in Queued' /\ events'[i - 1] = events[i]
    BY <1>1, <2>3
  <2>5. ASSUME NEW j \in Queued', j < i - 1, Shows(j)'
        PROVE  \/ \E k \in Queued' : j < k /\ k < i - 1 /\ (Shows(k) \/ Wakes(k))'
               \/ Panel \notin events'[j].down
    <3>1. j + 1 \in Queued /\ j \in Nat /\ events'[j] = events[j + 1] /\ j + 1 < i /\ Shows(j + 1)
      <4>1. j + 1 \in Queued /\ j \in Nat /\ events'[j] = events[j + 1]
        BY <1>1
      <4> QED
        BY <2>1, <2>5, <4>1 DEF Shows
    <3>2. \A k \in Queued : j + 1 < k /\ k < i =>
              /\ k - 1 \in Queued' /\ j < k - 1 /\ k - 1 < i - 1
              /\ (Shows(k) => Shows(k - 1)') /\ (Wakes(k) => Wakes(k - 1)')
      BY <1>1, <2>1, <3>1 DEF Shows, Wakes, Queued
    <3> QED
      BY <2>2, <3>1, <3>2
  <2>6. ASSUME \A j \in Queued' : j < i - 1 => ~Shows(j)' /\ ~Wakes(j)'
        PROVE  Panel \notin gesturesDown \/ told' > 0
    <3>1. CASE Wakes(1)
      BY <3>1
    <3>2. CASE ~Wakes(1)
      <4>1. ASSUME NEW j \in Queued, j < i PROVE ~Shows(j) /\ ~Wakes(j)
        <5>1. CASE j = 1
          BY <3>2, <5>1
        <5>2. CASE j # 1
          <6>1. j - 1 \in Queued' /\ j - 1 < i - 1 /\ events'[j - 1] = events[j]
            <7>1. j - 1 \in Queued' /\ events'[j - 1] = events[j]
              BY <1>1, <5>2
            <7>2. j \in Nat /\ i \in Nat /\ j < i
              BY <2>1, <4>1 DEF Queued
            <7> QED
              BY <7>1, <7>2
          <6> QED
            BY <2>6, <6>1 DEF Shows, Wakes
        <5> QED
          BY <5>1, <5>2
      <4> QED
        BY <2>2, <3>2, <4>1
    <3> QED
      BY <3>1, <3>2
  <2> QED
    BY <2>2, <2>3, <2>4, <2>5, <2>6 DEF Shows, Announced
<1> QED
  BY <1>2, <1>3, <1>4, <1>5, <1>6 DEF Queue

\* The reports that were there are there after more have come.
LEMMA GrownFacts ==
    ASSUME NEW n \in Nat, Grown(n)
    PROVE  /\ \A i \in Queued : /\ i \in Queued' /\ i \in Nat /\ events'[i] = events[i]
                                /\ Shows(i)' <=> Shows(i)
                                /\ Wakes(i)' <=> Wakes(i)
           /\ \A i \in Queued' : i \in Nat /\ (i \in Queued \/ i > Len(events))
           /\ \A i \in Queued : NoneShows(i) => NoneShows(i)'
           /\ \A i \in Queued : NoneShows(i)' => NoneShows(i)
<1>1. /\ \A i \in Queued : /\ i \in Queued' /\ i \in Nat /\ events'[i] = events[i]
                           /\ Shows(i)' <=> Shows(i)
                           /\ Wakes(i)' <=> Wakes(i)
      /\ \A i \in Queued' : i \in Nat /\ (i \in Queued \/ i > Len(events))
  BY DEF Grown, Queued, Shows, Wakes
<1>2. \A i \in Queued, j \in Queued' : j < i => j \in Queued
  BY DEF Grown, Queued
<1>3. ASSUME NEW i \in Queued PROVE NoneShows(i)' <=> NoneShows(i)
  BY <1>1, <1>2 DEF NoneShows
<1> QED
  BY <1>1, <1>3

\* What is said of the motion and the jumps that were there stays true of them.
LEMMA GrownKeepsOld ==
    ASSUME NEW n \in Nat, Grown(n), UNCHANGED <<gesturesDown, told>>,
           (hold' = hold)
             \/ (/\ hold # Nobody /\ hold'.cid = hold.cid /\ hold'.overlap = hold.overlap
                 /\ hold'.skip = hold.skip)
    PROVE  \A i \in Queued : (OfThose(i) => OfThose(i)') /\ (Announced(i) => Announced(i)')
<1>1. /\ \A i \in Queued : /\ i \in Queued' /\ i \in Nat /\ events'[i] = events[i]
                           /\ Shows(i)' <=> Shows(i)
                           /\ Wakes(i)' <=> Wakes(i)
      /\ \A i \in Queued : NoneShows(i)' => NoneShows(i)
      /\ \A i \in Queued, j \in Queued' : j < i => j \in Queued
  <2>1. \A i \in Queued, j \in Queued' : j < i => j \in Queued
    BY DEF Grown, Queued
  <2> QED
    BY <2>1, GrownFacts
<1> SUFFICES ASSUME NEW i \in Queued
             PROVE  (OfThose(i) => OfThose(i)') /\ (Announced(i) => Announced(i)')
  OBVIOUS
<1>2. i \in Queued' /\ i \in Nat /\ events'[i] = events[i]
  BY <1>1
<1>3. ASSUME OfThose(i) PROVE OfThose(i)'
  <2>1. ASSUME NEW j \in Queued', j < i, Shows(j)'
        PROVE  \/ \E k \in Queued' : j < k /\ k < i /\ Shows(k)'
               \/ events'[j].down \cap SourceSet = events'[i].by
    <3>1. j \in Queued /\ Shows(j) /\ events'[j] = events[j]
      BY <1>1, <2>1
    <3>2. CASE \E k \in Queued : j < k /\ k < i /\ Shows(k)
      BY <1>1, <3>2
    <3> QED
      BY <1>2, <1>3, <2>1, <3>1, <3>2 DEF OfThose
  <2> QED
    BY <1>1, <1>2, <1>3, <2>1 DEF OfThose
<1>4. CASE i = 1
  BY <1>3, <1>4 DEF Announced
<1>5. ASSUME Announced(i), i # 1 PROVE Announced(i)'
  <2>1. i - 1 \in Queued
    BY <1>2, <1>5 DEF Queued, Grown
  <2>2. ASSUME NEW j \in Queued', j < i - 1, Shows(j)'
        PROVE  \/ \E k \in Queued' : j < k /\ k < i - 1 /\ (Shows(k) \/ Wakes(k))'
               \/ Panel \notin events'[j].down
    <3>1. j \in Queued /\ Shows(j) /\ events'[j] = events[j]
      BY <1>1, <2>1, <2>2
    <3>2. CASE \E k \in Queued : j < k /\ k < i - 1 /\ (Shows(k) \/ Wakes(k))
      BY <1>1, <3>2
    <3> QED
      BY <1>5, <2>2, <3>1, <3>2 DEF Announced
  <2>3. ASSUME \A j \in Queued' : j < i - 1 => ~Shows(j)' /\ ~Wakes(j)'
        PROVE  Panel \notin gesturesDown' \/ told' > 0
    BY <1>1, <1>5, <2>3 DEF Announced
  <2> QED
    BY <1>1, <1>5, <2>1, <2>2, <2>3 DEF Announced
<1> QED
  BY <1>3, <1>4, <1>5

\* A report that is neither a snapshot nor a reconnection nor a jump has come,
\* or none has, and nothing else has changed.
LEMMA QuietKeepsQueue ==
    ASSUME Queue, NEW n \in 0..1, Grown(n),
           UNCHANGED <<fingers, diverting, gesturesDown, dpiDown, buttonsDown, edge, told>>,
           (hold' = hold)
             \/ (/\ hold # Nobody /\ hold'.cid = hold.cid /\ hold'.overlap = hold.overlap
                 /\ hold'.skip = hold.skip),
           n = 1 => LET e == events'[Len(events) + 1]
                    IN  \/ e.kind = "wheel"
                        \/ /\ e.kind = "motion" /\ diverting
                           /\ e.by = fingers \cap SourceSet /\ e.by # {}
    PROVE  Queue'
<1> DEFINE e == events'[Len(events) + 1]
<1>1. /\ \A i \in Queued : /\ i \in Queued' /\ i \in Nat /\ events'[i] = events[i]
                           /\ Shows(i)' <=> Shows(i)
                           /\ Wakes(i)' <=> Wakes(i)
      /\ \A i \in Queued' : i \in Nat /\ (i \in Queued \/ i > Len(events))
      /\ \A i \in Queued : (OfThose(i) => OfThose(i)') /\ (Announced(i) => Announced(i)')
  BY GrownFacts, GrownKeepsOld
<1>2. \A i \in Queued' : i \in Queued \/ (n = 1 /\ i = Len(events) + 1 /\ events'[i] = e)
  BY DEF Queued, Grown
<1>3. \A i \in Queued' : (Shows(i)' \/ Wakes(i)') => i \in Queued
  BY <1>2 DEF Shows, Wakes
<1>4. SnapshotsAreLast'
  BY <1>1, <1>3 DEF Queue, SnapshotsAreLast
<1>5. HeldAreReported'
  BY <1>1, <1>3 DEF Queue, HeldAreReported
<1>6. NothingLingers'
  BY <1>1, <1>3 DEF Queue, NothingLingers, Before
<1>8. MotionIsTheirs'
  <2> SUFFICES ASSUME NEW i \in Queued', events'[i].kind = "motion", events'[i].by # {}
               PROVE  OfThose(i)'
    BY DEF MotionIsTheirs
  <2>1. CASE i \in Queued
    BY <1>1, <2>1 DEF Queue, MotionIsTheirs
  <2>2. CASE i \notin Queued
    <3>1. i = Len(events) + 1 /\ diverting /\ events'[i].by = fingers \cap SourceSet
          /\ fingers # {}
      BY <1>2, <2>2
    <3>2. \A j \in Queued : j < i
      BY <3>1 DEF Queued, Grown
    <3>3. /\ \A j \in Queued : Shows(j) =>
                 (\E k \in Queued : k > j /\ Shows(k)) \/ events[j].down = fingers
          /\ (\A j \in Queued : ~Shows(j)) => gesturesDown \in {{}, fingers \cap SourceSet}
      BY <3>1 DEF Queue, HeldAreReported
    <3>4. ASSUME NEW j \in Queued', j < i, Shows(j)'
          PROVE  \/ \E k \in Queued' : j < k /\ k < i /\ Shows(k)'
                 \/ events'[j].down \cap SourceSet = events'[i].by
      <4>1. j \in Queued /\ Shows(j) /\ events'[j] = events[j]
        BY <1>1, <1>3, <3>4
      <4>2. CASE events[j].down = fingers
        BY <3>1, <4>1, <4>2
      <4>3. CASE \E k \in Queued : k > j /\ Shows(k)
        <5>1. PICK k \in Queued : k > j /\ Shows(k)
          BY <4>3
        <5> QED
          BY <1>1, <3>2, <4>1, <5>1
      <4> QED
        BY <3>3, <4>1, <4>2, <4>3
    <3>5. NoneShows(i)' => \A j \in Queued : ~Shows(j)
      BY <1>1, <3>2 DEF NoneShows
    <3> QED
      BY <3>1, <3>3, <3>4, <3>5 DEF OfThose
  <2> QED
    BY <2>1, <2>2
<1>9. JumpsAreExpected'
  BY <1>1, <1>2 DEF Queue, JumpsAreExpected
<1> QED
  BY <1>4, <1>5, <1>6, <1>8, <1>9 DEF Queue

\* The device has said that it is back.
LEMMA BackKeepsQueue ==
    ASSUME Queue, Grown(1), events'[Len(events) + 1].kind = "back",
           UNCHANGED <<hold, gesturesDown, dpiDown, buttonsDown, edge, told>>,
           diverting' => diverting /\ fingers' = fingers
    PROVE  Queue'
<1>1. /\ \A i \in Queued : /\ i \in Queued' /\ i \in Nat /\ events'[i] = events[i]
                           /\ Shows(i)' <=> Shows(i)
                           /\ Wakes(i)' <=> Wakes(i)
      /\ \A i \in Queued' : i \in Nat /\ (i \in Queued \/ i > Len(events))
      /\ \A i \in Queued : (OfThose(i) => OfThose(i)') /\ (Announced(i) => Announced(i)')
  BY GrownFacts, GrownKeepsOld
<1>2. PICK last \in Queued' : /\ Wakes(last)' /\ \A i \in Queued : last > i
                              /\ \A i \in Queued' : i # last => i \in Queued
  <2>1. \A i \in Queued' : i \in Queued \/ i = Len(events) + 1
    BY DEF Queued, Grown
  <2> QED
    BY <2>1 DEF Queued, Grown, Wakes
<1>3. SnapshotsAreLast'
  BY <1>1, <1>2 DEF SnapshotsAreLast, Shows, Wakes
<1>4. HeldAreReported'
  BY <1>1, <1>2 DEF Queue, HeldAreReported, Shows, Wakes
<1>5. NothingLingers'
  BY <1>2 DEF NothingLingers
<1>6. MotionIsTheirs' /\ JumpsAreExpected'
  BY <1>1, <1>2 DEF Queue, MotionIsTheirs, JumpsAreExpected, Wakes
<1> QED
  BY <1>3, <1>4, <1>5, <1>6 DEF Queue

\* A snapshot of what is held has come, with the panel's jump if the panel is
\* what has just been touched.
LEMMA SnapshotKeepsQueue ==
    ASSUME Queue, InputTypes, NEW n \in {1, 2}, Grown(n), diverting',
           events'[Len(events) + 1].kind = "buttons",
           events'[Len(events) + 1].down = fingers',
           UNCHANGED <<hold, gesturesDown, dpiDown, buttonsDown, edge, told>>,
           n = 2 => /\ diverting /\ Panel \in (fingers' \ fingers) \cap SourceSet
                    /\ events'[Len(events) + 2].kind = "motion"
                    /\ events'[Len(events) + 2].by = {}
    PROVE  Queue'
<1>1. /\ \A i \in Queued : /\ i \in Queued' /\ i \in Nat /\ events'[i] = events[i]
                           /\ Shows(i)' <=> Shows(i)
                           /\ Wakes(i)' <=> Wakes(i)
      /\ \A i \in Queued' : i \in Nat /\ (i \in Queued \/ i > Len(events))
      /\ \A i \in Queued : (OfThose(i) => OfThose(i)') /\ (Announced(i) => Announced(i)')
  BY GrownFacts, GrownKeepsOld
<1>2. PICK s \in Queued' : /\ s = Len(events) + 1 /\ events'[s].down = fingers'
                           /\ Shows(s)' /\ \A i \in Queued : s > i
                           /\ \A i \in Queued' : \/ i \in Queued \/ i = s
                                                 \/ n = 2 /\ i = s + 1 /\ i # 1
                                                      /\ events'[i].kind = "motion"
                                                      /\ events'[i].by = {}
  <2>1. \A i \in Queued' : i \in Queued \/ i = Len(events) + 1 \/ (n = 2 /\ i = Len(events) + 2)
    BY DEF Queued, Grown
  <2>2. Len(events) + 1 \in Queued' /\ \A i \in Queued : Len(events) + 1 > i
    BY DEF Queued, Grown
  <2>3. Len(events) + 2 = Len(events) + 1 + 1 /\ Len(events) + 2 # 1
    BY DEF Grown
  <2> QED
    BY <2>1, <2>2, <2>3 DEF Shows
<1>3. SnapshotsAreLast'
  BY <1>1, <1>2 DEF SnapshotsAreLast, Shows
<1>4. HeldAreReported'
  BY <1>1, <1>2 DEF HeldAreReported, Shows
<1>5. NothingLingers'
  BY <1>2 DEF NothingLingers
<1>6. MotionIsTheirs'
  BY <1>1, <1>2 DEF Queue, MotionIsTheirs, Shows
<1>7. ASSUME n = 2 PROVE Announced(s + 1)'
  <2>1. s + 1 # 1 /\ s + 1 - 1 = s
    BY <1>2 DEF Grown
  <2>2. Panel \in events'[s].down \cap SourceSet /\ Panel \notin fingers /\ diverting
    BY <1>2, <1>7
  <2>3. \A j \in Queued' : j < s => j \in Queued
    BY <1>1, <1>2
  <2>4. ASSUME NEW j \in Queued', j < s, Shows(j)'
        PROVE  \/ \E k \in Queued' : j < k /\ k < s /\ (Shows(k) \/ Wakes(k))'
               \/ Panel \notin events'[j].down
    <3>1. j \in Queued /\ Shows(j) /\ events'[j] = events[j]
      BY <1>1, <2>3, <2>4
    <3>2. CASE \E k \in Queued : k > j /\ (Shows(k) \/ Wakes(k))
      BY <1>1, <1>2, <3>2
    <3>3. CASE events[j].down = fingers
      BY <2>2, <3>1, <3>3
    <3> QED
      BY <3>1, <3>2, <3>3 DEF Queue, SnapshotsAreLast
  <2>5. ASSUME \A j \in Queued' : j < s => ~Shows(j)' /\ ~Wakes(j)'
        PROVE  Panel \notin gesturesDown' \/ told' > 0
    <3>1. \A j \in Queued : ~Shows(j) /\ ~Wakes(j)
      BY <1>1, <1>2, <2>5
    <3>2. CASE told = 0
      <4>1. Before \subseteq ButtonsOf(fingers)
        BY <3>1, <3>2 DEF Queue, NothingLingers
      <4>2. ASSUME Panel \in gesturesDown PROVE FALSE
        <5>1. Panel \in Buttons /\ ControlsOf(Panel) \cap fingers # {}
          BY <1>7, <2>2, <4>1, <4>2, ButtonFacts, KeptSource DEF InputTypes, Held
        <5>2. ControlsOf(Panel) = {Panel}
          BY <2>2, ButtonFacts, DispatchIsUnique, CaptureFits DEF ControlsOf, ButtonOf, Held
        <5> QED
          BY <2>2, <5>1, <5>2
      <4> QED
        BY <4>2
    <3>3. CASE told # 0
      BY <3>3 DEF InputTypes
    <3> QED
      BY <3>2, <3>3
  <2> QED
    BY <1>2, <2>1, <2>2, <2>3, <2>4, <2>5 DEF Announced
<1>8. JumpsAreExpected'
  BY <1>1, <1>2, <1>7 DEF Queue, JumpsAreExpected, Shows
<1> QED
  BY <1>3, <1>4, <1>5, <1>6, <1>8 DEF Queue

\* While the controls are not diverted, none is told of.
LEMMA UnseenKeepsQueue ==
    ASSUME Queue, ~diverting, UNCHANGED <<events, accum, edge, told>>,
           \/ ~diverting'
           \/ fingers' = {} /\ fingers = {}
    PROVE  Queue'
<1>1. SnapshotsAreLast'
  BY DEF Queue, SnapshotsAreLast, Shows, Wakes, Queued
<1>2. HeldAreReported'
  BY DEF HeldAreReported
<1>3. NothingLingers'
  BY DEF Queue, NothingLingers, Shows, Wakes, Queued, Before, accum, ButtonsOf
<1>4. MotionIsTheirs' /\ JumpsAreExpected'
  BY DEF Queue, MotionIsTheirs, OfThose, JumpsAreExpected, Announced, NoneShows, Shows, Wakes,
         Queued, accum
<1> QED
  BY <1>1, <1>2, <1>3, <1>4 DEF Queue

\* The monitor drops what the listener kept.
LEMMA ResetKeepsQueue ==
    ASSUME Queue, UNCHANGED <<events, fingers, diverting, edge>>,
           hold' = Nobody, gesturesDown' = {}, dpiDown' = FALSE, buttonsDown' = {}
    PROVE  Queue'
<1>1. SnapshotsAreLast'
  BY DEF Queue, SnapshotsAreLast, Shows, Wakes, Queued
<1>2. HeldAreReported'
  BY DEF Queue, HeldAreReported, Shows, Queued
<1>3. NothingLingers'
  BY DEF NothingLingers, Before
<1>4. MotionIsTheirs'
  BY DEF Queue, MotionIsTheirs, OfThose, NoneShows, Shows, Queued
<1>5. JumpsAreExpected'
  BY DEF Queue, JumpsAreExpected, Announced, Shows, Wakes, Queued
<1> QED
  BY <1>1, <1>2, <1>3, <1>4, <1>5 DEF Queue

\* A snapshot is taken.
LEMMA TakeKeepsQueue ==
    ASSUME InputInv, TakeSnapshot, Shortened, Shows(1)
    PROVE  Queue'
<1> DEFINE d == events[1].down
<1>1. /\ \A i \in Queued' : /\ i + 1 \in Queued /\ events'[i] = events[i + 1]
                            /\ i \in Nat
      /\ \A i \in Queued : i # 1 => i - 1 \in Queued' /\ events'[i - 1] = events[i]
      /\ 1 \in Queued
  BY DEF Shortened, Queued
<1>2. /\ Head(events) = events[1] /\ events[1] \in Reports /\ d \in SUBSET Held
      /\ gesturesDown' = d \cap SourceSet
      /\ dpiDown' = (d \cap DpiControls # {}) /\ buttonsDown' = d \cap Plain
      /\ UNCHANGED <<fingers, diverting, told>> /\ hold' = HoldAfter(d)
      /\ told \in Nat
      /\ Before' = ButtonsOf(d)
  <2>1. Head(events) = events[1] /\ events[1] \in Reports
    BY OneLess DEF TakeSnapshot, InputInv, InputTypes
  <2>2. d \in SUBSET Held
    BY <2>1, ReportFacts DEF Shows
  <2>3. Before' = ButtonsOf(d)
    BY <2>1, <2>2, ButtonFacts DEF Before, TakeSnapshot
  <2> QED
    BY <2>1, <2>2, <2>3 DEF TakeSnapshot, monitor, InputInv, InputTypes
<1> HIDE DEF d
<1>3. SnapshotsAreLast'
  <2> SUFFICES ASSUME NEW i \in Queued', Shows(i)'
               PROVE  /\ \/ \E j \in Queued' : j > i /\ (Shows(j) \/ Wakes(j))'
                         \/ events'[i].down = fingers
                      /\ diverting \/ \E j \in Queued' : j > i /\ Wakes(j)'
    BY <1>2 DEF SnapshotsAreLast
  <2>1. i + 1 \in Queued /\ Shows(i + 1) /\ i \in Nat /\ events'[i] = events[i + 1]
    BY <1>1 DEF Shows
  <2>2. \A j \in Queued : j > i + 1 =>
            /\ j - 1 \in Queued' /\ j - 1 > i
            /\ Shows(j) => Shows(j - 1)'
            /\ Wakes(j) => Wakes(j - 1)'
    BY SMTT(90), <1>1, <2>1 DEF Shows, Wakes, Queued
  <2> QED
    BY <2>1, <2>2 DEF InputInv, SnapshotsAreLast
<1>4. HeldAreReported'
  <2>1. ASSUME diverting, fingers # {}, NEW i \in Queued', Shows(i)'
        PROVE  (\E j \in Queued' : j > i /\ Shows(j)') \/ events'[i].down = fingers
    <3>1. i + 1 \in Queued /\ Shows(i + 1) /\ i \in Nat /\ events'[i] = events[i + 1]
      BY <1>1, <2>1 DEF Shows
    <3>2. \A j \in Queued : j > i + 1 /\ Shows(j) => j - 1 \in Queued' /\ j - 1 > i /\ Shows(j - 1)'
      BY <1>1, <3>1 DEF Shows, Queued
    <3> QED
      BY <2>1, <3>1, <3>2 DEF InputInv, HeldAreReported
  <2>2. ASSUME diverting, fingers # {}, \A i \in Queued' : ~Shows(i)'
        PROVE  /\ \A b \in ButtonsOf(fingers) : edge'[b] = "down"
               /\ gesturesDown' = fingers \cap SourceSet
    <3>1. \A j \in Queued : j > 1 => ~Shows(j)
      BY <1>1, <2>2 DEF Shows
    <3>2. d = fingers
      BY <1>1, <2>2, <3>1 DEF InputInv, HeldAreReported, d
    <3>3. ASSUME NEW b \in ButtonsOf(d) PROVE edge'[b] = "down"
      <4>1. b \in Buttons
        BY <1>2, <3>3, ButtonFacts
      <4>2. edge'[b] = IF b \in Rises(d) THEN "down"
                       ELSE IF b \in Falls(d) THEN "up" ELSE edge[b]
        BY <1>2, <4>1 DEF TakeSnapshot, d
      <4>3. b \notin Falls(d) /\ (b \notin Rises(d) => b \in Before)
        BY <3>3 DEF Falls, Rises, ButtonsOf
      <4> QED
        BY <4>1, <4>2, <4>3 DEF InputInv, EdgesAreKept
    <3> QED
      BY <1>2, <3>2, <3>3
  <2> QED
    BY <1>2, <2>1, <2>2 DEF HeldAreReported, ButtonsOf
<1>5. NothingLingers'
  <2> SUFFICES ASSUME told = 0, \A i \in Queued' : ~Wakes(i)'
               PROVE  /\ (\A i \in Queued' : ~Shows(i)') => Before' \subseteq ButtonsOf(fingers)
                      /\ diverting
    BY <1>2 DEF NothingLingers, ButtonsOf
  <2>1. \A j \in Queued : j > 1 => ~Wakes(j)
    BY <1>1 DEF Wakes
  <2>2. diverting
    BY <1>1, <2>1 DEF InputInv, SnapshotsAreLast
  <2>3. (\A i \in Queued' : ~Shows(i)') => \A j \in Queued : j > 1 => ~Shows(j)
    BY <1>1 DEF Shows
  <2>4. (\A j \in Queued : j > 1 => ~Shows(j)) => d = fingers
    BY <1>1, <2>1 DEF InputInv, SnapshotsAreLast, d
  <2> QED
    BY <1>2, <2>2, <2>3, <2>4
<1>6. MotionIsTheirs'
  <2> SUFFICES ASSUME NEW i \in Queued', events'[i].kind = "motion", events'[i].by # {}
               PROVE  OfThose(i)'
    BY DEF MotionIsTheirs
  <2>1. /\ i + 1 \in Queued /\ i \in Nat /\ events'[i] = events[i + 1] /\ OfThose(i + 1)
        /\ 1 < i + 1
    BY <1>1 DEF InputInv, MotionIsTheirs, Queued
  <2>2. ASSUME NEW j \in Queued', j < i, Shows(j)'
        PROVE  \/ \E k \in Queued' : j < k /\ k < i /\ Shows(k)'
               \/ events'[j].down \cap SourceSet = events'[i].by
    <3>1. j + 1 \in Queued /\ j \in Nat /\ events'[j] = events[j + 1] /\ j + 1 < i + 1 /\ Shows(j + 1)
      <4>1. j + 1 \in Queued /\ j \in Nat /\ events'[j] = events[j + 1]
        BY <1>1
      <4> QED
        BY <2>1, <2>2, <4>1 DEF Shows
    <3>2. \A k \in Queued : j + 1 < k /\ k < i + 1 /\ Shows(k) =>
              k - 1 \in Queued' /\ j < k - 1 /\ k - 1 < i /\ Shows(k - 1)'
      BY <1>1, <2>1, <3>1 DEF Shows, Queued
    <3> QED
      BY <2>1, <3>1, <3>2 DEF OfThose
  <2>3. ASSUME NoneShows(i)' PROVE gesturesDown' = events'[i].by
    <3>1. ASSUME NEW k \in Queued, 1 < k, k < i + 1, Shows(k) PROVE FALSE
      <4>1. k - 1 \in Queued' /\ events'[k - 1] = events[k] /\ k \in Nat
        BY <1>1, <3>1 DEF Queued
      <4>2. k - 1 < i /\ Shows(k - 1)'
        BY <2>1, <3>1, <4>1 DEF Shows
      <4> QED
        BY <2>3, <4>1, <4>2 DEF NoneShows
    <3>2. d \cap SourceSet = events[i + 1].by
      BY <1>1, <2>1, <3>1 DEF OfThose, d
    <3> QED
      BY <1>2, <2>1, <3>2
  <2> QED
    BY <2>2, <2>3 DEF OfThose
<1>7. JumpsAreExpected'
  <2> SUFFICES ASSUME NEW i \in Queued', events'[i].kind = "motion", events'[i].by = {}
               PROVE  Announced(i)'
    BY DEF JumpsAreExpected
  <2>1. i + 1 \in Queued /\ i \in Nat \ {0} /\ events'[i] = events[i + 1]
    BY <1>1 DEF Queued
  <2>2. /\ Shows(i) /\ Panel \in events[i].down \cap SourceSet
        /\ \A j \in Queued : j < i /\ Shows(j) =>
               \/ \E k \in Queued : j < k /\ k < i /\ (Shows(k) \/ Wakes(k))
               \/ Panel \notin events[j].down
        /\ (\A j \in Queued : j < i => ~Shows(j) /\ ~Wakes(j)) => Panel \notin gesturesDown \/ told > 0
    <3>1. i + 1 # 1 /\ i + 1 - 1 = i
      BY <2>1
    <3> QED
      BY <2>1, <3>1 DEF InputInv, JumpsAreExpected, Announced
  <2>3. CASE i = 1
    <3>1. Panel \in d \cap SourceSet /\ (Panel \notin gesturesDown \/ told > 0)
      BY <2>2, <2>3 DEF d, Queued
    <3>2. ASSUME hold' # Nobody, ~hold'.overlap, ~hold'.skip
          PROVE  hold'.cid = Panel /\ told > 0
      <4>1. hold'.cid = Panel
        BY <1>2, <3>1, <3>2, HoldFacts
      <4>2. CASE Keeps(d)
        <5>1. hold.cid = Panel /\ hold # Nobody
          BY <1>2, <4>1, <4>2, HoldFacts DEF Keeps
        <5> QED
          BY <3>1, <4>1, <5>1 DEF InputInv, HoldIsOfSource
      <4>3. CASE ~Keeps(d)
        <5>1. Panel \in gesturesDown
          BY <1>2, <3>2, <4>1, <4>3, HoldFacts
        <5> QED
          BY <3>1, <4>1, <5>1
      <4> QED
        BY <4>2, <4>3
    <3> QED
      BY <1>2, <2>3, <3>2 DEF Announced
  <2>4. CASE i # 1
    <3>1. i \in Queued /\ i - 1 \in Queued' /\ events'[i - 1] = events[i]
      BY <1>1, <2>1, <2>4 DEF Queued
    <3>2. ASSUME NEW j \in Queued', j < i - 1, Shows(j)'
          PROVE  \/ \E k \in Queued' : j < k /\ k < i - 1 /\ (Shows(k) \/ Wakes(k))'
                 \/ Panel \notin events'[j].down
      <4>1. j + 1 \in Queued /\ j \in Nat /\ events'[j] = events[j + 1] /\ j + 1 < i /\ Shows(j + 1)
        <5>1. j + 1 \in Queued /\ j \in Nat /\ events'[j] = events[j + 1]
          BY <1>1
        <5> QED
          BY <2>1, <3>2, <5>1 DEF Shows
      <4>2. \A k \in Queued : j + 1 < k /\ k < i =>
                /\ k - 1 \in Queued' /\ j < k - 1 /\ k - 1 < i - 1
                /\ (Shows(k) => Shows(k - 1)') /\ (Wakes(k) => Wakes(k - 1)')
        BY <1>1, <2>1, <4>1 DEF Shows, Wakes, Queued
      <4> QED
        BY <2>2, <4>1, <4>2
    <3>3. ASSUME \A j \in Queued' : j < i - 1 => ~Shows(j)' /\ ~Wakes(j)'
          PROVE  Panel \notin gesturesDown'
      <4>1. ASSUME NEW k \in Queued, 1 < k, k < i, Shows(k) \/ Wakes(k) PROVE FALSE
        <5>1. /\ k - 1 \in Queued' /\ k - 1 < i - 1
              /\ (Shows(k) => Shows(k - 1)') /\ (Wakes(k) => Wakes(k - 1)')
          BY <1>1, <2>1, <4>1 DEF Shows, Wakes, Queued
        <5> QED
          BY <3>3, <4>1, <5>1
      <4>2. 1 \in Queued /\ 1 < i
        BY <1>1, <2>1, <2>4
      <4>3. Panel \notin d
        BY <2>2, <4>1, <4>2 DEF d
      <4> QED
        BY <1>2, <4>3
    <3> QED
      BY <2>2, <2>4, <3>1, <3>2, <3>3 DEF Announced, Shows
  <2> QED
    BY <2>3, <2>4
<1> QED
  BY <1>3, <1>4, <1>5, <1>6, <1>7 DEF Queue

(***************************************************************************)
(* The steps.                                                              *)
(***************************************************************************)
\* What the listener keeps and what it has told.
Listened == EdgesAreKept /\ HoldIsOfSource /\ GesturesAreCounted /\ WheelIsUnderstood

\* The two halves of the invariant.
LEMMA PartsOfInput == InputInv <=> InputTypes /\ Queue /\ Listened
BY DEF InputInv, Queue, Listened

\* A step the listener has no part in.
LEMMA IdleListener ==
    ASSUME Listened, told \in Nat, UNCHANGED <<accum, sent, wheel, wheelSaid>>,
           told' \in {told, told + 1}
    PROVE  Listened'
<1>1. EdgesAreKept' /\ HoldIsOfSource'
  BY DEF Listened, EdgesAreKept, Before, HoldIsOfSource, accum, sent
<1>2. GesturesAreCounted'
  BY DEF Listened, GesturesAreCounted, accum, sent
<1>3. WheelIsUnderstood'
  BY DEF Listened, WheelIsUnderstood
<1> QED
  BY <1>1, <1>2, <1>3 DEF Listened

\* Nothing is held and nothing is on its way.
LEMMA InputStart == InputInit => InputInv
<1> SUFFICES ASSUME InputInit PROVE InputInv
  OBVIOUS
<1>1. InputTypes
  <2>1. fingers \subseteq Held /\ diverting \in BOOLEAN /\ events \in Seq(Reports)
    BY DEF InputInit
  <2>2. hold \in Holds \cup {Nobody} /\ gesturesDown \subseteq SourceSet
        /\ dpiDown \in BOOLEAN /\ buttonsDown \subseteq Plain /\ told \in Nat
    BY DEF InputInit
  <2>3. edge \in [Buttons -> {"up", "down"}] /\ forgiven \subseteq Buttons
    BY DEF InputInit
  <2>4. given \in [SourceSet -> 0..3] /\ alone \subseteq SourceSet
        /\ wheel \in [forward : BOOLEAN, known : BOOLEAN]
    BY DEF InputInit
  <2> QED
    BY <2>1, <2>2, <2>3, <2>4 DEF InputTypes
<1>2. Queued = {} /\ Len(events) = 0
  BY DEF InputInit, Queued
<1>3. Queue
  BY <1>2 DEF Queue, SnapshotsAreLast, HeldAreReported, NothingLingers, MotionIsTheirs,
              JumpsAreExpected, InputInit, Before
<1>4. Listened
  BY DEF Listened, EdgesAreKept, Before, HoldIsOfSource, GesturesAreCounted,
         WheelIsUnderstood, InputInit, Buttons
<1> QED
  BY <1>1, <1>3, <1>4, PartsOfInput

\* What the user and the device do.
LEMMA HandsKeepInput ==
    ASSUME InputInv,
           \/ \E c \in Held : Press(c) \/ Lift(c)
           \/ \E dd \in {<<1, 0>>, <<0, -1>>} : Move(dd[1], dd[2])
           \/ HeldLong
           \/ \E S \in SUBSET fingers : Reconnect(S, FALSE) \/ Reconnect(S, TRUE)
           \/ \E f, tap \in BOOLEAN, s \in {"start", "active", "stop"} : Roll(f, s, tap)
           \/ Tap
    PROVE  InputInv'
<1>1. InputTypes /\ Queue /\ Listened /\ events \in Seq(Reports) /\ told \in Nat
      /\ diverting \in BOOLEAN /\ fingers \in SUBSET Held
  BY PartsOfInput DEF InputTypes
<1>2. ASSUME NEW c \in Held, Press(c) \/ Lift(c) PROVE InputInv'
  <2>1. fingers' \in SUBSET Held
    BY <1>1, <1>2 DEF Press, Lift
  <2>2. UNCHANGED <<diverting, accum, monitor, wheel, sent, wheelSaid>>
    BY <1>2 DEF Press, Lift
  <2>3. Listened'
    BY <1>1, <2>2, IdleListener DEF monitor
  <2>4. CASE ~diverting
    <3>1. events' = events
      BY <1>2, <2>4 DEF Press, Lift, Sends
    <3>2. InputTypes'
      BY <1>1, <2>1, <2>2, <3>1 DEF InputTypes, accum, sent, monitor
    <3>3. Queue'
      BY <1>1, <2>2, <2>4, <3>1, UnseenKeepsQueue DEF sent, monitor
    <3> QED
      BY <2>3, <3>2, <3>3, PartsOfInput DEF InputInv, Queue, Listened
  <2>5. CASE diverting
    <3> DEFINE a == Snapshot(fingers')
               j == Motion(Threshold, 0, TRUE)
    <3>1. a \in Reports /\ a.kind = "buttons" /\ a.down = fingers'
          /\ j \in Reports /\ j.kind = "motion" /\ j.by = {}
      <4>1. a \in Reports /\ a.kind = "buttons" /\ a.down = fingers'
        BY <2>1, ReportsMade
      <4>2. Threshold \in Int /\ 0 \in Int
        BY SwipesAreNumbers
      <4>3. j \in Reports /\ j.kind = "motion" /\ j.by = {}
        BY <4>2, ReportsMade
      <4> QED
        BY <4>1, <4>3
    <3> HIDE DEF a, j
    <3>2. CASE /\ events' = events \o <<a>>
      <4>1. events' \in Seq(Reports) /\ Grown(1) /\ events'[Len(events) + 1] = a
        BY <1>1, <3>1, <3>2, OneMore
      <4>2. InputTypes'
        BY <1>1, <2>1, <2>2, <4>1 DEF InputTypes, accum, sent, monitor
      <4>3. Queue'
        BY <1>1, <2>2, <2>5, <3>1, <4>1, SnapshotKeepsQueue DEF accum, sent, monitor
      <4> QED
        BY <2>3, <4>2, <4>3, PartsOfInput DEF InputInv, Queue, Listened
    <3>3. CASE /\ events' = events \o <<a, j>>
               /\ Panel \in (fingers' \ fingers) \cap SourceSet
      <4>1. /\ events' \in Seq(Reports) /\ Grown(2)
            /\ events'[Len(events) + 1] = a /\ events'[Len(events) + 2] = j
        BY <1>1, <3>1, <3>3, TwoMore
      <4>2. InputTypes'
        BY <1>1, <2>1, <2>2, <4>1 DEF InputTypes, accum, sent, monitor
      <4>3. Queue'
        BY <1>1, <2>2, <2>5, <3>1, <3>3, <4>1, SnapshotKeepsQueue DEF accum, sent, monitor
      <4> QED
        BY <2>3, <4>2, <4>3, PartsOfInput DEF InputInv, Queue, Listened
    <3>5. \/ events' = events \o <<a>>
          \/ events' = events \o <<a, j>> /\ Panel \in (fingers' \ fingers) \cap SourceSet
      <4>1. CASE Lift(c)
        BY <2>5, <4>1 DEF Lift, Sends, a
      <4>2. CASE Press(c) /\ c = Panel /\ c \in SourceSet
        BY <2>5, <4>2 DEF Press, Sends, a, j
      <4>3. CASE Press(c) /\ ~(c = Panel /\ c \in SourceSet)
        BY <2>5, <4>3 DEF Press, Sends, a
      <4> QED
        BY <1>2, <4>1, <4>2, <4>3
    <3> QED
      BY <3>2, <3>3, <3>5
  <2> QED
    BY <1>1, <2>4, <2>5
<1>3. ASSUME NEW dx \in Int, NEW dy \in Int, Move(dx, dy) PROVE InputInv'
  <2> DEFINE m == Motion(dx, dy, FALSE)
  <2>1. m \in Reports /\ m.kind = "motion" /\ m.by = fingers \cap SourceSet /\ m.by # {}
    BY <1>3, ReportsMade DEF Move
  <2>2. UNCHANGED <<fingers, diverting, accum, monitor, wheel, sent, wheelSaid>>
    BY <1>3 DEF Move
  <2>3. \/ events' = events
        \/ events' = events \o <<m>> /\ diverting
    BY <1>3 DEF Move, Sends
  <2> HIDE DEF m
  <2>4. events' = events => events' \in Seq(Reports) /\ Grown(0)
    BY <1>1 DEF Grown
  <2>5. events' = events \o <<m>> =>
            events' \in Seq(Reports) /\ Grown(1) /\ events'[Len(events) + 1] = m
    BY <1>1, <2>1, OneMore
  <2>6. InputTypes'
    BY <1>1, <2>2, <2>3, <2>4, <2>5 DEF InputTypes, accum, sent, monitor
  <2>7. Queue'
    <3>1. UNCHANGED <<fingers, diverting, hold, gesturesDown, dpiDown, buttonsDown, edge, told>>
      BY <2>2 DEF accum, sent, monitor
    <3>2. CASE events' = events
      BY <1>1, <2>4, <3>1, <3>2, QuietKeepsQueue
    <3>3. CASE events' = events \o <<m>> /\ diverting
      BY <1>1, <2>1, <2>5, <3>1, <3>3, QuietKeepsQueue
    <3> QED
      BY <2>3, <3>2, <3>3
  <2> QED
    BY <1>1, <2>2, <2>6, <2>7, IdleListener, PartsOfInput DEF InputInv, Queue, Listened, monitor
<1>4. ASSUME HeldLong PROVE InputInv'
  <2>1. /\ hold \in Holds /\ hold # Nobody /\ hold' = [hold EXCEPT !.long = TRUE]
        /\ UNCHANGED <<fingers, diverting, events, gesturesDown, dpiDown, buttonsDown,
                       told, wheel, edge, forgiven, given, alone, wheelSaid>>
    BY <1>1, <1>4 DEF HeldLong, InputTypes, monitor, sent
  <2>2. hold' \in Holds /\ hold'.cid = hold.cid /\ hold'.overlap = hold.overlap
        /\ hold'.skip = hold.skip /\ hold'.fired = hold.fired /\ hold'.mixed = hold.mixed
    BY <2>1 DEF Holds
  <2>3. hold' # Nobody
    BY <2>2, NobodyHolds
  <2>4. InputTypes'
    BY <1>1, <2>1, <2>2 DEF InputTypes
  <2>5. Queue'
    <3>1. Grown(0)
      BY <1>1, <2>1 DEF Grown
    <3> QED
      BY <1>1, <2>1, <2>2, <3>1, QuietKeepsQueue
  <2>6. EdgesAreKept' /\ HoldIsOfSource' /\ WheelIsUnderstood'
    BY <1>1, <2>1, <2>2, <2>3 DEF Listened, EdgesAreKept, Before, HoldIsOfSource,
                                  WheelIsUnderstood
  <2>7. GesturesAreCounted'
    BY <1>1, <2>1, <2>2, <2>3 DEF Listened, GesturesAreCounted
  <2> QED
    BY <2>4, <2>5, <2>6, <2>7 DEF InputInv, Queue
<1>5. ASSUME NEW S \in SUBSET fingers, NEW p \in BOOLEAN, Reconnect(S, p) PROVE InputInv'
  <2>1. /\ events' = Append(events, [kind |-> "back"])
        /\ UNCHANGED <<accum, monitor, wheel, sent, wheelSaid>>
        /\ fingers' \in SUBSET Held /\ diverting' \in BOOLEAN
        /\ diverting' => diverting /\ fingers' = fingers
    BY <1>1, <1>5 DEF Reconnect
  <2>2. /\ events' \in Seq(Reports) /\ Grown(1) /\ events'[Len(events) + 1] = [kind |-> "back"]
    BY <1>1, <2>1, OneMore, ReportsMade
  <2>3. InputTypes'
    BY <1>1, <2>1, <2>2 DEF InputTypes, accum, sent, monitor
  <2>4. Queue'
    BY <1>1, <2>1, <2>2, BackKeepsQueue DEF accum, sent, monitor
  <2> QED
    BY <1>1, <2>1, <2>3, <2>4, IdleListener, PartsOfInput DEF InputInv, Queue, Listened, monitor
<1>6. ASSUME NEW f \in BOOLEAN, NEW tap \in BOOLEAN, NEW s \in {"start", "active", "stop"},
             Roll(f, s, tap) \/ Tap
      PROVE  InputInv'
  <2>1. PICK w \in Reports : /\ w.kind = "wheel"
                             /\ events' = events \/ events' = events \o <<w>>
    <3> DEFINE r == [kind |-> "wheel", status |-> s, tap |-> tap,
                     turn |-> IF s = "stop" THEN "none" ELSE IF f THEN "forward" ELSE "back"]
               t == [kind |-> "wheel", status |-> "inactive", tap |-> TRUE, turn |-> "none"]
    <3>1. r \in Reports /\ t \in Reports
      BY DEF Reports, WheelReports
    <3>2. CASE Roll(f, s, tap)
      BY <3>1, <3>2 DEF Roll, Sends
    <3>3. CASE Tap
      BY <3>1, <3>3 DEF Tap, Sends
    <3> QED
      BY <1>6, <3>2, <3>3
  <2>2. UNCHANGED <<fingers, diverting, accum, monitor, wheel, sent, wheelSaid>>
    BY <1>6 DEF Roll, Tap
  <2>3. events' = events => events' \in Seq(Reports) /\ Grown(0)
    BY <1>1 DEF Grown
  <2>4. events' = events \o <<w>> =>
            events' \in Seq(Reports) /\ Grown(1) /\ events'[Len(events) + 1] = w
    BY <1>1, <2>1, OneMore
  <2>5. InputTypes'
    BY <1>1, <2>1, <2>2, <2>3, <2>4 DEF InputTypes, accum, sent, monitor
  <2>6. Queue'
    <3>1. UNCHANGED <<fingers, diverting, hold, gesturesDown, dpiDown, buttonsDown, edge, told>>
      BY <2>2 DEF accum, sent, monitor
    <3>2. CASE events' = events
      BY <1>1, <2>3, <3>1, <3>2, QuietKeepsQueue
    <3>3. CASE events' = events \o <<w>>
      BY <1>1, <2>1, <2>4, <3>1, <3>3, QuietKeepsQueue
    <3> QED
      BY <2>1, <3>2, <3>3
  <2> QED
    BY <1>1, <2>2, <2>5, <2>6, IdleListener, PartsOfInput DEF InputInv, Queue, Listened, monitor
<1> QED
  <2>1. <<1, 0>>[1] \in Int /\ <<1, 0>>[2] \in Int /\ <<0, -1>>[1] \in Int /\ <<0, -1>>[2] \in Int
    OBVIOUS
  <2>2. ASSUME NEW dd \in {<<1, 0>>, <<0, -1>>}, Move(dd[1], dd[2]) PROVE InputInv'
    BY <1>3, <2>1, <2>2
  <2>3. "start" \in {"start", "active", "stop"}
    OBVIOUS
  <2> QED
    BY <1>2, <1>4, <1>5, <1>6, <2>2, <2>3

\* A snapshot is compared with the last.
LEMMA SnapshotKeepsInput == ASSUME InputInv, TakeSnapshot PROVE InputInv'
<1> DEFINE d == events[1].down
<1>1. InputTypes /\ Queue /\ Listened
  BY PartsOfInput
<1>2. /\ events' \in Seq(Reports) /\ Shortened /\ Head(events) = events[1]
      /\ Shows(1) /\ d \in SUBSET Held
  <2>1. /\ events' \in Seq(Reports) /\ Shortened /\ Head(events) = events[1]
        /\ events[1] \in Reports
    BY <1>1, OneLess DEF InputTypes, TakeSnapshot
  <2> QED
    BY <2>1, ReportFacts DEF TakeSnapshot, Shows
<1>3. /\ hold' = HoldAfter(d) /\ gesturesDown' = d \cap SourceSet
      /\ dpiDown' = (d \cap DpiControls # {}) /\ buttonsDown' = d \cap Plain
      /\ edge' = [b \in Buttons |-> IF b \in Rises(d) THEN "down"
                                    ELSE IF b \in Falls(d) THEN "up" ELSE edge[b]]
      /\ given' = [s \in SourceSet |->
                      IF s \in Rises(d) THEN 0
                      ELSE IF Clicks(d) /\ hold.cid = s /\ given[s] < 3
                           THEN given[s] + 1 ELSE given[s]]
      /\ alone' = {s \in SourceSet : /\ s \in alone \/ s \in Rises(d)
                                     /\ s \in d => d \cap SourceSet = {s}}
      /\ forgiven' = forgiven \ Rises(d)
      /\ UNCHANGED <<fingers, diverting, told, wheel, wheelSaid>>
  BY <1>2 DEF TakeSnapshot, monitor
<1>4. Queue'
  BY <1>2, TakeKeepsQueue
<1> HIDE DEF d
<1>5. InputTypes'
  <2>1. hold' \in Holds \cup {Nobody}
    BY <1>2, <1>3, HoldFacts
  <2>2. edge' \in [Buttons -> {"up", "down"}] /\ forgiven' \subseteq Buttons
    BY <1>1, <1>3 DEF InputTypes
  <2>3. given' \in [SourceSet -> 0..3] /\ alone' \subseteq SourceSet
    BY <1>1, <1>3 DEF InputTypes
  <2>4. gesturesDown' \subseteq SourceSet /\ dpiDown' \in BOOLEAN /\ buttonsDown' \subseteq Plain
    BY <1>3
  <2> QED
    BY <1>1, <1>2, <1>3, <2>1, <2>2, <2>3, <2>4 DEF InputTypes
<1>6. EdgesAreKept'
  <2>1. Before' = ButtonsOf(d)
    BY <1>2, <1>3, ButtonFacts DEF Before
  <2>2. Rises(d) = ButtonsOf(d) \ Before /\ Falls(d) = Before \ ButtonsOf(d)
    BY DEF Rises, Falls, ButtonsOf
  <2>3. Before \cap forgiven = {} /\ \A b \in Buttons : edge[b] = "down" <=> b \in Before \cup forgiven
    BY <1>1 DEF Listened, EdgesAreKept
  <2>4. \A b \in Buttons : edge'[b] = IF b \in Rises(d) THEN "down"
                                      ELSE IF b \in Falls(d) THEN "up" ELSE edge[b]
    BY <1>3
  <2>5. Before' \cap forgiven' = {}
    BY <1>3, <2>1, <2>2, <2>3
  <2>6. ASSUME NEW b \in Buttons PROVE edge'[b] = "down" <=> b \in Before' \cup forgiven'
    BY <1>3, <2>1, <2>2, <2>3, <2>4
  <2> QED
    BY <2>5, <2>6 DEF EdgesAreKept
<1>7. HoldIsOfSource'
  BY <1>2, <1>3, HoldFacts DEF HoldIsOfSource
<1>8. /\ \A s \in SourceSet : s \in Rises(d) <=> s \in d /\ s \notin gesturesDown
      /\ \A s \in SourceSet :
             given'[s] = IF s \in Rises(d) THEN 0
                         ELSE IF Clicks(d) /\ hold.cid = s /\ given[s] < 3
                              THEN given[s] + 1 ELSE given[s]
      /\ \A s \in SourceSet : given[s] \in 0..3
  <2>1. \A s \in SourceSet : s \in Rises(d) <=> s \in d /\ s \notin gesturesDown
    <3>1. ASSUME NEW s \in SourceSet PROVE s \in {ButtonOf(c) : c \in d} <=> s \in d
      BY <1>2, ButtonFacts, DispatchIsUnique DEF Held
    <3> QED
      BY <1>1, <3>1, KeptSource DEF Rises
  <2> QED
    BY <1>1, <1>3, <2>1 DEF InputTypes
<1>9. GesturesAreCounted'
  <2>1. ASSUME NEW s \in d \cap SourceSet
        PROVE  given'[s] = IF hold'.cid = s /\ hold'.fired THEN 1 ELSE 0
    <3>1. CASE s \in Rises(d)
      <4>1. given'[s] = 0 /\ s \notin gesturesDown
        BY <1>8, <3>1
      <4>2. ~(hold'.cid = s /\ hold'.fired)
        <5>1. CASE Keeps(d)
          BY <1>1, <1>2, <1>3, <4>1, <5>1, HoldFacts DEF Listened, HoldIsOfSource, Keeps
        <5>2. CASE ~Keeps(d)
          BY <1>2, <1>3, <2>1, <5>2, HoldFacts
        <5> QED
          BY <5>1, <5>2
      <4> QED
        BY <4>1, <4>2
    <3>2. CASE s \notin Rises(d)
      <4>1. /\ s \in gesturesDown /\ hold # Nobody
            /\ given[s] = IF hold.cid = s /\ hold.fired THEN 1 ELSE 0
        BY <1>1, <1>8, <3>2 DEF Listened, GesturesAreCounted, HoldIsOfSource
      <4>2. ~(Clicks(d) /\ hold.cid = s)
        BY <2>1 DEF Clicks, Keeps
      <4>3. given'[s] = given[s]
        BY <1>8, <3>2, <4>2
      <4>4. CASE Keeps(d)
        <5>1. hold'.cid = hold.cid /\ hold'.fired = hold.fired
          BY <1>2, <1>3, <4>4, HoldFacts
        <5> QED
          BY <4>1, <4>3, <5>1
      <4>5. CASE ~Keeps(d)
        <5>1. hold.cid # s
          BY <2>1, <4>1, <4>5 DEF Keeps
        <5>2. ~hold'.fired
          BY <1>2, <1>3, <2>1, <4>5, HoldFacts
        <5> QED
          BY <4>1, <4>3, <5>1, <5>2
      <4> QED
        BY <4>4, <4>5
    <3> QED
      BY <3>1, <3>2
  <2>2. ASSUME NEW s \in d \cap SourceSet, s \in alone' PROVE gesturesDown' = {s}
    BY <1>3, <2>2
  <2>3. ASSUME NEW s \in SourceSet, s \notin d, s \notin forgiven'
        PROVE  given'[s] <= 1 /\ (s \in alone' => given'[s] = 1)
    <3>1. /\ s \notin Rises(d) /\ s \notin forgiven /\ (s \in alone' => s \in alone)
          /\ given'[s] = IF Clicks(d) /\ hold.cid = s /\ given[s] < 3
                         THEN given[s] + 1 ELSE given[s]
      BY <1>3, <1>8, <2>3
    <3>2. CASE s \in gesturesDown
      <4>1. /\ given[s] = IF hold.cid = s /\ hold.fired THEN 1 ELSE 0
            /\ s \in alone => gesturesDown = {s}
            /\ hold # Nobody /\ hold.cid \in gesturesDown
        BY <1>1, <3>2 DEF Listened, GesturesAreCounted, HoldIsOfSource
      <4>2. hold.cid = s => (Clicks(d) <=> ~hold.fired)
        BY <2>3, <4>1 DEF Clicks, Keeps
      <4>3. CASE hold.cid = s /\ hold.fired
        BY <3>1, <4>1, <4>2, <4>3
      <4>4. CASE hold.cid = s /\ ~hold.fired
        BY <3>1, <4>1, <4>2, <4>4
      <4>5. CASE hold.cid # s
        BY <3>1, <4>1, <4>5
      <4> QED
        BY <4>3, <4>4, <4>5
    <3>3. CASE s \notin gesturesDown
      <4>1. given[s] <= 1 /\ (s \in alone => given[s] = 1)
        BY <1>1, <3>1, <3>3 DEF Listened, GesturesAreCounted
      <4>2. ~(Clicks(d) /\ hold.cid = s)
        BY <1>1, <3>3 DEF Listened, HoldIsOfSource, Clicks
      <4> QED
        BY <3>1, <4>1, <4>2
    <3> QED
      BY <3>2, <3>3
  <2>4. ASSUME hold' # Nobody, hold'.mixed PROVE hold'.cid = Panel /\ told' > 0
    <3>1. Keeps(d)
      BY <1>2, <1>3, <2>4, HoldFacts
    <3>2. hold'.cid = hold.cid /\ hold.mixed /\ hold # Nobody
      BY <1>2, <1>3, <2>4, <3>1, HoldFacts DEF Keeps
    <3> QED
      BY <1>1, <1>3, <3>2 DEF Listened, GesturesAreCounted
  <2> QED
    BY <1>3, <2>1, <2>2, <2>3, <2>4 DEF GesturesAreCounted
<1>10. WheelIsUnderstood'
  BY <1>1, <1>3 DEF Listened, WheelIsUnderstood
<1> QED
  BY <1>4, <1>5, <1>6, <1>7, <1>9, <1>10 DEF InputInv, Queue

\* Swipes stay within a width.
LEMMA SumIsInt == \A a \in Int, b \in Int : SatAdd(a, b) \in Int
BY SwipesAreNumbers DEF SatAdd

\* Motion is counted for the hold.
LEMMA MotionKeepsInput == ASSUME InputInv, TakeMotion PROVE InputInv'
<1> DEFINE e == events[1]
<1>1. InputTypes /\ Queue /\ Listened
  BY PartsOfInput
<1>2. /\ events' \in Seq(Reports) /\ Shortened /\ Head(events) = e /\ 1 \in Queued
      /\ e.kind = "motion" /\ e.dx \in Int /\ e.dy \in Int
  <2>1. /\ events' \in Seq(Reports) /\ Shortened /\ Head(events) = e /\ e \in Reports
        /\ 1 \in Queued
    BY <1>1, OneLess DEF InputTypes, TakeMotion
  <2> QED
    BY <2>1, ReportFacts DEF TakeMotion
<1>3. /\ UNCHANGED <<fingers, diverting, gesturesDown, dpiDown, buttonsDown, told, wheel,
                     edge, forgiven, alone, wheelSaid>>
      /\ hold' = IF hold = Nobody \/ hold.overlap THEN hold
                 ELSE IF hold.skip THEN [hold EXCEPT !.skip = FALSE]
                 ELSE IF hold.fired THEN hold
                 ELSE Accumulated(e)
      /\ given' = IF hold # Nobody /\ hold'.fired /\ ~hold.fired /\ given[hold.cid] < 3
                  THEN [given EXCEPT ![hold.cid] = @ + 1] ELSE given
  BY <1>2 DEF TakeMotion, monitor
<1>4. Queue'
  BY <1>1, <1>2, <1>3, PopKeepsQueue DEF Shows, Wakes, InputTypes
<1>5. CASE hold' = hold
  <2>1. given' = given
    BY <1>3, <1>5
  <2>2. InputTypes'
    BY <1>1, <1>2, <1>3, <1>5, <2>1 DEF InputTypes
  <2>3. Listened'
    BY <1>1, <1>3, <1>5, <2>1, IdleListener DEF accum, sent, InputTypes
  <2> QED
    BY <1>4, <2>2, <2>3, PartsOfInput DEF InputInv, Queue, Listened
<1>6. CASE hold' # hold
  <2>1. hold # Nobody /\ hold \in Holds /\ ~hold.overlap /\ gesturesDown = {hold.cid}
    BY <1>1, <1>3, <1>6 DEF InputTypes, Listened, HoldIsOfSource
  <2>2. /\ hold' \in Holds /\ hold'.cid = hold.cid /\ hold'.overlap = hold.overlap
        /\ hold.fired => hold'.fired
        /\ hold'.mixed => hold.mixed \/ (~hold.skip /\ e.by # {hold.cid})
    <3>1. CASE hold.skip
      <4>1. hold' = [hold EXCEPT !.skip = FALSE]
        BY <1>3, <2>1, <3>1
      <4> QED
        BY <2>1, <4>1 DEF Holds
    <3>2. CASE ~hold.skip
      <4> DEFINE x == SatAdd(hold.dx, e.dx)
                 y == SatAdd(hold.dy, e.dy)
                 fires == (hold.long /\ DetectSwipe(x, y) # Nobody)
                 mixes == (hold.mixed \/ e.by # {hold.cid})
      <4>1. x \in Int /\ y \in Int
        BY <1>2, <2>1, SumIsInt DEF Holds
      <4>2. fires \in BOOLEAN /\ mixes \in BOOLEAN
        OBVIOUS
      <4>3. hold' = [hold EXCEPT !.dx = x, !.dy = y, !.fired = fires, !.mixed = mixes]
            /\ ~hold.fired
        BY <1>3, <1>6, <2>1, <3>2 DEF Accumulated
      <4>4. mixes => hold.mixed \/ e.by # {hold.cid}
        OBVIOUS
      <4> HIDE DEF x, y, fires, mixes
      <4> QED
        BY <2>1, <3>2, <4>1, <4>2, <4>3, <4>4 DEF Holds
    <3> QED
      BY <3>1, <3>2
  <2>3. hold' # Nobody
    BY <2>2, NobodyHolds
  <2>4. hold.cid \in SourceSet /\ given[hold.cid] = IF hold.fired THEN 1 ELSE 0
    BY <1>1, <2>1 DEF Holds, Listened, GesturesAreCounted
  <2>5. given' = [given EXCEPT ![hold.cid] = IF hold'.fired THEN 1 ELSE 0]
    <3>1. CASE hold'.fired /\ ~hold.fired
      <4>1. given[hold.cid] = 0
        BY <2>4, <3>1
      <4>2. given' = [given EXCEPT ![hold.cid] = given[hold.cid] + 1]
        BY <1>3, <2>1, <3>1, <4>1
      <4> QED
        BY <3>1, <4>1, <4>2
    <3>2. CASE ~(hold'.fired /\ ~hold.fired)
      <4>1. given' = given /\ given[hold.cid] = IF hold'.fired THEN 1 ELSE 0
        BY <1>3, <2>2, <2>4, <3>2
      <4> QED
        BY <1>1, <2>4, <4>1 DEF InputTypes
    <3> QED
      BY <3>1, <3>2
  <2>6. InputTypes'
    <3>1. given' \in [SourceSet -> 0..3]
      BY <1>1, <2>4, <2>5 DEF InputTypes
    <3> QED
      BY <1>1, <1>2, <1>3, <2>2, <3>1 DEF InputTypes
  <2>7. EdgesAreKept' /\ WheelIsUnderstood'
    BY <1>1, <1>3 DEF Listened, EdgesAreKept, Before, WheelIsUnderstood
  <2>8. HoldIsOfSource'
    BY <1>3, <2>1, <2>2, <2>3 DEF HoldIsOfSource
  <2>9. GesturesAreCounted'
    <3>1. \A s \in SourceSet : given'[s] = IF s = hold.cid THEN IF hold'.fired THEN 1 ELSE 0
                                           ELSE given[s]
      BY <1>1, <2>4, <2>5 DEF InputTypes
    <3>2. ASSUME NEW s \in gesturesDown'
          PROVE  /\ given'[s] = IF hold'.cid = s /\ hold'.fired THEN 1 ELSE 0
                 /\ s \in alone' => gesturesDown' = {s}
      <4>1. s = hold.cid /\ s \in SourceSet
        BY <1>3, <2>1, <2>4
      <4> QED
        BY <1>3, <2>1, <2>2, <3>1, <4>1
    <3>3. ASSUME NEW s \in SourceSet \ (gesturesDown' \cup forgiven')
          PROVE  given'[s] <= 1 /\ (s \in alone' => given'[s] = 1)
      <4>1. s # hold.cid /\ s \in SourceSet \ (gesturesDown \cup forgiven)
        BY <1>3, <2>1
      <4> QED
        BY <1>1, <1>3, <3>1, <4>1 DEF Listened, GesturesAreCounted
    <3>4. ASSUME hold'.mixed PROVE hold'.cid = Panel /\ told' > 0
      <4>1. CASE hold.mixed
        BY <1>1, <1>3, <2>1, <2>2, <4>1 DEF Listened, GesturesAreCounted
      <4>2. CASE ~hold.skip /\ e.by # {hold.cid}
        <5>1. CASE e.by = {}
          <6>1. Announced(1)
            BY <1>1, <1>2, <5>1 DEF Queue, JumpsAreExpected
          <6> QED
            BY <1>3, <2>1, <2>2, <4>2, <6>1 DEF Announced
        <5>2. CASE e.by # {}
          <6>1. OfThose(1)
            BY <1>1, <1>2, <5>2 DEF Queue, MotionIsTheirs
          <6>2. NoneShows(1)
            BY DEF NoneShows, Queued
          <6> QED
            BY <2>1, <4>2, <6>1, <6>2 DEF OfThose
        <5> QED
          BY <5>1, <5>2
      <4> QED
        BY <2>2, <3>4, <4>1, <4>2
    <3> QED
      BY <3>2, <3>3, <3>4 DEF GesturesAreCounted
  <2> QED
    BY <1>4, <2>6, <2>7, <2>8, <2>9 DEF InputInv, Queue
<1> QED
  BY <1>5, <1>6

\* A report of the wheel is told with its sign.
LEMMA WheelKeepsInput == ASSUME InputInv, TakeWheel PROVE InputInv'
<1> DEFINE e == events[1]
<1>1. InputTypes /\ Queue /\ Listened
  BY PartsOfInput
<1>2. /\ events' \in Seq(Reports) /\ Shortened /\ Head(events) = e
      /\ e.kind = "wheel" /\ e.turn \in {"none", "forward", "back"}
      /\ e.turn = "none" /\ e.status = "inactive" => e.tap = TRUE
  <2>1. /\ events' \in Seq(Reports) /\ Shortened /\ Head(events) = e /\ e \in Reports
    BY <1>1, OneLess DEF InputTypes, TakeWheel
  <2> QED
    BY <2>1, ReportFacts DEF TakeWheel
<1>3. /\ UNCHANGED <<fingers, diverting, accum, monitor, wheel, sent>>
      /\ wheelSaid' = [input |-> WheelInput(e),
                       did |-> IF e.turn # "none" THEN e.turn
                               ELSE IF e.status = "inactive" THEN "tap" ELSE "release"]
  BY <1>2 DEF TakeWheel
<1>4. Queue'
  BY <1>1, <1>2, <1>3, PopKeepsQueue DEF Shows, Wakes, InputTypes, accum, monitor, sent
<1>5. InputTypes'
  BY <1>1, <1>2, <1>3 DEF InputTypes, accum, monitor, sent
<1>6. EdgesAreKept' /\ HoldIsOfSource' /\ GesturesAreCounted'
  BY <1>1, <1>3 DEF Listened, EdgesAreKept, Before, HoldIsOfSource, GesturesAreCounted,
                    accum, monitor, sent
<1>7. WheelIsUnderstood'
  <2>1. wheel.known => (Positive(e.turn) <=> e.turn = "forward")
    BY <1>1 DEF Positive, Inverted, InputTypes
  <2> HIDE DEF e
  <2>2. /\ wheelSaid'.input = WheelInput(e)
        /\ wheelSaid'.did = IF e.turn # "none" THEN e.turn
                            ELSE IF e.status = "inactive" THEN "tap" ELSE "release"
    BY <1>3
  <2>3. CASE e.turn = "none"
    BY <1>2, <1>3, <2>2, <2>3 DEF WheelIsUnderstood, WheelInput
  <2>4. CASE e.turn # "none"
    BY <1>2, <1>3, <2>1, <2>2, <2>4 DEF WheelIsUnderstood, WheelInput
  <2> QED
    BY <2>3, <2>4
<1> QED
  BY <1>4, <1>5, <1>6, <1>7 DEF InputInv, Queue

\* What the monitor does on a reconnection, and how it hears of it.
LEMMA MonitorKeepsInput ==
    ASSUME InputInv,
           \/ TakeBroadcast
           \/ ResetAccum
           \/ \E taken \in BOOLEAN : RearmControls(taken)
    PROVE  InputInv'
<1>1. InputTypes /\ Queue /\ Listened /\ events \in Seq(Reports) /\ told \in Nat
      /\ fingers \in SUBSET Held
  BY PartsOfInput DEF InputTypes
<1>2. ASSUME TakeBroadcast PROVE InputInv'
  <2>1. /\ events' \in Seq(Reports) /\ Shortened /\ events[1].kind = "back"
    BY <1>1, <1>2, OneLess DEF TakeBroadcast
  <2>2. /\ UNCHANGED <<fingers, diverting, accum, wheel, sent, wheelSaid>>
        /\ told' = told + 1
    BY <1>2 DEF TakeBroadcast
  <2>3. InputTypes'
    BY <1>1, <2>1, <2>2 DEF InputTypes, accum, sent
  <2>4. Queue'
    BY <1>1, <2>1, <2>2, PopKeepsQueue DEF Shows, Wakes, accum, sent
  <2>5. Listened'
    BY <1>1, <2>2, IdleListener
  <2> QED
    BY <2>3, <2>4, <2>5 DEF InputInv, Queue, Listened
<1>3. ASSUME ResetAccum PROVE InputInv'
  <2>1. /\ told' \in Nat
        /\ hold' = Nobody /\ gesturesDown' = {} /\ dpiDown' = FALSE /\ buttonsDown' = {}
        /\ forgiven' = forgiven \cup {b \in Buttons : edge[b] = "down"}
        /\ UNCHANGED <<fingers, diverting, events, wheel, edge, given, alone, wheelSaid>>
    BY <1>1, <1>3 DEF ResetAccum
  <2>2. InputTypes'
    BY <1>1, <2>1 DEF InputTypes
  <2>3. Queue'
    BY <1>1, <2>1, ResetKeepsQueue
  <2>4. Before' = {} /\ forgiven' = {b \in Buttons : edge[b] = "down"}
    BY <1>1, <2>1 DEF Before, Listened, EdgesAreKept, InputTypes
  <2>5. EdgesAreKept'
    BY <2>1, <2>4 DEF EdgesAreKept
  <2>6. HoldIsOfSource' /\ WheelIsUnderstood'
    BY <1>1, <2>1 DEF HoldIsOfSource, Listened, WheelIsUnderstood
  <2>7. GesturesAreCounted'
    <3>1. ASSUME NEW s \in SourceSet \ forgiven' PROVE s \notin gesturesDown /\ s \notin forgiven
      <4>1. s \in Buttons /\ edge[s] # "down"
        BY <2>4, <3>1 DEF Buttons
      <4>2. s \notin Before /\ s \notin forgiven
        BY <1>1, <4>1 DEF Listened, EdgesAreKept
      <4> QED
        BY <4>2 DEF Before
    <3> QED
      BY <1>1, <2>1, <3>1 DEF Listened, GesturesAreCounted
  <2> QED
    BY <2>2, <2>3, <2>5, <2>6, <2>7 DEF InputInv, Queue
<1>4. ASSUME NEW taken \in BOOLEAN, RearmControls(taken) PROVE InputInv'
  <2>1. /\ diverting' = (diverting \/ taken)
        /\ events' = IF diverting' = diverting \/ fingers = {} THEN events
                     ELSE Append(events, Snapshot(fingers))
        /\ UNCHANGED <<fingers, accum, told, wheel, sent, wheelSaid>>
    BY <1>4 DEF RearmControls
  <2>2. Listened'
    BY <1>1, <2>1, IdleListener
  <2>3. diverting \in BOOLEAN /\ diverting' \in BOOLEAN
    BY <1>1, <2>1 DEF InputTypes
  <2>4. CASE diverting' = diverting
    <3>1. events' = events /\ events' \in Seq(Reports) /\ Grown(0)
      BY <1>1, <2>1, <2>4 DEF Grown
    <3>2. InputTypes'
      BY <1>1, <2>1, <2>4, <3>1 DEF InputTypes, accum, sent
    <3>3. UNCHANGED <<fingers, diverting, hold, gesturesDown, dpiDown, buttonsDown, edge, told>>
      BY <2>1, <2>4 DEF accum, sent
    <3>4. Queue'
      BY <1>1, <3>1, <3>3, QuietKeepsQueue
    <3> QED
      BY <2>2, <3>2, <3>4 DEF InputInv, Queue, Listened
  <2>5. CASE diverting' # diverting /\ fingers = {}
    <3>1. events' = events /\ ~diverting
      BY <2>1, <2>3, <2>5
    <3>2. InputTypes'
      BY <1>1, <2>1, <2>3, <3>1 DEF InputTypes, accum, sent
    <3>3. Queue'
      BY <1>1, <2>1, <2>5, <3>1, UnseenKeepsQueue DEF sent
    <3> QED
      BY <2>2, <3>2, <3>3 DEF InputInv, Queue, Listened
  <2>6. CASE diverting' # diverting /\ fingers # {}
    <3>1. diverting' /\ events' = Append(events, Snapshot(fingers)) /\ fingers' = fingers
      BY <2>1, <2>3, <2>6
    <3>2. Snapshot(fingers) \in Reports /\ Snapshot(fingers).kind = "buttons"
          /\ Snapshot(fingers).down = fingers
      BY <1>1, ReportsMade
    <3>3. /\ events' \in Seq(Reports) /\ Grown(1)
          /\ events'[Len(events) + 1] = Snapshot(fingers)
      BY <1>1, <3>1, <3>2, OneMore
    <3>4. InputTypes'
      BY <1>1, <2>1, <2>3, <3>3 DEF InputTypes, accum, sent
    <3>5. Queue'
      BY <1>1, <2>1, <3>1, <3>2, <3>3, SnapshotKeepsQueue DEF accum, sent
    <3> QED
      BY <2>2, <3>4, <3>5 DEF InputInv, Queue, Listened
  <2> QED
    BY <2>4, <2>5, <2>6
<1> QED
  BY <1>2, <1>3, <1>4

\* In every reachable state the reports on their way and what the listener
\* keeps are consistent with what is held (InputInv).
THEOREM InputInvHolds == InputSpec => []InputInv
<1>1. InputInit => InputInv
  BY InputStart
<1>2. ASSUME InputInv, [InputNext]_inputVars PROVE InputInv'
  <2>1. CASE UNCHANGED inputVars
    <3>1. UNCHANGED <<fingers, diverting, events, accum, told, wheel, sent, wheelSaid>>
      BY <2>1 DEF inputVars, accum, sent
    <3>2. InputTypes /\ Queue /\ Listened
      BY <1>2, PartsOfInput
    <3>3. InputTypes'
      BY <3>1, <3>2 DEF InputTypes, accum, sent
    <3>4. Queue'
      BY <3>1, <3>2, QuietKeepsQueue DEF InputTypes, Grown, accum, sent
    <3>5. Listened'
      BY <3>1, <3>2, IdleListener DEF InputTypes
    <3> QED
      BY <3>3, <3>4, <3>5 DEF InputInv, Queue, Listened
  <2>2. CASE InputNext
    BY <1>2, <2>2, HandsKeepInput, SnapshotKeepsInput, MotionKeepsInput, WheelKeepsInput,
       MonitorKeepsInput DEF InputNext
  <2> QED
    BY <1>2, <2>1, <2>2
<1> QED
  BY <1>1, <1>2, PTL DEF InputSpec

\* With nothing on its way, what was sent is what is held.
LEMMA InputInvIsEnough == InputInv => InputIsUnderstood
<1> SUFFICES ASSUME InputInv PROVE InputIsUnderstood
  OBVIOUS
<1>1. EdgesFollowFingers
  <2> SUFFICES ASSUME events = <<>>, told = 0, NEW b \in Buttons \ forgiven
               PROVE  /\ edge[b] = "down" => ControlsOf(b) \cap fingers # {}
                      /\ diverting /\ ControlsOf(b) \cap fingers # {} => edge[b] = "down"
    BY DEF EdgesFollowFingers
  <2>1. Queued = {} /\ fingers \in SUBSET Held
    BY DEF Queued, InputInv, InputTypes
  <2>2. ControlsOf(b) \cap fingers # {} <=> b \in ButtonsOf(fingers)
    BY <2>1, ButtonFacts
  <2>3. edge[b] = "down" => b \in ButtonsOf(fingers)
    BY <2>1 DEF InputInv, EdgesAreKept, NothingLingers
  <2>4. diverting /\ b \in ButtonsOf(fingers) => edge[b] = "down"
    BY <2>1 DEF InputInv, HeldAreReported, ButtonsOf
  <2> QED
    BY <2>2, <2>3, <2>4
<1>2. GesturesMatchPresses
  <2>1. ASSUME NEW s \in SourceSet \ forgiven
        PROVE  given[s] <= 1 /\ (edge[s] = "up" /\ s \in alone => given[s] = 1)
    <3>1. CASE s \in gesturesDown
      <4>1. s \in Before /\ s \in Buttons
        BY <3>1 DEF Before, Buttons
      <4>2. edge[s] = "down"
        BY <4>1 DEF InputInv, EdgesAreKept
      <4>3. given[s] = IF hold.cid = s /\ hold.fired THEN 1 ELSE 0
        BY <3>1 DEF InputInv, GesturesAreCounted
      <4> QED
        BY <4>2, <4>3
    <3>2. CASE s \notin gesturesDown
      BY <3>2 DEF InputInv, GesturesAreCounted
    <3> QED
      BY <3>1, <3>2
  <2> QED
    BY <2>1 DEF GesturesMatchPresses, InputInv, GesturesAreCounted
<1> QED
  BY <1>1, <1>2 DEF InputIsUnderstood, PressesAreUnderstood, InputInv

\* What the hand does on the diverted controls and on the wheel is what the
\* consumer is told (handle_reprog_with_gesture_buttons, thumbwheel_input).
THEOREM HandsAreUnderstood == InputSpec => []InputIsUnderstood
BY InputInvHolds, InputInvIsEnough, PTL
=============================================================================
